----------------------------- MODULE FramePools -----------------------------
(***************************************************************************)
(* What a frame pipe promises about its buffers, without threads, locks or *)
(* pointers: every buffer is free, queued or taken by a client; a buffer   *)
(* is taken from the top of the free stack or from the head of the queue,  *)
(* and a taken buffer goes back to the top of the stack (dpipe_put) or to  *)
(* the tail of the queue (dpipe_store).  DPipe and DPipeList implement it. *)
(***************************************************************************)
EXTENDS Integers, Sequences

CONSTANT Buffers

VARIABLES free,    \* the input pool, a stack: free[1] is its top
          queue,   \* the output pool, a FIFO: queue[1] is the eldest frame
          taken    \* the buffers that clients hold

poolVars == <<free, queue, taken>>

Init == /\ free \in Seq(Buffers)
        /\ \A b \in Buffers : \E i \in 1 .. Len(free) : free[i] = b
        /\ \A i, j \in 1 .. Len(free) : free[i] = free[j] => i = j
        /\ queue = << >>
        /\ taken = {}

TakeFree == /\ free # << >>
            /\ taken' = taken \cup {Head(free)}
            /\ free' = Tail(free)
            /\ UNCHANGED queue

TakeEldest == /\ queue # << >>
              /\ taken' = taken \cup {Head(queue)}
              /\ queue' = Tail(queue)
              /\ UNCHANGED free

GiveBack(b) == /\ b \in taken
               /\ taken' = taken \ {b}
               /\ free' = <<b>> \o free
               /\ UNCHANGED queue

Enqueue(b) == /\ b \in taken
              /\ taken' = taken \ {b}
              /\ queue' = Append(queue, b)
              /\ UNCHANGED free

Next == TakeFree \/ TakeEldest \/ \E b \in Buffers : GiveBack(b) \/ Enqueue(b)

Spec == Init /\ [][Next]_poolVars
=============================================================================
