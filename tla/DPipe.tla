------------------------------- MODULE DPipe -------------------------------
(***************************************************************************)
(* The frame pipe of dpipe.cpp, as the threads that share one pipe see it. *)
(*                                                                         *)
(* A pipe owns a fixed set of frame buffers.  A decoder thread takes a     *)
(* buffer from the input pool (dpipe_get), fills it, and appends it to the *)
(* output pool (dpipe_store); the inference side takes it from the head of *)
(* the output pool (dpipe_load, dpipe_load_nowait), reads it, and gives it *)
(* back (dpipe_put).  Both pools are protected by io_mutex and nothing     *)
(* blocks inside a critical section, so a critical section is one step;    *)
(* what the code does outside it (the sleep of dpipe_get, the signal that  *)
(* dpipe_store sends after the unlock, the wait on the condition variable) *)
(* is a step of its own.                                                   *)
(*                                                                         *)
(* The pools are sequences here: in[1] is the top of the free list, out[1] *)
(* the eldest stored frame.  DPipeList refines them to the linked lists of *)
(* the code.                                                               *)
(***************************************************************************)
EXTENDS Integers, Sequences, FiniteSets

CONSTANTS Producers,   \* threads that get and store (decoder threads)
          Consumers,   \* threads that load and put (scheduler, tracker)
          Buffers,     \* the nframe buffers dpipe_create allocates
          NoBuffer,    \* the NULL buffer pointer
          MaxFrames    \* bound: frames each producer stores

ASSUME ThreadAssumption == /\ Producers \cap Consumers = {}
                           /\ IsFiniteSet(Producers)
                           /\ IsFiniteSet(Consumers)
ASSUME BufferAssumption == /\ NoBuffer \notin Buffers
                           /\ IsFiniteSet(Buffers)
ASSUME BoundAssumption  == MaxFrames \in Nat

VARIABLES in,         \* dpipe->in, the free buffers, a stack
          out,        \* dpipe->out .. dpipe->out_tail, the stored frames
          start,      \* the file-scope flag that dpipe_stop clears
          held,       \* the buffer each thread holds, or NoBuffer
          data,       \* what is in each buffer: <<producer, frame number>>
          pc,         \* where each thread is
          count,      \* frames each producer has written so far
          stored,     \* history: the frames stored, in the order of the stores
          delivered   \* history: the frames loaded, in the order of the loads

vars == <<in, out, start, held, data, pc, count, stored, delivered>>

(* Everything but the threads' program counters. *)
pipeVars == <<in, out, start, held, data, count, stored, delivered>>

Threads == Producers \cup Consumers

Frames == Producers \X Nat

ProducerPC == {"idle", "get", "sleep", "fill", "store", "signal", "null", "done"}

(* "again" is the second pass of a timed load (failed = 1). *)
ConsumerPC == {"idle", "load", "wait", "timed", "timedwait", "again",
               "nowait", "use", "done"}

TypeOK == /\ in \in Seq(Buffers)
          /\ out \in Seq(Buffers)
          /\ start \in BOOLEAN
          /\ held \in [Threads -> Buffers \cup {NoBuffer}]
          /\ data \in [Buffers -> Frames]
          /\ pc \in [Threads -> ProducerPC \cup ConsumerPC]
          /\ \A p \in Producers : pc[p] \in ProducerPC
          /\ \A c \in Consumers : pc[c] \in ConsumerPC
          /\ count \in [Producers -> 0 .. MaxFrames]
          /\ \A p \in Producers :
               pc[p] \in {"get", "sleep", "fill"} => count[p] < MaxFrames
          /\ stored \in Seq(Frames)
          /\ delivered \in Seq(Frames)

-----------------------------------------------------------------------------
(* dpipe_create pushes every buffer on the free list and sets start.  The  *)
(* order of the buffers on the list is immaterial: any order is allowed.   *)
Init == /\ in \in { s \in [1 .. Cardinality(Buffers) -> Buffers] :
                       \A b \in Buffers : \E i \in DOMAIN s : s[i] = b }
        /\ out = << >>
        /\ start = TRUE
        /\ held = [t \in Threads |-> NoBuffer]
        /\ data \in { [b \in Buffers |-> <<p, 0>>] : p \in Producers }
        /\ pc = [t \in Threads |-> "idle"]
        /\ count = [p \in Producers |-> 0]
        /\ stored = << >>
        /\ delivered = << >>

Goto(t, l) == pc' = [pc EXCEPT ![t] = l]

Hold(t, b) == held' = [held EXCEPT ![t] = b]

-----------------------------------------------------------------------------
(* dpipe_get *)

BeginGet(p) == /\ pc[p] = "idle"
               /\ count[p] < MaxFrames
               /\ Goto(p, "get")
               /\ UNCHANGED pipeVars

(* Quick path: pop the free list. *)
GetFree(p) == /\ pc[p] = "get"
              /\ in # << >>
              /\ Hold(p, Head(in))
              /\ in' = Tail(in)
              /\ Goto(p, "fill")
              /\ UNCHANGED <<out, start, data, count, stored, delivered>>

GetSleep_unchecked(p) == /\ pc[p] = "get"   \* start not looked at
                         /\ in = << >>
                         /\ Goto(p, "sleep")
                         /\ UNCHANGED pipeVars

(* No free buffer and not stopped: unlock, usleep(500), goto again. *)
GetSleep(p) == /\ pc[p] = "get"
               /\ in = << >>
               /\ start
               /\ Goto(p, "sleep")
               /\ UNCHANGED pipeVars

GetAgain(p) == /\ pc[p] = "sleep"
               /\ Goto(p, "get")
               /\ UNCHANGED pipeVars

GetEldest_linked(p) == /\ pc[p] = "get"   \* the buffer stays in the pool
                       /\ in = << >>
                       /\ ~start
                       /\ out # << >>
                       /\ Hold(p, Head(out))
                       /\ Goto(p, "fill")
                       /\ UNCHANGED <<in, out, start, data, count, stored, delivered>>

(* Stopped: drop the eldest stored frame and hand its buffer out. *)
GetEldest(p) == /\ pc[p] = "get"
                /\ in = << >>
                /\ ~start
                /\ out # << >>
                /\ Hold(p, Head(out))
                /\ out' = Tail(out)
                /\ Goto(p, "fill")
                /\ UNCHANGED <<in, start, data, count, stored, delivered>>

(* Stopped and both pools empty: NULL is returned. *)
GetNull(p) == /\ pc[p] = "get"
              /\ in = << >>
              /\ ~start
              /\ out = << >>
              /\ Goto(p, "null")
              /\ UNCHANGED pipeVars

-----------------------------------------------------------------------------
(* The decoder writes the frame into the buffer it holds, outside any lock. *)
Fill(p) == /\ pc[p] = "fill"
           /\ data' = [data EXCEPT ![held[p]] = <<p, count[p] + 1>>]
           /\ count' = [count EXCEPT ![p] = count[p] + 1]
           /\ Goto(p, "store")
           /\ UNCHANGED <<in, out, start, held, stored, delivered>>

Store_front(p) == /\ pc[p] = "store"   \* stored at the head
                  /\ out' = <<held[p]>> \o out
                  /\ stored' = Append(stored, data[held[p]])
                  /\ Hold(p, NoBuffer)
                  /\ Goto(p, "signal")
                  /\ UNCHANGED <<in, start, data, count, delivered>>

(* dpipe_store: append at out_tail under io_mutex ... *)
Store(p) == /\ pc[p] = "store"
            /\ out' = Append(out, held[p])
            /\ stored' = Append(stored, data[held[p]])
            /\ Hold(p, NoBuffer)
            /\ Goto(p, "signal")
            /\ UNCHANGED <<in, start, data, count, delivered>>

Waiting == {c \in Consumers : pc[c] \in {"wait", "timedwait"}}

(* Where a thread that pthread_cond_wait or _timedwait lets go continues. *)
AfterWait(c) == IF pc[c] = "wait" THEN "load" ELSE "again"

StoreSignal_lost(p) ==   \* no signal
  /\ pc[p] = "signal"
  /\ Goto(p, "idle")
  /\ UNCHANGED pipeVars

(* ... and pthread_cond_signal(&dpipe->cond) after the unlock: it wakes a  *)
(* waiting thread if there is one, and is lost otherwise.                  *)
StoreSignal(p) ==
  /\ pc[p] = "signal"
  /\ \/ \E c \in Waiting : pc' = [pc EXCEPT ![p] = "idle", ![c] = AfterWait(c)]
     \/ Waiting = {} /\ Goto(p, "idle")
  /\ UNCHANGED pipeVars

(* A decoder whose stream ends, or that got NULL, leaves its loop. *)
ProducerExit(p) == /\ pc[p] \in {"idle", "null"}
                   /\ Goto(p, "done")
                   /\ UNCHANGED pipeVars

-----------------------------------------------------------------------------
(* dpipe_load and dpipe_load_nowait *)

(* The caller picks dpipe_load(p, NULL), dpipe_load(p, abstime) or *)
(* dpipe_load_nowait(p).                                           *)
BeginLoad(c) == /\ pc[c] = "idle"
                /\ \E op \in {"load", "timed", "nowait"} : Goto(c, op)
                /\ UNCHANGED pipeVars

(* All three take the head of the output pool when there is one. *)
LoadTake(c) == /\ pc[c] \in {"load", "timed", "again", "nowait"}
               /\ out # << >>
               /\ Hold(c, Head(out))
               /\ delivered' = Append(delivered, data[Head(out)])
               /\ out' = Tail(out)
               /\ Goto(c, "use")
               /\ UNCHANGED <<in, start, data, count, stored>>

(* Empty pool: wait on cond, which releases io_mutex in the same step. *)
LoadWait(c) == /\ pc[c] \in {"load", "timed"}
               /\ out = << >>
               /\ Goto(c, IF pc[c] = "load" THEN "wait" ELSE "timedwait")
               /\ UNCHANGED pipeVars

(* POSIX lets a condition wait return without a signal; a timed wait also  *)
(* ends when its time is over.                                             *)
SpuriousWake(c) == /\ c \in Waiting
                   /\ Goto(c, AfterWait(c))
                   /\ UNCHANGED pipeVars

(* Second pass of a timed load, or dpipe_load_nowait, on an empty pool: the *)
(* caller gets NULL, whatever ended the wait.                               *)
LoadNull(c) == /\ pc[c] \in {"again", "nowait"}
               /\ out = << >>
               /\ Goto(c, "idle")
               /\ UNCHANGED pipeVars

Put_tail(c) == /\ pc[c] = "use"   \* queued behind the free buffers
               /\ in' = Append(in, held[c])
               /\ Hold(c, NoBuffer)
               /\ Goto(c, "idle")
               /\ UNCHANGED <<out, start, data, count, stored, delivered>>

(* dpipe_put pushes on the free list.  No thread waits on cond_input, so   *)
(* its signal changes nothing.                                             *)
Put(c) == /\ pc[c] = "use"
          /\ in' = <<held[c]>> \o in
          /\ Hold(c, NoBuffer)
          /\ Goto(c, "idle")
          /\ UNCHANGED <<out, start, data, count, stored, delivered>>

ConsumerExit(c) == /\ pc[c] = "idle"
                   /\ Goto(c, "done")
                   /\ UNCHANGED pipeVars

-----------------------------------------------------------------------------
(* dpipe_stop only clears the flag: it wakes nobody. *)
dpipe_stop == /\ start
              /\ start' = FALSE
              /\ UNCHANGED <<in, out, held, data, pc, count, stored, delivered>>

ProducerStep(p) == \/ BeginGet(p) \/ GetFree(p) \/ GetSleep(p) \/ GetAgain(p)
                   \/ GetEldest(p) \/ GetNull(p) \/ Fill(p) \/ Store(p)
                   \/ StoreSignal(p)

ConsumerStep(c) == \/ LoadTake(c) \/ LoadWait(c) \/ LoadNull(c) \/ Put(c)

Next == \/ \E p \in Producers : ProducerStep(p) \/ ProducerExit(p)
        \/ \E c \in Consumers : \/ BeginLoad(c) \/ ConsumerStep(c)
                                \/ SpuriousWake(c) \/ ConsumerExit(c)
        \/ dpipe_stop

(* A thread inside an operation is scheduled again and again.  Which       *)
(* operation the clients start, whether they leave, spurious wake-ups and  *)
(* the stop are not assumed to happen.                                     *)
Fairness == /\ \A p \in Producers : WF_vars(ProducerStep(p) /\ pc[p] # "idle")
            /\ \A c \in Consumers : WF_vars(ConsumerStep(c))

Spec == Init /\ [][Next]_vars

FairSpec == Spec /\ Fairness

-----------------------------------------------------------------------------
RangeOf(s) == {s[i] : i \in 1 .. Len(s)}

Distinct(s) == \A i, j \in 1 .. Len(s) : s[i] = s[j] => i = j

HeldBuffers == {held[t] : t \in {u \in Threads : held[u] # NoBuffer}}

(* Every buffer of the pipe is in exactly one place: the free list, the     *)
(* output list, or the hands of one thread.                                 *)
Conservation ==
  /\ Buffers = RangeOf(in) \cup RangeOf(out) \cup HeldBuffers
  /\ Distinct(in)
  /\ Distinct(out)
  /\ RangeOf(in) \cap RangeOf(out) = {}
  /\ HeldBuffers \cap (RangeOf(in) \cup RangeOf(out)) = {}
  /\ \A t, u \in Threads : held[t] = held[u] /\ held[t] # NoBuffer => t = u

(* A thread holds a buffer exactly between the call that hands it out and   *)
(* the call that takes it back, so no exit from a client loop leaks one.    *)
HoldingPC == \A t \in Threads : held[t] # NoBuffer <=> pc[t] \in {"fill", "store", "use"}

(* dpipe_get, _put, _load and _store never lose a buffer, duplicate it,     *)
(* give it to two threads or leave it with one that has returned.           *)
BuffersAccounted == TypeOK /\ HoldingPC /\ Conservation

(* Threads that will look at the output pool without a further signal. *)
Awake == {c \in Consumers : pc[c] \in {"load", "timed", "again"}}

Signallers == {p \in Producers : pc[p] = "signal"}

(* No wake-up is lost although dpipe_store signals after the unlock: while  *)
(* a thread waits in dpipe_load, each stored frame is matched by a signal   *)
(* still to be sent or by a thread that is about to look at the pool.       *)
NoLostWakeup ==
  Waiting # {} => Len(out) <= Cardinality(Signallers) + Cardinality(Awake)

(* Until dpipe_stop, the pipe is a lossless FIFO: what was loaded, followed *)
(* by what is in the output pool, is what was stored, in that order, and no *)
(* buffer of the output pool is written after its store.                    *)
LosslessFifo ==
  start => delivered \o [i \in 1 .. Len(out) |-> data[out[i]]] = stored

(* After dpipe_stop frames may be dropped (dpipe_get takes the eldest       *)
(* stored one), but no producer's frames are delivered twice or out of      *)
(* order.                                                                   *)
DeliveredInOrder ==
  \A i, j \in 1 .. Len(delivered) :
    i < j /\ delivered[i][1] = delivered[j][1] => delivered[i][2] < delivered[j][2]

(* Readers get frames in the order of the stores, without loss until        *)
(* dpipe_stop and without repetition after it.                              *)
FifoKept == LosslessFifo /\ DeliveredInOrder

Pools == INSTANCE FramePools WITH free <- in, queue <- out, taken <- HeldBuffers

(* Whatever the interleaving of its threads, the pipe is the stack of free *)
(* buffers and the FIFO of stored ones that FramePools describes.          *)
ImplementsFramePools == Pools!Spec

(* dpipe_get returns once the pipes are stopped, whatever the consumers do: *)
(* a decoder cannot hang in the retry loop of dpipe_get after dpipe_stop.   *)
GetReturnsAfterStop ==
  \A p \in Producers :
    (pc[p] \in {"get", "sleep"} /\ ~start) ~> (pc[p] \in {"fill", "null"})

(* A frame is never stranded behind a sleeping reader: if a thread waits in *)
(* dpipe_load while the output pool is not empty, the pool empties or the   *)
(* wait ends.                                                               *)
WaitersAreServed ==
  (Waiting # {} /\ out # << >>) ~> (Waiting = {} \/ out = << >>)
=============================================================================
