----------------------------- MODULE DPipeList -----------------------------
(***************************************************************************)
(* The two pools of a dpipe_t as dpipe.cpp keeps them: intrusive singly    *)
(* linked lists through dpipe_buffer_t.next, the heads in and out, the     *)
(* tail pointer out_tail, and the two counters.  One action is one         *)
(* critical section of io_mutex; which thread runs it does not matter      *)
(* here (DPipe has the threads).  The lists implement FramePools.          *)
(***************************************************************************)
EXTENDS Integers, Sequences, FiniteSets

CONSTANTS Buffers,    \* the dpipe_buffer_t objects of the pipe
          NULL

(* dpipe_create refuses nframe <= 0. *)
ASSUME BufferAssumption == /\ NULL \notin Buffers
                           /\ IsFiniteSet(Buffers)
                           /\ Buffers # {}

VARIABLES in, out, out_tail,    \* dpipe_t pointers
          in_count, out_count,  \* dpipe_t counters
          next,                 \* dpipe_buffer_t.next of every buffer
          taken                 \* buffers handed out to the callers

vars == <<in, out, out_tail, in_count, out_count, next, taken>>

Pointer == Buffers \cup {NULL}

TypeOK == /\ in \in Pointer /\ out \in Pointer /\ out_tail \in Pointer
          /\ in_count \in 0 .. Cardinality(Buffers)
          /\ out_count \in 0 .. Cardinality(Buffers)
          /\ next \in [Buffers -> Pointer]
          /\ taken \subseteq Buffers

(* s is the list that starts at pointer p when the links are nx: p points   *)
(* to its first node, every node to the one behind it, and the last one to  *)
(* nothing.                                                                 *)
Linked(nx, p, s) ==
  /\ p = (IF s = << >> THEN NULL ELSE s[1])
  /\ \A i \in 1 .. Len(s) : nx[s[i]] = (IF i = Len(s) THEN NULL ELSE s[i + 1])

Lists == UNION {[1 .. n -> Buffers] : n \in 0 .. Cardinality(Buffers)}

ListAt(nx, p) == CHOOSE s \in Lists : Linked(nx, p, s)

(* The loop of dpipe_create pushes the buffers it allocates one by one on   *)
(* the free list; order is the order of the allocations.                    *)
Init == \E order \in [1 .. Cardinality(Buffers) -> Buffers] :
          /\ \A b \in Buffers : \E i \in DOMAIN order : order[i] = b
          /\ LET n == Cardinality(Buffers)
                 At(b) == CHOOSE i \in DOMAIN order : order[i] = b
             IN  /\ in = order[n]
                 /\ next = [b \in Buffers |->
                              IF At(b) = 1 THEN NULL ELSE order[At(b) - 1]]
                 /\ in_count = n
          /\ out = NULL
          /\ out_tail = NULL
          /\ out_count = 0
          /\ taken = {}

(* dpipe_get, quick path: unlink the head of the free list. *)
dpipe_get == /\ in # NULL
             /\ in' = next[in]
             /\ next' = [next EXCEPT ![in] = NULL]
             /\ in_count' = in_count - 1
             /\ taken' = taken \cup {in}
             /\ UNCHANGED <<out, out_tail, out_count>>

TakeOut_stale == /\ out # NULL   \* out_tail is not cleared
                 /\ out' = next[out]
                 /\ next' = [next EXCEPT ![out] = NULL]
                 /\ out_count' = out_count - 1
                 /\ taken' = taken \cup {out}
                 /\ UNCHANGED <<in, in_count, out_tail>>

(* dpipe_load, dpipe_load_nowait, and dpipe_get once the pipes are stopped: *)
(* unlink the head of the output list, and clear the tail with the last one.*)
TakeOut == /\ out # NULL
           /\ out' = next[out]
           /\ next' = [next EXCEPT ![out] = NULL]
           /\ out_tail' = IF next[out] = NULL THEN NULL ELSE out_tail
           /\ out_count' = out_count - 1
           /\ taken' = taken \cup {out}
           /\ UNCHANGED <<in, in_count>>

dpipe_load == TakeOut

dpipe_get_stopped == in = NULL /\ TakeOut

dpipe_put(b) == /\ b \in taken
                /\ next' = [next EXCEPT ![b] = in]
                /\ in' = b
                /\ in_count' = in_count + 1
                /\ taken' = taken \ {b}
                /\ UNCHANGED <<out, out_tail, out_count>>

(* The link of the old tail is written before the link of the new one. *)
dpipe_store(b) ==
  /\ b \in taken
  /\ IF out_tail # NULL
       THEN /\ next' = [next EXCEPT ![out_tail] = b, ![b] = NULL]
            /\ UNCHANGED out
       ELSE /\ next' = [next EXCEPT ![b] = NULL]
            /\ out' = b
  /\ out_tail' = b
  /\ out_count' = out_count + 1
  /\ taken' = taken \ {b}
  /\ UNCHANGED <<in, in_count>>

Next == \/ dpipe_get \/ dpipe_load \/ dpipe_get_stopped
        \/ \E b \in Buffers : dpipe_put(b) \/ dpipe_store(b)

Spec == Init /\ [][Next]_vars

-----------------------------------------------------------------------------
(* The counters of dpipe_t and the tail pointer agree with the lists after  *)
(* every critical section, and the two lists and the taken buffers          *)
(* partition the buffers: no link is left dangling into the other list, and *)
(* a buffer that a caller holds is linked to nothing (dpipe_get and         *)
(* dpipe_load clear vbuf->next before they return it).                      *)
ListsWellFormed ==
  LET I == ListAt(next, in)
      O == ListAt(next, out)
  IN  /\ TypeOK
      /\ Linked(next, in, I) /\ Linked(next, out, O)
      /\ in_count = Len(I)
      /\ out_count = Len(O)
      /\ out_tail = (IF O = << >> THEN NULL ELSE O[Len(O)])
      /\ Len(I) + Len(O) + Cardinality(taken) = Cardinality(Buffers)
      /\ {I[i] : i \in DOMAIN I} \cup {O[i] : i \in DOMAIN O} \cup taken = Buffers
      /\ \A b \in taken : next[b] = NULL

Pools == INSTANCE FramePools WITH free <- ListAt(next, in),
                               queue <- ListAt(next, out)

(* The pointer manipulation of dpipe.cpp implements a stack of free buffers *)
(* and a FIFO of stored ones.                                               *)
ImplementsFramePools == Pools!Spec
=============================================================================
