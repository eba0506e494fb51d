---------------------------- MODULE DPipeProofs ----------------------------
(***************************************************************************)
(* TLAPS proofs about DPipe, for every number of producers, consumers and  *)
(* buffers: type correctness, conservation of the buffers, no lost         *)
(* wake-up, and that the pipe implements FramePools.                       *)
(***************************************************************************)
EXTENDS DPipe, FiniteSetTheorems, SequenceTheorems, TLAPS

USE DEF pipeVars

-----------------------------------------------------------------------------
(* Facts about the two pools as sequences without repetition. *)

(* Taking the head of a pool removes exactly that buffer from it. *)
LEMMA TakeHead ==
  ASSUME NEW S, NEW s \in Seq(S), s # << >>
  PROVE  /\ Head(s) \in S
         /\ Tail(s) \in Seq(S)
         /\ Len(Tail(s)) = Len(s) - 1
         /\ Len(s) \in Nat
         /\ Head(s) \in RangeOf(s)
         /\ Distinct(s) => /\ Distinct(Tail(s))
                           /\ RangeOf(Tail(s)) = RangeOf(s) \ {Head(s)}
<1>1. /\ Head(s) \in S
      /\ Tail(s) \in Seq(S)
      /\ Len(Tail(s)) = Len(s) - 1
      /\ \A i \in 1 .. Len(Tail(s)) : Tail(s)[i] = s[i+1]
  BY HeadTailProperties
<1>2. Len(s) \in Nat \ {0} /\ Head(s) = s[1]
  BY EmptySeq
<1>3. Head(s) \in RangeOf(s)
  BY <1>2 DEF RangeOf
<1>4. ASSUME Distinct(s)
      PROVE  Distinct(Tail(s)) /\ RangeOf(Tail(s)) = RangeOf(s) \ {Head(s)}
  <2>1. Distinct(Tail(s))
    <3>1. SUFFICES ASSUME NEW i \in 1 .. Len(Tail(s)), NEW j \in 1 .. Len(Tail(s)),
                          Tail(s)[i] = Tail(s)[j]
                   PROVE  i = j
      BY DEF Distinct
    <3>2. s[i+1] = s[j+1] /\ i+1 \in 1 .. Len(s) /\ j+1 \in 1 .. Len(s)
      BY <1>1, <1>2, <3>1
    <3>3. i + 1 = j + 1
      BY <3>2, <1>4 DEF Distinct
    <3> QED
      BY <3>3, <1>1, <1>2
  <2>2. RangeOf(Tail(s)) \subseteq RangeOf(s) \ {Head(s)}
    <3>1. SUFFICES ASSUME NEW i \in 1 .. Len(Tail(s))
                   PROVE  Tail(s)[i] \in RangeOf(s) \ {Head(s)}
      BY DEF RangeOf
    <3>2. Tail(s)[i] = s[i+1] /\ i+1 \in 1 .. Len(s) /\ 1 \in 1 .. Len(s) /\ i+1 # 1
      BY <1>1, <1>2
    <3>3. s[i+1] # s[1]
      BY <3>2, <1>4 DEF Distinct
    <3> QED
      BY <3>2, <3>3, <1>2 DEF RangeOf
  <2>3. RangeOf(s) \ {Head(s)} \subseteq RangeOf(Tail(s))
    <3>1. SUFFICES ASSUME NEW i \in 1 .. Len(s), s[i] # s[1]
                   PROVE  s[i] \in RangeOf(Tail(s))
      BY <1>2 DEF RangeOf
    <3>2. i - 1 \in 1 .. Len(Tail(s)) /\ Tail(s)[i-1] = s[i]
      BY <1>1, <1>2, <3>1
    <3> QED
      BY <3>2 DEF RangeOf
  <2> QED
    BY <2>1, <2>2, <2>3
<1> QED
  BY <1>1, <1>2, <1>3, <1>4

(* Storing a buffer that is not in the pool adds exactly that buffer. *)
LEMMA AppendOne ==
  ASSUME NEW S, NEW s \in Seq(S), NEW b \in S
  PROVE  /\ Append(s, b) \in Seq(S)
         /\ Len(s) \in Nat
         /\ Len(Append(s, b)) = Len(s) + 1
         /\ RangeOf(Append(s, b)) = RangeOf(s) \cup {b}
         /\ Distinct(s) /\ b \notin RangeOf(s) => Distinct(Append(s, b))
<1> DEFINE a == Append(s, b)
<1>1. /\ a \in Seq(S)
      /\ Len(a) = Len(s) + 1
      /\ \A i \in 1 .. Len(s) : a[i] = s[i]
      /\ a[Len(s) + 1] = b
      /\ Len(s) \in Nat
  BY AppendProperties, LenProperties
<1>2. RangeOf(a) = RangeOf(s) \cup {b}
  <2>1. ASSUME NEW i \in 1 .. Len(a) PROVE a[i] \in RangeOf(s) \cup {b}
    <3>1. CASE i \in 1 .. Len(s)
      BY <3>1, <1>1 DEF RangeOf
    <3>2. CASE i = Len(s) + 1
      BY <3>2, <1>1
    <3> QED
      BY <3>1, <3>2, <1>1
  <2>2. ASSUME NEW i \in 1 .. Len(s) PROVE s[i] \in RangeOf(a)
    <3>1. i \in 1 .. Len(a) /\ a[i] = s[i]
      BY <1>1
    <3> QED
      BY <3>1 DEF RangeOf
  <2>3. b \in RangeOf(a)
    <3>1. Len(s) + 1 \in 1 .. Len(a)
      BY <1>1
    <3> QED
      BY <3>1, <1>1 DEF RangeOf
  <2> QED
    BY <2>1, <2>2, <2>3 DEF RangeOf
<1>3. ASSUME Distinct(s), b \notin RangeOf(s) PROVE Distinct(a)
  <2>1. SUFFICES ASSUME NEW i \in 1 .. Len(a), NEW j \in 1 .. Len(a), a[i] = a[j]
                 PROVE  i = j
    BY DEF Distinct
  <2>2. \A k \in 1 .. Len(s) : s[k] # b
    BY <1>3 DEF RangeOf
  <2>3. CASE i \in 1 .. Len(s) /\ j \in 1 .. Len(s)
    BY <2>1, <2>3, <1>1, <1>3 DEF Distinct
  <2>4. CASE i \in 1 .. Len(s) /\ j = Len(s) + 1
    BY <2>1, <2>4, <2>2, <1>1
  <2>5. CASE i = Len(s) + 1 /\ j \in 1 .. Len(s)
    BY <2>1, <2>5, <2>2, <1>1
  <2>6. CASE i = Len(s) + 1 /\ j = Len(s) + 1
    BY <2>6
  <2> QED
    BY <2>3, <2>4, <2>5, <2>6, <1>1
<1> QED
  BY <1>1, <1>2, <1>3

(* Pushing a buffer that is not in the pool adds exactly that buffer. *)
LEMMA PushOne ==
  ASSUME NEW S, NEW s \in Seq(S), NEW b \in S
  PROVE  /\ <<b>> \o s \in Seq(S)
         /\ RangeOf(<<b>> \o s) = RangeOf(s) \cup {b}
         /\ Distinct(s) /\ b \notin RangeOf(s) => Distinct(<<b>> \o s)
<1> DEFINE a == <<b>> \o s
<1>1. /\ a \in Seq(S)
      /\ Len(s) \in Nat
      /\ Len(a) = 1 + Len(s)
      /\ a[1] = b
      /\ \A i \in 1 .. Len(s) : a[i + 1] = s[i]
  <2>1. <<b>> \in Seq(S) /\ Len(<<b>>) = 1 /\ <<b>>[1] = b
    OBVIOUS
  <2>2. /\ a \in Seq(S)
        /\ Len(a) = 1 + Len(s)
        /\ \A i \in 1 .. 1 + Len(s) : a[i] = IF i <= 1 THEN <<b>>[i] ELSE s[i - 1]
    BY <2>1, ConcatProperties
  <2>3. Len(s) \in Nat
    BY LenProperties
  <2> QED
    BY <2>1, <2>2, <2>3
<1>2. RangeOf(a) = RangeOf(s) \cup {b}
  <2>1. ASSUME NEW i \in 1 .. Len(a) PROVE a[i] \in RangeOf(s) \cup {b}
    <3>1. CASE i = 1
      BY <3>1, <1>1
    <3>2. CASE i # 1
      <4>1. i - 1 \in 1 .. Len(s) /\ a[i] = s[i - 1]
        BY <3>2, <1>1
      <4> QED
        BY <4>1 DEF RangeOf
    <3> QED
      BY <3>1, <3>2
  <2>2. ASSUME NEW i \in 1 .. Len(s) PROVE s[i] \in RangeOf(a)
    <3>1. i + 1 \in 1 .. Len(a) /\ a[i + 1] = s[i]
      BY <1>1
    <3> QED
      BY <3>1 DEF RangeOf
  <2>3. b \in RangeOf(a)
    <3>1. 1 \in 1 .. Len(a)
      BY <1>1
    <3> QED
      BY <3>1, <1>1 DEF RangeOf
  <2> QED
    BY <2>1, <2>2, <2>3 DEF RangeOf
<1>3. ASSUME Distinct(s), b \notin RangeOf(s) PROVE Distinct(a)
  <2>1. SUFFICES ASSUME NEW i \in 1 .. Len(a), NEW j \in 1 .. Len(a), a[i] = a[j]
                 PROVE  i = j
    BY DEF Distinct
  <2>2. \A k \in 1 .. Len(s) : s[k] # b
    BY <1>3 DEF RangeOf
  <2>3. \A k \in 1 .. Len(a) : k # 1 => k - 1 \in 1 .. Len(s) /\ a[k] = s[k - 1]
    BY <1>1
  <2>4. CASE i = 1 \/ j = 1
    BY <2>1, <2>2, <2>3, <2>4, <1>1
  <2>5. CASE i # 1 /\ j # 1
    <3>1. i - 1 = j - 1
      BY <2>1, <2>3, <2>5, <1>3 DEF Distinct
    <3> QED
      BY <3>1, <1>1
  <2> QED
    BY <2>4, <2>5
<1> QED
  BY <1>1, <1>2, <1>3

(* The free list that dpipe_create builds holds every buffer once. *)
LEMMA InitialPool ==
  ASSUME NEW s \in [1 .. Cardinality(Buffers) -> Buffers],
         \A b \in Buffers : \E i \in DOMAIN s : s[i] = b
  PROVE  s \in Seq(Buffers) /\ Distinct(s) /\ RangeOf(s) = Buffers
<1> DEFINE n == Cardinality(Buffers)
<1>1. n \in Nat
  BY FS_CardinalityType, BufferAssumption
<1>2. s \in Seq(Buffers) /\ Len(s) = n
  BY <1>1
<1>3. RangeOf(s) = Buffers
  BY <1>2 DEF RangeOf
<1>4. Distinct(s)
  <2>1. s \in Surjection(1 .. n, Buffers)
    BY DEF Surjection
  <2>2. IsFiniteSet(1 .. n) /\ Cardinality(1 .. n) = n
    BY <1>1, FS_Interval
  <2>3. s \in Injection(1 .. n, Buffers)
    BY <2>1, <2>2, FS_SurjSameCardinalityImpliesInj
  <2> QED
    BY <2>3, <1>2 DEF Injection, IsInjective, Distinct
<1> QED
  BY <1>2, <1>3, <1>4

-----------------------------------------------------------------------------
(* Facts about the buffers that the threads hold. *)

(* A thread that holds nothing takes buffer b. *)
LEMMA HoldOne ==
  ASSUME TypeOK, NEW t \in Threads, NEW b \in Buffers,
         held[t] = NoBuffer, Hold(t, b)
  PROVE  /\ HeldBuffers' = HeldBuffers \cup {b}
         /\ held' \in [Threads -> Buffers \cup {NoBuffer}]
         /\ b \notin HeldBuffers /\ (\A u, v \in Threads :
               held[u] = held[v] /\ held[u] # NoBuffer => u = v)
            => \A u, v \in Threads :
                  held'[u] = held'[v] /\ held'[u] # NoBuffer => u = v
<1>1. b # NoBuffer
  BY BufferAssumption
<1>2. /\ held \in [Threads -> Buffers \cup {NoBuffer}]
      /\ held' = [held EXCEPT ![t] = b]
  BY DEF TypeOK, Hold
<1>3. \A x : x \in HeldBuffers <=> \E u \in Threads : held[u] = x /\ x # NoBuffer
  BY DEF HeldBuffers
<1>4. \A x : x \in HeldBuffers' <=> \E u \in Threads : held'[u] = x /\ x # NoBuffer
  BY DEF HeldBuffers
<1>5. \A u \in Threads : held'[u] = IF u = t THEN b ELSE held[u]
  BY <1>2
<1>6. HeldBuffers' = HeldBuffers \cup {b}
  BY <1>1, <1>3, <1>4, <1>5
<1> QED
  BY <1>1, <1>2, <1>3, <1>5, <1>6

(* A thread gives up the buffer it holds. *)
LEMMA DropOne ==
  ASSUME TypeOK, NEW t \in Threads, held[t] # NoBuffer, Hold(t, NoBuffer),
         \A u, v \in Threads : held[u] = held[v] /\ held[u] # NoBuffer => u = v
  PROVE  /\ HeldBuffers' = HeldBuffers \ {held[t]}
         /\ held[t] \in HeldBuffers
         /\ held[t] \in Buffers
         /\ held' \in [Threads -> Buffers \cup {NoBuffer}]
         /\ \A u, v \in Threads :
               held'[u] = held'[v] /\ held'[u] # NoBuffer => u = v
<1>1. /\ held \in [Threads -> Buffers \cup {NoBuffer}]
      /\ held' = [held EXCEPT ![t] = NoBuffer]
  BY DEF TypeOK, Hold
<1>2. \A x : x \in HeldBuffers <=> \E u \in Threads : held[u] = x /\ x # NoBuffer
  BY DEF HeldBuffers
<1>3. \A x : x \in HeldBuffers' <=> \E u \in Threads : held'[u] = x /\ x # NoBuffer
  BY DEF HeldBuffers
<1>4. \A u \in Threads : held'[u] = IF u = t THEN NoBuffer ELSE held[u]
  BY <1>1
<1>5. HeldBuffers' = HeldBuffers \ {held[t]}
  BY <1>2, <1>3, <1>4
<1> QED
  BY <1>1, <1>2, <1>4, <1>5

-----------------------------------------------------------------------------
(* The buffer discipline of a thread and its type are proved together. *)
TypeInv == TypeOK /\ HoldingPC

(* The strengthened type invariant holds after dpipe_create. *)
LEMMA TypeInit == Init => TypeInv
<1> SUFFICES ASSUME Init PROVE TypeInv
  OBVIOUS
<1>1. in \in Seq(Buffers)
  BY InitialPool DEF Init
<1>2. data \in [Buffers -> Frames]
  BY DEF Init, Frames
<1>3. TypeOK
  BY <1>1, <1>2, BoundAssumption DEF Init, TypeOK, ProducerPC, ConsumerPC, Threads
<1>4. HoldingPC
  BY DEF Init, HoldingPC
<1> QED
  BY <1>3, <1>4 DEF TypeInv

(* Every step of every thread keeps the strengthened type invariant. *)
LEMMA TypeStep == TypeInv /\ [Next]_vars => TypeInv'
<1> SUFFICES ASSUME TypeInv, [Next]_vars PROVE TypeInv'
  OBVIOUS
<1> USE DEF TypeInv
<1>1. ASSUME NEW p \in Producers, GetFree(p) PROVE TypeInv'
  <2>1. Head(in) \in Buffers /\ Tail(in) \in Seq(Buffers)
    BY <1>1, TakeHead DEF GetFree, TypeOK
  <2> QED
    BY <1>1, <2>1, ThreadAssumption, BufferAssumption
       DEF GetFree, TypeOK, HoldingPC, Goto, Hold, Threads, ProducerPC, ConsumerPC
<1>2. ASSUME NEW p \in Producers, GetEldest(p) PROVE TypeInv'
  <2>1. Head(out) \in Buffers /\ Tail(out) \in Seq(Buffers)
    BY <1>2, TakeHead DEF GetEldest, TypeOK
  <2> QED
    BY <1>2, <2>1, ThreadAssumption, BufferAssumption
       DEF GetEldest, TypeOK, HoldingPC, Goto, Hold, Threads, ProducerPC, ConsumerPC
<1>3. ASSUME NEW p \in Producers,
             BeginGet(p) \/ GetSleep(p) \/ GetAgain(p) \/ GetNull(p) \/ ProducerExit(p)
      PROVE  TypeInv'
  BY <1>3, ThreadAssumption
     DEF BeginGet, GetSleep, GetAgain, GetNull, ProducerExit, TypeOK, HoldingPC,
         Goto, Threads, ProducerPC, ConsumerPC
<1>4. ASSUME NEW p \in Producers, Fill(p) PROVE TypeInv'
  <2>1. held[p] \in Buffers
    BY <1>4 DEF Fill, TypeOK, HoldingPC, Threads
  <2>2. count[p] \in 0 .. MaxFrames /\ count[p] < MaxFrames
    BY <1>4 DEF Fill, TypeOK
  <2>3. count[p] + 1 \in 0 .. MaxFrames /\ <<p, count[p] + 1>> \in Frames
    BY <2>2, BoundAssumption DEF Frames
  <2>4. data' \in [Buffers -> Frames] /\ count' \in [Producers -> 0 .. MaxFrames]
    BY <1>4, <2>3 DEF Fill, TypeOK
  <2>5. \A q \in Producers : q # p => count'[q] = count[q] /\ pc'[q] = pc[q]
    BY <1>4 DEF Fill, Goto, TypeOK, Threads
  <2> QED
    BY <1>4, <2>1, <2>4, <2>5, ThreadAssumption
       DEF Fill, TypeOK, HoldingPC, Goto, Threads, ProducerPC, ConsumerPC
<1>5. ASSUME NEW p \in Producers, Store(p) PROVE TypeInv'
  <2>1. held[p] \in Buffers
    BY <1>5 DEF Store, TypeOK, HoldingPC, Threads
  <2>2. Append(out, held[p]) \in Seq(Buffers) /\ Append(stored, data[held[p]]) \in Seq(Frames)
    BY <2>1, AppendOne DEF TypeOK
  <2> QED
    BY <1>5, <2>1, <2>2, ThreadAssumption
       DEF Store, TypeOK, HoldingPC, Goto, Hold, Threads, ProducerPC, ConsumerPC
<1>6. ASSUME NEW p \in Producers, StoreSignal(p) PROVE TypeInv'
  <2>1. CASE \E c \in Waiting : pc' = [pc EXCEPT ![p] = "idle", ![c] = AfterWait(c)]
    <3>1. PICK c \in Waiting : pc' = [pc EXCEPT ![p] = "idle", ![c] = AfterWait(c)]
      BY <2>1
    <3>2. c \in Consumers /\ c # p /\ AfterWait(c) \in {"load", "again"}
      BY ThreadAssumption DEF Waiting, AfterWait
    <3> QED
      BY <1>6, <3>1, <3>2, ThreadAssumption
         DEF StoreSignal, TypeOK, HoldingPC, Waiting, Threads, ProducerPC, ConsumerPC
  <2>2. CASE Goto(p, "idle")
    BY <1>6, <2>2, ThreadAssumption
       DEF StoreSignal, TypeOK, HoldingPC, Goto, Threads, ProducerPC, ConsumerPC
  <2> QED
    BY <1>6, <2>1, <2>2 DEF StoreSignal
<1>7. ASSUME NEW c \in Consumers, LoadTake(c) PROVE TypeInv'
  <2>1. Head(out) \in Buffers /\ Tail(out) \in Seq(Buffers)
    BY <1>7, TakeHead DEF LoadTake, TypeOK
  <2>2. Append(delivered, data[Head(out)]) \in Seq(Frames)
    BY <2>1, AppendOne DEF TypeOK
  <2> QED
    BY <1>7, <2>1, <2>2, ThreadAssumption, BufferAssumption
       DEF LoadTake, TypeOK, HoldingPC, Goto, Hold, Threads, ProducerPC, ConsumerPC
<1>8. ASSUME NEW c \in Consumers,
             BeginLoad(c) \/ LoadWait(c) \/ SpuriousWake(c)
               \/ LoadNull(c) \/ ConsumerExit(c)
      PROVE  TypeInv'
  <2>1. /\ UNCHANGED <<in, out, start, held, data, count, stored, delivered>>
        /\ \E l \in ConsumerPC \ {"use"} : Goto(c, l)
        /\ pc[c] # "use"
    BY <1>8 DEF BeginLoad, LoadWait, SpuriousWake, LoadNull,
                ConsumerExit, ConsumerPC, Waiting, AfterWait
  <2> QED
    BY <2>1, ThreadAssumption
       DEF TypeOK, HoldingPC, Goto, Threads, ProducerPC, ConsumerPC
<1>9. ASSUME NEW c \in Consumers, Put(c) PROVE TypeInv'
  <2>1. held[c] \in Buffers
    BY <1>9 DEF Put, TypeOK, HoldingPC, Threads
  <2>2. <<held[c]>> \o in \in Seq(Buffers)
    BY <2>1, PushOne DEF TypeOK
  <2> QED
    BY <1>9, <2>1, <2>2, ThreadAssumption
       DEF Put, TypeOK, HoldingPC, Goto, Hold, Threads, ProducerPC, ConsumerPC
<1>10. CASE dpipe_stop
  BY <1>10 DEF dpipe_stop, TypeOK, HoldingPC
<1>11. CASE UNCHANGED vars
  BY <1>11 DEF vars, TypeOK, HoldingPC
<1> QED
  BY <1>1, <1>2, <1>3, <1>4, <1>5, <1>6, <1>7, <1>8, <1>9, <1>10, <1>11
     DEF Next, ProducerStep, ConsumerStep

(* Every reachable state of the pipe is well typed. *)
THEOREM TypeCorrect == Spec => []TypeOK
<1>1. Spec => []TypeInv
  BY TypeInit, TypeStep, PTL DEF Spec
<1> QED
  BY <1>1, PTL DEF TypeInv

(* Threads hold a buffer exactly between the call that hands it out and the *)
(* call that takes it back.                                                 *)
THEOREM HoldingCorrect == Spec => []HoldingPC
<1>1. Spec => []TypeInv
  BY TypeInit, TypeStep, PTL DEF Spec
<1> QED
  BY <1>1, PTL DEF TypeInv

-----------------------------------------------------------------------------
(* Conservation of the buffers. *)

IInv == TypeInv /\ Conservation

(* All buffers are free after dpipe_create. *)
LEMMA ConservationInit == Init => Conservation
<1> SUFFICES ASSUME Init PROVE Conservation
  OBVIOUS
<1>1. Distinct(in) /\ RangeOf(in) = Buffers
  BY InitialPool DEF Init
<1>2. Distinct(out) /\ RangeOf(out) = {}
  BY DEF Init, Distinct, RangeOf
<1>3. HeldBuffers = {} /\ \A t \in Threads : held[t] = NoBuffer
  BY DEF Init, HeldBuffers
<1> QED
  BY <1>1, <1>2, <1>3 DEF Conservation

(* Every step moves a buffer between two places or none. *)
LEMMA ConservationStep == IInv /\ [Next]_vars => Conservation'
<1> SUFFICES ASSUME TypeOK, HoldingPC, Conservation, [Next]_vars PROVE Conservation'
  BY DEF IInv, TypeInv
<1>1. ASSUME NEW p \in Producers, GetFree(p) PROVE Conservation'
  <2>1. p \in Threads /\ held[p] = NoBuffer
    BY <1>1 DEF GetFree, HoldingPC, Threads
  <2>2. /\ Head(in) \in Buffers /\ Head(in) \in RangeOf(in)
        /\ Distinct(Tail(in)) /\ RangeOf(Tail(in)) = RangeOf(in) \ {Head(in)}
    BY <1>1, TakeHead DEF GetFree, TypeOK, Conservation
  <2>3. Head(in) \notin HeldBuffers
    BY <2>2 DEF Conservation
  <2>4. /\ HeldBuffers' = HeldBuffers \cup {Head(in)}
        /\ \A u, v \in Threads : held'[u] = held'[v] /\ held'[u] # NoBuffer => u = v
    BY <1>1, <2>1, <2>2, <2>3, HoldOne DEF GetFree, Conservation
  <2>5. in' = Tail(in) /\ out' = out
    BY <1>1 DEF GetFree
  <2> QED
    BY <2>2, <2>3, <2>4, <2>5 DEF Conservation
<1>2. ASSUME NEW t \in Threads, held[t] = NoBuffer, out # << >>,
             Hold(t, Head(out)), out' = Tail(out), in' = in
      PROVE  Conservation'
  <2>1. /\ Head(out) \in Buffers /\ Head(out) \in RangeOf(out)
        /\ Distinct(Tail(out)) /\ RangeOf(Tail(out)) = RangeOf(out) \ {Head(out)}
    BY <1>2, TakeHead DEF TypeOK, Conservation
  <2>2. Head(out) \notin HeldBuffers
    BY <2>1 DEF Conservation
  <2>3. /\ HeldBuffers' = HeldBuffers \cup {Head(out)}
        /\ \A u, v \in Threads : held'[u] = held'[v] /\ held'[u] # NoBuffer => u = v
    BY <1>2, <2>1, <2>2, HoldOne DEF Conservation
  <2> QED
    BY <1>2, <2>1, <2>2, <2>3 DEF Conservation
<1>3. ASSUME NEW p \in Producers, GetEldest(p) PROVE Conservation'
  BY <1>2, <1>3 DEF GetEldest, HoldingPC, Threads
<1>4. ASSUME NEW c \in Consumers, LoadTake(c) PROVE Conservation'
  BY <1>2, <1>4 DEF LoadTake, HoldingPC, Threads
<1>5. ASSUME NEW p \in Producers, Store(p) PROVE Conservation'
  <2>1. p \in Threads /\ held[p] # NoBuffer
    BY <1>5 DEF Store, HoldingPC, Threads
  <2>2. /\ HeldBuffers' = HeldBuffers \ {held[p]}
        /\ held[p] \in HeldBuffers /\ held[p] \in Buffers
        /\ \A u, v \in Threads : held'[u] = held'[v] /\ held'[u] # NoBuffer => u = v
    BY <1>5, <2>1, DropOne DEF Store, Conservation
  <2>3. held[p] \notin RangeOf(in) \cup RangeOf(out)
    BY <2>2 DEF Conservation
  <2>4. /\ RangeOf(Append(out, held[p])) = RangeOf(out) \cup {held[p]}
        /\ Distinct(Append(out, held[p]))
    BY <2>2, <2>3, AppendOne DEF TypeOK, Conservation
  <2>5. in' = in /\ out' = Append(out, held[p])
    BY <1>5 DEF Store
  <2> QED
    BY <2>2, <2>3, <2>4, <2>5 DEF Conservation
<1>6. ASSUME NEW c \in Consumers, Put(c) PROVE Conservation'
  <2>1. c \in Threads /\ held[c] # NoBuffer
    BY <1>6 DEF Put, HoldingPC, Threads
  <2>2. /\ HeldBuffers' = HeldBuffers \ {held[c]}
        /\ held[c] \in HeldBuffers /\ held[c] \in Buffers
        /\ \A u, v \in Threads : held'[u] = held'[v] /\ held'[u] # NoBuffer => u = v
    BY <1>6, <2>1, DropOne DEF Put, Conservation
  <2>3. held[c] \notin RangeOf(in) \cup RangeOf(out)
    BY <2>2 DEF Conservation
  <2>4. /\ RangeOf(<<held[c]>> \o in) = RangeOf(in) \cup {held[c]}
        /\ Distinct(<<held[c]>> \o in)
    BY <2>2, <2>3, PushOne DEF TypeOK, Conservation
  <2>5. in' = <<held[c]>> \o in /\ out' = out
    BY <1>6 DEF Put
  <2> QED
    BY <2>2, <2>3, <2>4, <2>5 DEF Conservation
<1>7. ASSUME UNCHANGED <<in, out, held>> PROVE Conservation'
  BY <1>7 DEF Conservation, HeldBuffers
<1> QED
  BY <1>1, <1>3, <1>4, <1>5, <1>6, <1>7
     DEF Next, ProducerStep, ConsumerStep, BeginGet, GetSleep, GetAgain, GetNull,
         Fill, StoreSignal, ProducerExit, BeginLoad, LoadWait, SpuriousWake,
         LoadNull, ConsumerExit, dpipe_stop, vars

(* The inductive invariant holds at all times. *)
LEMMA Inductive == Spec => []IInv
<1>1. Init => IInv
  BY TypeInit, ConservationInit DEF IInv
<1>2. IInv /\ [Next]_vars => IInv'
  BY TypeStep, ConservationStep DEF IInv
<1> QED
  BY <1>1, <1>2, PTL DEF Spec

(* No interleaving of the pipe's operations loses or duplicates a buffer,   *)
(* hands one to two threads or leaves one with a thread that has returned.  *)
THEOREM BuffersConserved == Spec => []BuffersAccounted
<1>1. IInv => BuffersAccounted
  BY DEF IInv, TypeInv, BuffersAccounted
<1> QED
  BY Inductive, <1>1, PTL

-----------------------------------------------------------------------------
(* The pipe implements FramePools. *)

(* The initial pools are those of the abstract specification. *)
LEMMA PoolsInit == Init => Pools!Init
<1> SUFFICES ASSUME Init PROVE Pools!Init
  OBVIOUS
<1>1. in \in Seq(Buffers) /\ Distinct(in) /\ RangeOf(in) = Buffers
  BY InitialPool DEF Init
<1>2. HeldBuffers = {}
  BY DEF Init, HeldBuffers
<1> QED
  BY <1>1, <1>2 DEF Init, Pools!Init, Distinct, RangeOf

(* Every step is an abstract Get, Put, Store or Load, or changes no pool. *)
LEMMA PoolsStep == IInv /\ [Next]_vars => [Pools!Next]_(Pools!poolVars)
<1> SUFFICES ASSUME TypeOK, HoldingPC, Conservation, [Next]_vars
             PROVE  [Pools!Next]_(Pools!poolVars)
  BY DEF IInv, TypeInv
<1>1. ASSUME NEW p \in Producers, GetFree(p) PROVE Pools!TakeFree
  <2>1. Head(in) \in Buffers /\ p \in Threads /\ held[p] = NoBuffer
    BY <1>1, TakeHead DEF GetFree, TypeOK, HoldingPC, Threads
  <2>2. HeldBuffers' = HeldBuffers \cup {Head(in)}
    BY <1>1, <2>1, HoldOne DEF GetFree
  <2> QED
    BY <1>1, <2>2 DEF GetFree, Pools!TakeFree
<1>2. ASSUME NEW t \in Threads, held[t] = NoBuffer, out # << >>,
             Hold(t, Head(out)), out' = Tail(out), in' = in
      PROVE  Pools!TakeEldest
  <2>1. Head(out) \in Buffers
    BY <1>2, TakeHead DEF TypeOK
  <2>2. HeldBuffers' = HeldBuffers \cup {Head(out)}
    BY <1>2, <2>1, HoldOne
  <2> QED
    BY <1>2, <2>2 DEF Pools!TakeEldest
<1>3. ASSUME NEW p \in Producers, GetEldest(p) PROVE Pools!TakeEldest
  BY <1>2, <1>3 DEF GetEldest, HoldingPC, Threads
<1>4. ASSUME NEW c \in Consumers, LoadTake(c) PROVE Pools!TakeEldest
  BY <1>2, <1>4 DEF LoadTake, HoldingPC, Threads
<1>5. ASSUME NEW p \in Producers, Store(p)
      PROVE  \E b \in Buffers : Pools!Enqueue(b)
  <2>1. p \in Threads /\ held[p] # NoBuffer
    BY <1>5 DEF Store, HoldingPC, Threads
  <2>2. /\ HeldBuffers' = HeldBuffers \ {held[p]}
        /\ held[p] \in HeldBuffers /\ held[p] \in Buffers
    BY <1>5, <2>1, DropOne DEF Store, Conservation
  <2> QED
    BY <1>5, <2>2 DEF Store, Pools!Enqueue
<1>6. ASSUME NEW c \in Consumers, Put(c)
      PROVE  \E b \in Buffers : Pools!GiveBack(b)
  <2>1. c \in Threads /\ held[c] # NoBuffer
    BY <1>6 DEF Put, HoldingPC, Threads
  <2>2. /\ HeldBuffers' = HeldBuffers \ {held[c]}
        /\ held[c] \in HeldBuffers /\ held[c] \in Buffers
    BY <1>6, <2>1, DropOne DEF Put, Conservation
  <2> QED
    BY <1>6, <2>2 DEF Put, Pools!GiveBack
<1>7. ASSUME UNCHANGED <<in, out, held>> PROVE UNCHANGED (Pools!poolVars)
  BY <1>7 DEF Pools!poolVars, HeldBuffers
<1> QED
  BY <1>1, <1>3, <1>4, <1>5, <1>6, <1>7
     DEF Next, ProducerStep, ConsumerStep, BeginGet, GetSleep, GetAgain, GetNull,
         Fill, StoreSignal, ProducerExit, BeginLoad, LoadWait, SpuriousWake,
         LoadNull, ConsumerExit, dpipe_stop, vars, Pools!Next

(* Whatever the interleaving of its threads, the pipe is the stack of free  *)
(* buffers and the FIFO of stored ones of FramePools.                       *)
THEOREM Refinement == Spec => ImplementsFramePools
<1>1. Spec => Pools!Spec
  BY Inductive, PoolsInit, PoolsStep, PTL DEF Spec, Pools!Spec
<1> QED
  BY <1>1 DEF ImplementsFramePools

-----------------------------------------------------------------------------
(* No lost wake-up. *)

(* The sets of threads that the wake-up argument counts are finite. *)
LEMMA FiniteThreads ==
  /\ IsFiniteSet(Signallers) /\ Cardinality(Signallers) \in Nat
  /\ IsFiniteSet(Awake) /\ Cardinality(Awake) \in Nat
<1>1. Signallers \in SUBSET Producers /\ Awake \in SUBSET Consumers
  BY DEF Signallers, Awake
<1>2. IsFiniteSet(Signallers) /\ IsFiniteSet(Awake)
  BY <1>1, FS_Subset, ThreadAssumption
<1> QED
  BY <1>2, FS_CardinalityType

(* The same sets are finite after a step. *)
LEMMA FiniteThreadsNext ==
  /\ IsFiniteSet(Signallers') /\ Cardinality(Signallers') \in Nat
  /\ IsFiniteSet(Awake') /\ Cardinality(Awake') \in Nat
<1>1. Signallers' \in SUBSET Producers /\ Awake' \in SUBSET Consumers
  BY DEF Signallers, Awake
<1>2. IsFiniteSet(Signallers') /\ IsFiniteSet(Awake')
  BY <1>1, FS_Subset, ThreadAssumption
<1> QED
  BY <1>2, FS_CardinalityType

(* A step that adds no waiter and no frame, and takes away neither a signal *)
(* nor an awake reader, keeps the bound.                                    *)
LEMMA Monotone ==
  ASSUME NoLostWakeup, Len(out) \in Nat, Len(out') \in Nat,
         Waiting' # {} => Waiting # {},
         Signallers \subseteq Signallers', Awake \subseteq Awake',
         Len(out') <= Len(out)
  PROVE  NoLostWakeup'
<1>1. Cardinality(Signallers) <= Cardinality(Signallers')
  BY FiniteThreadsNext, FS_Subset
<1>2. Cardinality(Awake) <= Cardinality(Awake')
  BY FiniteThreadsNext, FS_Subset
<1> QED
  BY <1>1, <1>2, FiniteThreads, FiniteThreadsNext DEF NoLostWakeup

(* A store raises the pending signals with the queue, a load consumes both. *)
LEMMA WakeupStep == TypeInv /\ NoLostWakeup /\ [Next]_vars => NoLostWakeup'
<1> SUFFICES ASSUME TypeOK, NoLostWakeup, [Next]_vars, TypeOK' PROVE NoLostWakeup'
  BY TypeStep DEF TypeInv
<1>0. Len(out) \in Nat /\ Len(out') \in Nat
  BY LenProperties DEF TypeOK
<1>1. ASSUME NEW p \in Producers, pc[p] # "signal", NEW l \in ProducerPC, Goto(p, l),
             out' = out \/ (out # << >> /\ out' = Tail(out))
      PROVE  NoLostWakeup'
  <2>1. Waiting' = Waiting /\ Awake' = Awake /\ Signallers \subseteq Signallers'
    BY <1>1, ThreadAssumption DEF Goto, Waiting, Awake, Signallers, TypeOK, Threads
  <2>2. Len(out') <= Len(out)
    BY <1>0, <1>1, TakeHead DEF TypeOK
  <2> QED
    BY <1>0, <2>1, <2>2, Monotone
<1>2. ASSUME NEW p \in Producers, Store(p) PROVE NoLostWakeup'
  <2>1. /\ Waiting' = Waiting /\ Awake' = Awake
        /\ Signallers' = Signallers \cup {p} /\ p \notin Signallers
    BY <1>2, ThreadAssumption DEF Store, Goto, Waiting, Awake, Signallers, TypeOK, Threads
  <2>2. Cardinality(Signallers') = Cardinality(Signallers) + 1
    BY <2>1, FiniteThreads, FS_AddElement
  <2>3. held[p] \in Buffers \cup {NoBuffer}
    BY DEF TypeOK, Threads
  <2>4. Len(out') = Len(out) + 1
    BY <1>2, <2>3 DEF Store, TypeOK
  <2> QED
    BY <1>0, <2>1, <2>2, <2>4, FiniteThreads DEF NoLostWakeup
<1>3. ASSUME NEW p \in Producers, StoreSignal(p) PROVE NoLostWakeup'
  <2>1. CASE \E c \in Waiting : pc' = [pc EXCEPT ![p] = "idle", ![c] = AfterWait(c)]
    <3>1. PICK c \in Waiting : pc' = [pc EXCEPT ![p] = "idle", ![c] = AfterWait(c)]
      BY <2>1
    <3>2. /\ c \in Consumers /\ c # p /\ AfterWait(c) \in {"load", "again"}
          /\ pc[c] \in {"wait", "timedwait"}
      BY ThreadAssumption DEF Waiting, AfterWait
    <3>3. /\ Awake' = Awake \cup {c} /\ c \notin Awake
          /\ Signallers' = Signallers \ {p} /\ p \in Signallers
      BY <1>3, <3>1, <3>2, ThreadAssumption
         DEF StoreSignal, Awake, Signallers, TypeOK, Threads
    <3>4. /\ Cardinality(Awake') = Cardinality(Awake) + 1
          /\ Cardinality(Signallers') = Cardinality(Signallers) - 1
      BY <3>3, FiniteThreads, FS_AddElement, FS_RemoveElement
    <3>5. out' = out /\ Waiting # {}
      BY <1>3, <2>1 DEF StoreSignal
    <3> QED
      BY <1>0, <3>4, <3>5, FiniteThreads DEF NoLostWakeup
  <2>2. CASE Waiting = {} /\ Goto(p, "idle")
    <3>1. Waiting' = {}
      BY <2>2, ThreadAssumption DEF Goto, Waiting, TypeOK, Threads
    <3> QED
      BY <3>1 DEF NoLostWakeup
  <2> QED
    BY <1>3, <2>1, <2>2 DEF StoreSignal
<1>4. ASSUME NEW c \in Consumers, out' = << >> PROVE NoLostWakeup'
  BY <1>4, FiniteThreadsNext DEF NoLostWakeup
<1>5. ASSUME NEW c \in Consumers, LoadTake(c) PROVE NoLostWakeup'
  <2>1. Len(out') = Len(out) - 1
    BY <1>5, TakeHead DEF LoadTake, TypeOK
  <2>2. Waiting' = Waiting /\ Signallers' = Signallers /\ Awake' = Awake \ {c}
    BY <1>5, ThreadAssumption
       DEF LoadTake, Goto, Waiting, Awake, Signallers, TypeOK, Threads
  <2>3. Cardinality(Awake') >= Cardinality(Awake) - 1
    <3>1. Cardinality(Awake \ {c}) =
            IF c \in Awake THEN Cardinality(Awake) - 1 ELSE Cardinality(Awake)
      BY FiniteThreads, FS_RemoveElement
    <3> QED
      BY <2>2, <3>1, FiniteThreads
  <2> QED
    BY <1>0, <2>1, <2>2, <2>3, FiniteThreads, FiniteThreadsNext DEF NoLostWakeup
<1>6. ASSUME NEW c \in Consumers, out' = out, NEW l \in ConsumerPC, Goto(c, l),
             l \notin {"wait", "timedwait"}, c \notin Awake
      PROVE  NoLostWakeup'
  <2>1. Waiting' \subseteq Waiting /\ Awake \subseteq Awake' /\ Signallers' = Signallers
    BY <1>6, ThreadAssumption DEF Goto, Waiting, Awake, Signallers, TypeOK, Threads
  <2> QED
    BY <1>0, <1>6, <2>1, Monotone
<1>7. ASSUME NEW c \in Consumers,
             BeginLoad(c) \/ SpuriousWake(c)
               \/ Put(c) \/ ConsumerExit(c)
      PROVE  NoLostWakeup'
  <2>1. /\ out' = out
        /\ c \notin Awake
        /\ \E l \in ConsumerPC \ {"wait", "timedwait"} : Goto(c, l)
    BY <1>7 DEF BeginLoad, SpuriousWake, Put, ConsumerExit,
                ConsumerPC, Waiting, AfterWait, Awake
  <2> QED
    BY <1>6, <2>1
<1>8. ASSUME NEW c \in Consumers, LoadWait(c) \/ LoadNull(c) PROVE NoLostWakeup'
  BY <1>4, <1>8 DEF LoadWait, LoadNull
<1>9. ASSUME NEW p \in Producers,
             BeginGet(p) \/ GetFree(p) \/ GetSleep(p) \/ GetAgain(p) \/ GetEldest(p)
               \/ GetNull(p) \/ Fill(p) \/ ProducerExit(p)
      PROVE  NoLostWakeup'
  <2>1. /\ pc[p] # "signal"
        /\ \E l \in ProducerPC : Goto(p, l)
        /\ out' = out \/ (out # << >> /\ out' = Tail(out))
    BY <1>9 DEF BeginGet, GetFree, GetSleep, GetAgain, GetEldest, GetNull, Fill,
                ProducerExit, ProducerPC
  <2> QED
    BY <1>1, <2>1
<1>10. CASE dpipe_stop \/ UNCHANGED vars
  BY <1>10 DEF dpipe_stop, vars, NoLostWakeup, Waiting, Signallers, Awake
<1> QED
  BY <1>2, <1>3, <1>5, <1>7, <1>8, <1>9, <1>10 DEF Next, ProducerStep, ConsumerStep

(* However many threads share a pipe, no reader sleeps in dpipe_load on a   *)
(* frame that nobody is going to wake it for.                               *)
THEOREM WakeupsKept == Spec => []NoLostWakeup
<1>1. Init => NoLostWakeup
  BY FiniteThreads DEF Init, NoLostWakeup
<1>2. Spec => []TypeInv
  BY TypeInit, TypeStep, PTL DEF Spec
<1> QED
  BY <1>1, <1>2, WakeupStep, PTL DEF Spec

-----------------------------------------------------------------------------
(* Lossless FIFO until the stop. *)

(* The frames in the buffers of a pool. *)
Content(d, s) == [i \in 1 .. Len(s) |-> d[s[i]]]

(* The frames of a sequence of buffers are a sequence of frames of the same length. *)
LEMMA ContentType ==
  ASSUME NEW d \in [Buffers -> Frames], NEW s \in Seq(Buffers)
  PROVE  /\ Content(d, s) \in Seq(Frames)
         /\ Len(Content(d, s)) = Len(s)
         /\ \A i \in 1 .. Len(s) : Content(d, s)[i] = d[s[i]]
<1>1. \A i \in 1 .. Len(s) : s[i] \in Buffers
  BY ElementOfSeq
<1>2. Len(s) \in Nat
  BY LenProperties
<1> QED
  BY <1>1, <1>2 DEF Content

(* Loading the first buffer takes the first frame off the content. *)
LEMMA ContentTail ==
  ASSUME NEW d \in [Buffers -> Frames], NEW s \in Seq(Buffers), s # << >>
  PROVE  Content(d, s) = <<d[Head(s)]>> \o Content(d, Tail(s))
<1> DEFINE u == Tail(s)
           l == Content(d, s)
           t == Content(d, u)
           h == <<d[Head(s)]>>
<1>1. /\ Head(s) \in Buffers /\ Head(s) = s[1] /\ Tail(s) \in Seq(Buffers)
      /\ Len(Tail(s)) = Len(s) - 1 /\ Len(s) \in Nat \ {0}
      /\ \A i \in 1 .. Len(Tail(s)) : Tail(s)[i] = s[i+1]
  BY HeadTailProperties, EmptySeq
<1>2. /\ l \in Seq(Frames) /\ Len(l) = Len(s)
      /\ \A i \in 1 .. Len(s) : l[i] = d[s[i]]
  BY ContentType
<1>3. /\ t \in Seq(Frames) /\ Len(t) = Len(s) - 1
      /\ \A i \in 1 .. Len(s) - 1 : t[i] = d[s[i + 1]]
  <2>1. u \in Seq(Buffers) /\ Len(u) = Len(s) - 1
        /\ \A i \in 1 .. Len(s) - 1 : u[i] = s[i + 1]
    BY <1>1
  <2> HIDE DEF u
  <2>2. t \in Seq(Frames) /\ Len(t) = Len(u) /\ \A i \in 1 .. Len(u) : t[i] = d[u[i]]
    BY <2>1, ContentType
  <2> QED
    BY <2>1, <2>2
<1>4. h \in Seq(Frames) /\ Len(h) = 1 /\ h[1] = d[s[1]]
  BY <1>1
<1> HIDE DEF l, t, h
<1>5. /\ h \o t \in Seq(Frames) /\ Len(h \o t) = Len(s)
      /\ \A i \in 1 .. Len(s) : (h \o t)[i] = IF i <= 1 THEN h[i] ELSE t[i - 1]
  <2>1. /\ h \o t \in Seq(Frames) /\ Len(h \o t) = Len(h) + Len(t)
        /\ \A i \in 1 .. Len(h) + Len(t) :
              (h \o t)[i] = IF i <= Len(h) THEN h[i] ELSE t[i - Len(h)]
    BY <1>3, <1>4, ConcatProperties
  <2> QED
    BY <2>1, <1>1, <1>3, <1>4
<1>6. ASSUME NEW i \in 1 .. Len(s) PROVE l[i] = (h \o t)[i]
  <2>1. CASE i = 1
    BY <2>1, <1>1, <1>2, <1>4, <1>5
  <2>2. CASE i # 1
    <3>1. i - 1 \in 1 .. Len(s) - 1 /\ (i - 1) + 1 = i
      BY <2>2, <1>1
    <3>2. t[i - 1] = d[s[i]]
      BY <3>1, <1>3
    <3> QED
      BY <2>2, <3>2, <1>1, <1>2, <1>5
  <2> QED
    BY <2>1, <2>2
<1>7. l \in [1 .. Len(s) -> Frames] /\ h \o t \in [1 .. Len(s) -> Frames]
  BY <1>2, <1>5, LenProperties
<1>8. l = h \o t
  BY <1>6, <1>7
<1> QED
  BY <1>8 DEF l, t, h

(* Storing a buffer appends its frame to the content. *)
LEMMA ContentAppend ==
  ASSUME NEW d \in [Buffers -> Frames], NEW s \in Seq(Buffers), NEW b \in Buffers
  PROVE  Content(d, Append(s, b)) = Append(Content(d, s), d[b])
<1> DEFINE l == Content(d, Append(s, b))
           r == Append(Content(d, s), d[b])
<1>1. /\ Append(s, b) \in Seq(Buffers) /\ Len(s) \in Nat
      /\ Len(Append(s, b)) = Len(s) + 1
      /\ \A i \in 1 .. Len(s) : Append(s, b)[i] = s[i]
      /\ Append(s, b)[Len(s) + 1] = b
  BY AppendProperties, LenProperties
<1>2. /\ l \in Seq(Frames) /\ Len(l) = Len(s) + 1
      /\ \A i \in 1 .. Len(s) + 1 : l[i] = d[Append(s, b)[i]]
  BY <1>1, ContentType
<1>3. /\ Content(d, s) \in Seq(Frames) /\ Len(Content(d, s)) = Len(s)
      /\ \A i \in 1 .. Len(s) : Content(d, s)[i] = d[s[i]]
  BY ContentType
<1>4. /\ r \in Seq(Frames) /\ Len(r) = Len(s) + 1
      /\ \A i \in 1 .. Len(s) : r[i] = d[s[i]]
      /\ r[Len(s) + 1] = d[b]
  BY <1>3, AppendProperties
<1> HIDE DEF l, r
<1>5. ASSUME NEW i \in 1 .. Len(s) + 1 PROVE l[i] = r[i]
  <2>1. CASE i = Len(s) + 1
    BY <2>1, <1>1, <1>2, <1>4
  <2>2. CASE i \in 1 .. Len(s)
    BY <2>2, <1>1, <1>2, <1>4
  <2> QED
    BY <2>1, <2>2, <1>1
<1>6. l \in [1 .. Len(s) + 1 -> Frames] /\ r \in [1 .. Len(s) + 1 -> Frames]
  BY <1>2, <1>4, LenProperties
<1>7. l = r
  BY <1>5, <1>6
<1> QED
  BY <1>7 DEF l, r

(* What was loaded followed by what is stored stays what was put in. *)
LEMMA FifoStep == IInv /\ LosslessFifo /\ [Next]_vars => LosslessFifo'
<1> SUFFICES ASSUME TypeOK, HoldingPC, Conservation, LosslessFifo, [Next]_vars, start'
             PROVE  (delivered \o Content(data, out) = stored)'
  BY DEF IInv, TypeInv, LosslessFifo, Content
<1>0. start /\ (start => delivered \o Content(data, out) = stored)
  <2>1. start
    BY DEF Next, ProducerStep, ConsumerStep, BeginGet, GetFree, GetSleep, GetAgain,
           GetEldest, GetNull, Fill, Store, StoreSignal, ProducerExit, BeginLoad,
           LoadTake, LoadWait, SpuriousWake, LoadNull, Put,
           ConsumerExit, dpipe_stop, vars
  <2> QED
    BY <2>1 DEF LosslessFifo, Content
<1>1. ASSUME NEW p \in Producers, Store(p)
      PROVE  (delivered \o Content(data, out) = stored)'
  <2>1. held[p] \in Buffers
    BY <1>1 DEF Store, TypeOK, HoldingPC, Threads
  <2>2. delivered \in Seq(Frames) /\ stored \in Seq(Frames)
    BY DEF TypeOK
  <2>3. /\ out' = Append(out, held[p]) /\ stored' = Append(stored, data[held[p]])
        /\ data' = data /\ delivered' = delivered
    BY <1>1 DEF Store
  <2>4. data \in [Buffers -> Frames] /\ out \in Seq(Buffers) /\ data[held[p]] \in Frames
    BY <2>1 DEF TypeOK
  <2> DEFINE o == Content(data, out)
             f == data[held[p]]
  <2>5. o \in Seq(Frames) /\ f \in Frames /\ <<f>> \in Seq(Frames)
    BY <2>4, ContentType
  <2>6. Content(data, out)' = Append(o, f)
    BY <2>1, <2>3, <2>4, ContentAppend
  <2> HIDE DEF o, f
  <2>7. delivered \o Append(o, f) = Append(delivered \o o, f)
    <3>1. delivered \o o \in Seq(Frames)
      BY <2>2, <2>5, ConcatProperties
    <3>2. Append(o, f) = o \o <<f>> /\ Append(delivered \o o, f) = (delivered \o o) \o <<f>>
      BY <2>5, <3>1, AppendIsConcat
    <3> QED
      BY <3>2, <2>2, <2>5, ConcatAssociative
  <2> QED
    BY <1>0, <2>3, <2>6, <2>7 DEF o, f
<1>2. ASSUME NEW c \in Consumers, LoadTake(c)
      PROVE  (delivered \o Content(data, out) = stored)'
  <2>1. delivered \in Seq(Frames) /\ stored \in Seq(Frames)
    BY DEF TypeOK
  <2>2. /\ out # << >> /\ out' = Tail(out) /\ stored' = stored
        /\ data' = data /\ delivered' = Append(delivered, data[Head(out)])
    BY <1>2 DEF LoadTake
  <2>3. /\ data \in [Buffers -> Frames] /\ out \in Seq(Buffers)
        /\ data[Head(out)] \in Frames /\ Tail(out) \in Seq(Buffers)
    BY <2>2, TakeHead DEF TypeOK
  <2> DEFINE u == Tail(out)
             r == Content(data, u)
             f == data[Head(out)]
  <2>4. r \in Seq(Frames) /\ f \in Frames /\ <<f>> \in Seq(Frames)
    <3>1. u \in Seq(Buffers) /\ f \in Frames
      BY <2>3
    <3> HIDE DEF u, f
    <3> QED
      BY <2>3, <3>1, ContentType
  <2>5. Content(data, out) = <<f>> \o r /\ Content(data, out)' = r
    BY <2>2, <2>3, ContentTail
  <2> HIDE DEF r, f
  <2>6. Append(delivered, f) \o r = delivered \o (<<f>> \o r)
    BY <2>1, <2>4, AppendIsConcat, ConcatAssociative
  <2> QED
    BY <1>0, <2>2, <2>5, <2>6 DEF f
<1>3. ASSUME NEW p \in Producers, Fill(p)
      PROVE  (delivered \o Content(data, out) = stored)'
  <2>1. held[p] \in HeldBuffers
    BY <1>3 DEF Fill, HoldingPC, HeldBuffers, Threads
  <2>2. \A i \in 1 .. Len(out) : out[i] # held[p] /\ out[i] \in Buffers
    BY <2>1, ElementOfSeq DEF Conservation, RangeOf, TypeOK
  <2>3. \A i \in 1 .. Len(out) : data'[out[i]] = data[out[i]]
    BY <1>3, <2>2 DEF Fill, TypeOK
  <2>4. UNCHANGED <<out, stored, delivered>>
    BY <1>3 DEF Fill
  <2> QED
    BY <1>0, <2>3, <2>4 DEF Content
<1>4. ASSUME UNCHANGED <<out, data, stored, delivered>>
      PROVE  (delivered \o Content(data, out) = stored)'
  BY <1>0, <1>4 DEF Content
<1>5. \A p \in Producers : ~ GetEldest(p)
  BY <1>0 DEF GetEldest
<1> QED
  BY <1>1, <1>2, <1>3, <1>4, <1>5
     DEF Next, ProducerStep, ConsumerStep, BeginGet, GetFree, GetSleep, GetAgain,
         GetNull, StoreSignal, ProducerExit, BeginLoad, LoadWait, SpuriousWake,
         LoadNull, Put, ConsumerExit, dpipe_stop, vars

(* Until dpipe_stop, what readers get, in order, is what was stored, in     *)
(* order, and nothing is lost, duplicated or overwritten on the way.        *)
THEOREM FifoCorrect == Spec => []LosslessFifo
<1>1. Init => LosslessFifo
  <2>1. [i \in 1 .. Len(<< >>) |-> data[<< >>[i]]] = << >>
    OBVIOUS
  <2> QED
    BY <2>1 DEF Init, LosslessFifo
<1> QED
  BY <1>1, Inductive, FifoStep, PTL DEF Spec

-----------------------------------------------------------------------------
(* No frame is delivered twice or out of order, after the stop either. *)

(* Frames f and g, in this order, are not the wrong way round. *)
Before(f, g) == f[1] = g[1] => f[2] < g[2]

(* A frame that its producer has stored: it is not the one being stored. *)
Past(f) == /\ f[2] <= count[f[1]]
           /\ pc[f[1]] = "store" => f[2] < count[f[1]]

(* The frames on their way from the decoders to the readers. *)
InOrder ==
  /\ \A i, j \in 1 .. Len(delivered) : i < j => Before(delivered[i], delivered[j])
  /\ \A i, j \in 1 .. Len(out) : i < j => Before(data[out[i]], data[out[j]])
  /\ \A i \in 1 .. Len(delivered), j \in 1 .. Len(out) : Before(delivered[i], data[out[j]])

AllPast ==
  /\ \A i \in 1 .. Len(delivered) : Past(delivered[i])
  /\ \A j \in 1 .. Len(out) : Past(data[out[j]])

FilledNow == \A p \in Producers : pc[p] = "store" => data[held[p]] = <<p, count[p]>>

Order == InOrder /\ AllPast /\ FilledNow

(* Steps that move no frame and store none. *)
LEMMA OrderFrame ==
  ASSUME TypeOK, Order, UNCHANGED <<delivered, data, count>>,
         out' = out \/ (out # << >> /\ out' = Tail(out)),
         \A p \in Producers : pc'[p] = "store" <=> pc[p] = "store",
         \A p \in Producers : pc[p] = "store" => held'[p] = held[p]
  PROVE  Order'
<1>1. delivered \in Seq(Frames) /\ out \in Seq(Buffers) /\ data \in [Buffers -> Frames]
  BY DEF TypeOK
<1>2. \A f \in Frames : Past(f)' <=> Past(f)
  <2>1. \A f \in Frames : f[1] \in Producers
    BY DEF Frames
  <2> QED
    BY <2>1 DEF Past
<1>3. \A i \in 1 .. Len(delivered) : delivered[i] \in Frames
  BY <1>1, ElementOfSeq
<1>4. \A i \in 1 .. Len(out) : out[i] \in Buffers /\ data[out[i]] \in Frames
  BY <1>1, ElementOfSeq
<1>5. FilledNow'
  BY DEF Order, FilledNow
<1>6. CASE out' = out
  <2>1. InOrder'
    BY <1>6 DEF Order, InOrder
  <2>2. AllPast'
    BY <1>2, <1>3, <1>4, <1>6 DEF Order, AllPast
  <2> QED
    BY <1>5, <2>1, <2>2 DEF Order
<1>7. CASE out # << >> /\ out' = Tail(out)
  <2>1. Len(out) \in Nat \ {0} /\ Len(out') = Len(out) - 1
        /\ \A i \in 1 .. Len(out') : out'[i] = out[i + 1]
    BY <1>1, <1>7, HeadTailProperties, EmptySeq
  <2>2. \A i \in 1 .. Len(out') : i + 1 \in 1 .. Len(out)
    BY <2>1
  <2>3. \A i, j \in 1 .. Len(out') : i < j => i + 1 < j + 1
    BY <2>1
  <2>4. InOrder'
    BY <2>1, <2>2, <2>3 DEF Order, InOrder
  <2>5. AllPast'
    BY <1>2, <1>3, <1>4, <2>1, <2>2 DEF Order, AllPast
  <2> QED
    BY <1>5, <2>4, <2>5 DEF Order
<1> QED
  BY <1>6, <1>7

(* A load appends to a reader's history a position behind all it has. *)
LEMMA OrderStep == IInv /\ Order /\ [Next]_vars => Order'
<1> SUFFICES ASSUME TypeOK, HoldingPC, Conservation, Order, [Next]_vars PROVE Order'
  BY DEF IInv, TypeInv
<1>a. /\ delivered \in Seq(Frames) /\ out \in Seq(Buffers) /\ data \in [Buffers -> Frames]
      /\ count \in [Producers -> 0 .. MaxFrames] /\ Len(out) \in Nat /\ Len(delivered) \in Nat
      /\ pc \in [Threads -> ProducerPC \cup ConsumerPC] /\ Producers \subseteq Threads
      /\ held \in [Threads -> Buffers \cup {NoBuffer}]
  BY LenProperties DEF TypeOK, Threads
<1>b. \A i \in 1 .. Len(delivered) : delivered[i] \in Frames
  BY <1>a, ElementOfSeq
<1>c. \A i \in 1 .. Len(out) : out[i] \in Buffers /\ data[out[i]] \in Frames
  BY <1>a, ElementOfSeq
<1>d. \A f \in Frames : f[1] \in Producers /\ f[2] \in Nat
  BY DEF Frames
<1>e. \A p \in Producers : count[p] \in Nat
  BY <1>a, BoundAssumption
<1>1. ASSUME NEW p \in Producers, Fill(p) PROVE Order'
  <2>1. /\ UNCHANGED <<delivered, out, held>> /\ pc[p] = "fill"
        /\ data' = [data EXCEPT ![held[p]] = <<p, count[p] + 1>>]
        /\ count' = [count EXCEPT ![p] = count[p] + 1]
        /\ pc' = [pc EXCEPT ![p] = "store"]
    BY <1>1 DEF Fill, Goto
  <2>2. held[p] \in Buffers /\ held[p] \in HeldBuffers
    BY <2>1, <1>a DEF HoldingPC, HeldBuffers
  <2>3. \A i \in 1 .. Len(out) : data'[out[i]] = data[out[i]]
    <3>1. \A i \in 1 .. Len(out) : out[i] # held[p]
      BY <2>2 DEF Conservation, RangeOf
    <3> QED
      BY <2>1, <3>1, <1>a, <1>c
  <2>4. \A f \in Frames : Past(f) => Past(f)'
    <3> SUFFICES ASSUME NEW f \in Frames, Past(f) PROVE Past(f)'
      OBVIOUS
    <3>1. CASE f[1] = p
      <4>1. count'[f[1]] = count[f[1]] + 1 /\ count[f[1]] \in Nat /\ f[2] \in Nat
        BY <2>1, <3>1, <1>a, <1>d, <1>e
      <4>2. f[2] <= count[f[1]]
        BY DEF Past
      <4> QED
        BY <4>1, <4>2 DEF Past
    <3>2. CASE f[1] # p
      BY <2>1, <3>2, <1>a, <1>d DEF Past
    <3> QED
      BY <3>1, <3>2
  <2>5. FilledNow'
    <3> SUFFICES ASSUME NEW q \in Producers, pc'[q] = "store"
                 PROVE  data'[held'[q]] = <<q, count'[q]>>
      BY DEF FilledNow
    <3>1. CASE q = p
      BY <2>1, <2>2, <3>1, <1>a
    <3>2. CASE q # p
      <4>1. pc[q] = "store" /\ data[held[q]] = <<q, count[q]>> /\ count'[q] = count[q]
        BY <2>1, <3>2, <1>a DEF Order, FilledNow
      <4>2. held[q] \in Buffers /\ held[q] # held[p]
        BY <2>2, <3>2, <4>1, <1>a DEF HoldingPC, Conservation
      <4> QED
        BY <2>1, <4>1, <4>2, <1>a
    <3> QED
      BY <3>1, <3>2
  <2>6. InOrder'
    BY <2>1, <2>3 DEF Order, InOrder
  <2>7. AllPast'
    BY <2>1, <2>3, <2>4, <1>b, <1>c DEF Order, AllPast
  <2> QED
    BY <2>5, <2>6, <2>7 DEF Order
<1>2. ASSUME NEW p \in Producers, Store(p) PROVE Order'
  <2>1. /\ UNCHANGED <<delivered, data, count>> /\ pc[p] = "store"
        /\ out' = Append(out, held[p])
        /\ held' = [held EXCEPT ![p] = NoBuffer] /\ pc' = [pc EXCEPT ![p] = "signal"]
    BY <1>2 DEF Store, Goto, Hold
  <2>k. held[p] \in Buffers
    BY <2>1, <1>a DEF HoldingPC
  <2>f. data[held[p]] = <<p, count[p]>>
    BY <2>1 DEF Order, FilledNow
  <2>g. PICK g \in {<<p, count[p]>>} : TRUE
    OBVIOUS
  <2>h. g = data[held[p]] /\ g[1] = p /\ g[2] = count[p]
    BY <2>f, <2>g
  <2>2. held[p] \in Buffers /\ g = data[held[p]] /\ g \in Frames /\ g[1] = p
        /\ g[2] = count[p]
    <3>1. count[p] \in Nat
      BY <1>a
    <3>2. g \in Producers \X Nat
      BY <3>1, <2>g
    <3> QED
      BY <2>k, <2>h, <3>2 DEF Frames
  <2>3. \A f \in Frames : Past(f) => Before(f, g)
    BY <2>1, <2>2 DEF Past, Before
  <2>4. \A f \in Frames : Past(f) => Past(f)'
    BY <2>1, <1>a, <1>d DEF Past
  <2>5. Past(g)'
    BY <2>1, <2>2, <1>a, <1>e DEF Past
  <2>6. /\ Len(out') = Len(out) + 1 /\ out'[Len(out) + 1] = held[p]
        /\ \A i \in 1 .. Len(out) : out'[i] = out[i]
    BY <2>1, <2>2, <1>a, AppendProperties
  <2>7. /\ data'[out'[Len(out) + 1]] = g
        /\ \A i \in 1 .. Len(out) : data'[out'[i]] = data[out[i]]
    BY <2>1, <2>2, <2>6
  <2>8. \A i \in 1 .. Len(out') : i \in 1 .. Len(out) \/ i = Len(out) + 1
    BY <2>6, <1>a
  <2>9. InOrder'
    <3>1. ASSUME NEW i \in 1 .. Len(out'), NEW j \in 1 .. Len(out'), i < j
          PROVE  Before(data'[out'[i]], data'[out'[j]])
      <4>1. i \in 1 .. Len(out)
        BY <3>1, <2>6, <1>a
      <4>2. CASE j \in 1 .. Len(out)
        BY <3>1, <4>1, <4>2, <2>7 DEF Order, InOrder
      <4>3. CASE j = Len(out) + 1
        BY <4>1, <4>3, <2>3, <2>7, <1>c DEF Order, AllPast
      <4> QED
        BY <4>2, <4>3, <2>8
    <3>2. ASSUME NEW i \in 1 .. Len(delivered), NEW j \in 1 .. Len(out')
          PROVE  Before(delivered[i], data'[out'[j]])
      <4>1. CASE j \in 1 .. Len(out)
        BY <4>1, <2>7 DEF Order, InOrder
      <4>2. CASE j = Len(out) + 1
        BY <4>2, <2>3, <2>7, <1>b DEF Order, AllPast
      <4> QED
        BY <4>1, <4>2, <2>8
    <3>3. \A i, j \in 1 .. Len(delivered) : i < j => Before(delivered[i], delivered[j])
      BY DEF Order, InOrder
    <3> QED
      BY <3>1, <3>2, <3>3, <2>1 DEF InOrder
  <2>10. AllPast'
    <3>1. \A i \in 1 .. Len(delivered) : Past(delivered[i])'
      BY <2>4, <1>b, <2>1 DEF Order, AllPast
    <3>2. ASSUME NEW j \in 1 .. Len(out') PROVE Past(data[out[j]])'
      <4>1. CASE j \in 1 .. Len(out)
        <5>1. Past(data[out[j]]) /\ data[out[j]] \in Frames
          BY <4>1, <1>c DEF Order, AllPast
        <5>2. data'[out'[j]] = data[out[j]]
          BY <4>1, <2>7
        <5> QED
          BY <5>1, <5>2, <2>4 DEF Past
      <4>2. CASE j = Len(out) + 1
        BY <4>2, <2>5, <2>7, <2>1 DEF Past
      <4> QED
        BY <4>1, <4>2, <2>8
    <3> QED
      BY <3>1, <3>2, <2>1 DEF AllPast
  <2>11. FilledNow'
    BY <2>1, <1>a DEF Order, FilledNow
  <2> QED
    BY <2>9, <2>10, <2>11 DEF Order
<1>3. ASSUME NEW c \in Consumers, LoadTake(c) PROVE Order'
  <2>1. /\ UNCHANGED <<data, count>> /\ out # << >> /\ out' = Tail(out)
        /\ delivered' = Append(delivered, data[Head(out)])
        /\ held' = [held EXCEPT ![c] = Head(out)] /\ pc' = [pc EXCEPT ![c] = "use"]
        /\ c \notin Producers
    BY <1>3, ThreadAssumption DEF LoadTake, Goto, Hold
  <2>2. /\ Len(out) \in Nat \ {0} /\ Len(out') = Len(out) - 1 /\ Head(out) = out[1]
        /\ \A i \in 1 .. Len(out') : out'[i] = out[i + 1]
    BY <2>1, <1>a, HeadTailProperties, EmptySeq
  <2>3. /\ 1 \in 1 .. Len(out) /\ \A i \in 1 .. Len(out') : i + 1 \in 1 .. Len(out) /\ 1 < i + 1
        /\ \A i, j \in 1 .. Len(out') : i < j => i + 1 < j + 1
    BY <2>2
  <2> DEFINE g == data[out[1]]
             n == Len(delivered)
  <2>4. /\ Len(delivered') = n + 1 /\ delivered'[n + 1] = g
        /\ \A i \in 1 .. n : delivered'[i] = delivered[i]
    <3>1. data[Head(out)] \in Frames /\ Head(out) = out[1]
      BY <2>2, <2>3, <1>c
    <3> QED
      BY <3>1, <2>1, <1>a, AppendProperties
  <2>5. \A i \in 1 .. Len(delivered') : i \in 1 .. n \/ i = n + 1
    BY <2>4, <1>a
  <2>6. g \in Frames
    BY <2>3, <1>c
  <2>a. n \in Nat
    BY <1>a
  <2>7. \A i \in 1 .. n : Before(delivered[i], g)
    BY <2>3 DEF Order, InOrder
  <2>8. \A j \in 1 .. Len(out') : Before(g, data[out'[j]])
    BY <2>2, <2>3 DEF Order, InOrder
  <2>b. Past(g)
    BY <2>3 DEF Order, AllPast
  <2> HIDE DEF g
  <2>9. InOrder'
    <3>1. ASSUME NEW i \in 1 .. Len(delivered'), NEW j \in 1 .. Len(delivered'), i < j
          PROVE  Before(delivered'[i], delivered'[j])
      <4>1. i \in 1 .. n
        BY <3>1, <2>4, <2>a
      <4>2. CASE j \in 1 .. n
        BY <3>1, <4>1, <4>2, <2>4 DEF Order, InOrder
      <4>3. CASE j = n + 1
        BY <4>1, <4>3, <2>4, <2>7
      <4> QED
        BY <4>2, <4>3, <2>5
    <3>2. ASSUME NEW i \in 1 .. Len(delivered'), NEW j \in 1 .. Len(out')
          PROVE  Before(delivered'[i], data[out'[j]])
      <4>1. CASE i \in 1 .. n
        BY <4>1, <2>2, <2>3, <2>4 DEF Order, InOrder
      <4>2. CASE i = n + 1
        BY <4>2, <2>4, <2>8
      <4> QED
        BY <4>1, <4>2, <2>5
    <3>3. \A i, j \in 1 .. Len(out') : i < j => Before(data[out'[i]], data[out'[j]])
      BY <2>2, <2>3 DEF Order, InOrder
    <3> QED
      BY <3>1, <3>2, <3>3, <2>1 DEF InOrder
  <2>10. \A f \in Frames : Past(f)' <=> Past(f)
    <3>1. \A q \in Producers : pc'[q] = pc[q]
      BY <2>1, <1>a
    <3> QED
      BY <2>1, <3>1, <1>d DEF Past
  <2>11. AllPast'
    <3>1. ASSUME NEW i \in 1 .. Len(delivered') PROVE Past(delivered[i])'
      <4>1. CASE i \in 1 .. n
        <5>1. Past(delivered[i]) /\ delivered[i] \in Frames /\ delivered'[i] = delivered[i]
          BY <4>1, <1>b, <2>4 DEF Order, AllPast
        <5> QED
          BY <5>1, <2>10 DEF Past
      <4>2. CASE i = n + 1
        <5>1. Past(g) /\ g \in Frames /\ delivered'[i] = g
          BY <4>2, <2>b, <2>4, <2>6
        <5> QED
          BY <5>1, <2>10 DEF Past, g
      <4> QED
        BY <4>1, <4>2, <2>5
    <3>2. ASSUME NEW j \in 1 .. Len(out') PROVE Past(data[out[j]])'
      <4>1. Past(data[out[j + 1]]) /\ data[out[j + 1]] \in Frames
            /\ data'[out'[j]] = data[out[j + 1]]
        BY <2>1, <2>2, <2>3, <1>c DEF Order, AllPast
      <4> QED
        BY <4>1, <2>10 DEF Past
    <3> QED
      BY <3>1, <3>2 DEF AllPast
  <2>12. FilledNow'
    <3>1. \A q \in Producers : pc'[q] = pc[q] /\ held'[q] = held[q]
      BY <2>1, <1>a
    <3> QED
      BY <2>1, <3>1 DEF Order, FilledNow
  <2> QED
    BY <2>9, <2>11, <2>12 DEF Order
<1>4. ASSUME NEW p \in Producers,
             BeginGet(p) \/ GetFree(p) \/ GetSleep(p) \/ GetAgain(p) \/ GetEldest(p)
               \/ GetNull(p) \/ ProducerExit(p)
      PROVE  Order'
  <2>1. /\ UNCHANGED <<delivered, data, count>>
        /\ out' = out \/ (out # << >> /\ out' = Tail(out))
        /\ pc[p] # "store" /\ \E l \in ProducerPC \ {"store"} : pc' = [pc EXCEPT ![p] = l]
        /\ held' = held \/ \E b : held' = [held EXCEPT ![p] = b]
    BY <1>4 DEF BeginGet, GetFree, GetSleep, GetAgain, GetEldest, GetNull, ProducerExit,
                Goto, Hold, ProducerPC
  <2>2. /\ \A q \in Producers : pc'[q] = "store" <=> pc[q] = "store"
        /\ \A q \in Producers : pc[q] = "store" => held'[q] = held[q]
    BY <2>1, <1>a
  <2> QED
    BY <2>1, <2>2, OrderFrame
<1>5. ASSUME NEW p \in Producers, StoreSignal(p) PROVE Order'
  <2>1. UNCHANGED <<delivered, data, count, out, held>>
    BY <1>5 DEF StoreSignal
  <2>2. \A q \in Producers : pc'[q] = "store" <=> pc[q] = "store"
    BY <1>5, <1>a, ThreadAssumption DEF StoreSignal, Goto, Waiting
  <2> QED
    BY <2>1, <2>2, OrderFrame
<1>6. ASSUME NEW c \in Consumers,
             BeginLoad(c) \/ LoadWait(c) \/ SpuriousWake(c) \/ LoadNull(c) \/ Put(c)
               \/ ConsumerExit(c)
      PROVE  Order'
  <2>1. /\ UNCHANGED <<delivered, data, count, out>> /\ \E l : pc' = [pc EXCEPT ![c] = l]
        /\ held' = held \/ held' = [held EXCEPT ![c] = NoBuffer]
    BY <1>6 DEF BeginLoad, LoadWait, SpuriousWake, LoadNull, Put, ConsumerExit, Goto, Hold
  <2>2. \A q \in Producers : pc'[q] = pc[q] /\ held'[q] = held[q]
    BY <2>1, <1>a, ThreadAssumption
  <2> QED
    BY <2>1, <2>2, OrderFrame
<1>7. CASE dpipe_stop \/ UNCHANGED vars
  <2>1. UNCHANGED <<delivered, data, count, out, pc, held>>
    BY <1>7 DEF dpipe_stop, vars
  <2> QED
    BY <2>1, OrderFrame
<1> QED
  BY <1>1, <1>2, <1>3, <1>4, <1>5, <1>6, <1>7 DEF Next, ProducerStep, ConsumerStep

(* Whatever dpipe_get drops after dpipe_stop, the readers never get a frame *)
(* of a producer twice or after a later one of the same producer; before    *)
(* dpipe_stop FifoCorrect says more.                                        *)
THEOREM OrderKept == Spec => []FifoKept
<1>1. Init => Order
  <2> SUFFICES ASSUME Init PROVE Order
    OBVIOUS
  <2>1. Len(out) = 0 /\ Len(delivered) = 0
    <3>1. out = << >> /\ delivered = << >>
      BY DEF Init
    <3> QED
      BY <3>1
  <2>2. InOrder /\ AllPast
    BY <2>1 DEF InOrder, AllPast
  <2>3. FilledNow
    BY DEF Init, FilledNow, Threads
  <2> QED
    BY <2>2, <2>3 DEF Order
<1>2. Order => DeliveredInOrder
  BY DEF Order, InOrder, Before, DeliveredInOrder
<1> QED
  BY <1>1, <1>2, OrderStep, Inductive, FifoCorrect, PTL DEF Spec, FifoKept
=============================================================================
