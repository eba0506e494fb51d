---------------------------- MODULE SupportProofs ---------------------------
(***************************************************************************)
(* TLAPS proofs about the code of common/ and extension/ that the threads  *)
(* call.  VaapiAllocator, for any number of sessions, allocations and      *)
(* holders: the reference count of a session's decoder responses is exact, *)
(* and nobody holds surfaces that were destroyed.  Of Algorithms, the bit  *)
(* stream, for any file, window and decoder: it is the file over and over  *)
(* again; and the index arithmetic of the layers that place elements, for  *)
(* tensors of any size.                                                    *)
(***************************************************************************)
EXTENDS VaapiAllocator, Algorithms, QueueFacts

(* The holds of one session, from the keys of allocResponses and its row of *)
(* held.                                                                    *)
HoldSet(A, h) == {x \in (Mids \ A) \X (1 .. MaxHolds) : x[2] <= h[x[1]]}

Rows == [Mids -> 0 .. MaxHolds]

(* What the allocator knows apart from the counts: an unused number is      *)
(* nowhere, a saved response is a decoder's and exists, and a VPP response  *)
(* is held once.                                                            *)
Fresh == \A m \in Mids : size[m] = 0 =>
           /\ m \notin allocResponses
           /\ \A s \in Sessions : held[s][m] = 0 /\ allocDecodeResponses[s].mids # m

SavedExists ==
  \A s \in Sessions :
    /\ allocDecodeResponses[s].NumFrameActual # 0 => allocDecodeResponses[s].mids \in live
    /\ allocDecodeResponses[s].mids \notin allocResponses

VPPOnce ==
  \A m \in allocResponses, s \in Sessions :
    held[s][m] > 0 => held[s][m] = 1 /\ \A t \in Sessions \ {s} : held[t][m] = 0

Counted == \A s \in Sessions :
             allocDecodeResponses[s].refCount = Cardinality(HoldSet(allocResponses, held[s]))

(* The types, but for the bound of refCount, which follows from Counted. *)
Response == [mids : Mids \cup {NULL}, NumFrameActual : 0 .. MaxFrames, refCount : Int]

Typed == /\ allocResponses \subseteq Mids
         /\ allocDecodeResponses \in [Sessions -> Response]
         /\ size \in [Mids -> 0 .. MaxFrames]
         /\ live \subseteq Mids
         /\ held \in [Sessions -> Rows]

IInv == Typed /\ Fresh /\ SavedExists /\ VPPOnce /\ HeldLive /\ Counted

-----------------------------------------------------------------------------
(* The holds of a session are finitely many, at most MaxHolds for each      *)
(* response.                                                                *)
LEMMA HoldsBounded ==
  ASSUME NEW A, NEW h \in Rows
  PROVE  /\ IsFiniteSet(HoldSet(A, h))
         /\ Cardinality(HoldSet(A, h)) \in 0 .. MaxAllocs * MaxHolds
         /\ Cardinality(HoldSet(A, h)) \in Nat
<1>1. /\ IsFiniteSet(Mids) /\ Cardinality(Mids) = MaxAllocs
      /\ IsFiniteSet(1 .. MaxHolds) /\ Cardinality(1 .. MaxHolds) = MaxHolds
  BY FS_Interval, AllocatorAssumption DEF Mids
<1>2. /\ IsFiniteSet(Mids \X (1 .. MaxHolds))
      /\ Cardinality(Mids \X (1 .. MaxHolds)) = MaxAllocs * MaxHolds
  BY <1>1, FS_Product
<1>3. HoldSet(A, h) \in SUBSET (Mids \X (1 .. MaxHolds))
  BY DEF HoldSet
<1>4. /\ IsFiniteSet(HoldSet(A, h))
      /\ Cardinality(HoldSet(A, h)) <= MaxAllocs * MaxHolds
  BY <1>2, <1>3, FS_Subset
<1>5. Cardinality(HoldSet(A, h)) \in Nat /\ MaxAllocs * MaxHolds \in Nat
  BY <1>2, <1>4, FS_CardinalityType
<1> HIDE DEF HoldSet
<1>6. \A n, k \in Nat : n <= k => n \in 0 .. k
  OBVIOUS
<1> QED
  BY <1>4, <1>5, <1>6

(* One more hold of a decoder response, and one fewer. *)
LEMMA HoldMore ==
  ASSUME NEW A, NEW h \in Rows, NEW m \in Mids \ A, h[m] < MaxHolds
  PROVE  Cardinality(HoldSet(A, [h EXCEPT ![m] = @ + 1])) = Cardinality(HoldSet(A, h)) + 1
<1>1. h[m] + 1 \in 1 .. MaxHolds /\ h[m] \in Nat
  BY AllocatorAssumption DEF Rows
<1>2. HoldSet(A, [h EXCEPT ![m] = @ + 1]) = HoldSet(A, h) \cup {<<m, h[m] + 1>>}
  BY <1>1, AllocatorAssumption DEF HoldSet, Rows
<1>3. <<m, h[m] + 1>> \notin HoldSet(A, h)
  BY <1>1 DEF HoldSet
<1> QED
  BY <1>2, <1>3, HoldsBounded, FS_AddElement

(* A reference that is not counted by A is one row entry less when it is given back. *)
LEMMA HoldLess ==
  ASSUME NEW A, NEW h \in Rows, NEW m \in Mids \ A, h[m] > 0
  PROVE  Cardinality(HoldSet(A, [h EXCEPT ![m] = @ - 1])) = Cardinality(HoldSet(A, h)) - 1
<1>1. h[m] \in 1 .. MaxHolds
  BY AllocatorAssumption DEF Rows
<1>2. HoldSet(A, [h EXCEPT ![m] = @ - 1]) = HoldSet(A, h) \ {<<m, h[m]>>}
  BY <1>1, AllocatorAssumption DEF HoldSet, Rows
<1>3. <<m, h[m]>> \in HoldSet(A, h)
  BY <1>1 DEF HoldSet
<1> QED
  BY ZenonT(60), <1>2, <1>3, HoldsBounded, FS_RemoveElement

(* Whether a response that a session does not hold is a decoder's makes no  *)
(* difference to its holds.                                                 *)
LEMMA HoldSame ==
  ASSUME NEW A, NEW B, NEW g \in Rows, NEW h \in Rows, NEW m \in Mids,
         A \ {m} = B \ {m}, \A k \in Mids \ {m} : g[k] = h[k],
         m \notin A => g[m] = 0, m \notin B => h[m] = 0
  PROVE  HoldSet(A, g) = HoldSet(B, h)
<1> SUFFICES ASSUME NEW x \in Mids \X (1 .. MaxHolds)
             PROVE  x \in HoldSet(A, g) <=> x \in HoldSet(B, h)
  BY DEF HoldSet
<1>1. x[1] \in Mids /\ x[2] \in 1 .. MaxHolds
  OBVIOUS
<1>2. CASE x[1] # m
  BY <1>1, <1>2 DEF HoldSet
<1>3. CASE x[1] = m
  BY <1>1, <1>3, AllocatorAssumption DEF HoldSet
<1> QED
  BY <1>2, <1>3

-----------------------------------------------------------------------------
(* The inductive invariant. *)

(* The inductive invariant holds before the first allocation. *)
LEMMA Initially == Init => IInv
<1> SUFFICES ASSUME Init PROVE IInv
  OBVIOUS
<1>1. Typed
  BY AllocatorAssumption DEF Init, Typed, Response, NoResponse, Rows
<1>2. Fresh /\ SavedExists /\ VPPOnce /\ HeldLive
  BY DEF Init, Fresh, SavedExists, VPPOnce, HeldLive, NoResponse, Mids, NULL
<1>3. Counted
  <2> SUFFICES ASSUME NEW s \in Sessions
               PROVE  0 = Cardinality(HoldSet(allocResponses, held[s]))
    BY DEF Init, Counted, NoResponse
  <2>1. HoldSet(allocResponses, held[s]) = {}
    BY DEF Init, HoldSet
  <2> QED
    BY <2>1, FS_EmptySet
<1> QED
  BY <1>1, <1>2, <1>3 DEF IInv

(* simple_alloc of surfaces that the session has already keeps IInv. *)
LEMMA AllocSavedStep ==
  ASSUME IInv, NEW s \in Sessions, NEW n \in 1 .. MaxFrames, AllocSaved(s, n) PROVE IInv'
<1> DEFINE m == allocDecodeResponses[s].mids
<1>1. /\ m \in Mids /\ m \notin allocResponses /\ m \in live /\ held[s][m] < MaxHolds
      /\ held' = [held EXCEPT ![s][m] = @ + 1]
      /\ allocDecodeResponses' = [allocDecodeResponses EXCEPT ![s].refCount = @ + 1]
      /\ UNCHANGED <<allocResponses, size, live>>
  BY DEF AllocSaved, Saved, Hold, IInv, Typed, SavedExists
<1>2. /\ held \in [Sessions -> Rows] /\ held[s] \in Rows /\ held[s][m] \in Nat
      /\ allocDecodeResponses \in [Sessions -> Response]
  BY <1>1 DEF IInv, Typed, Rows
<1> HIDE DEF m
<1>3. held'[s] = [held[s] EXCEPT ![m] = @ + 1] /\ \A t \in Sessions \ {s} : held'[t] = held[t]
  BY <1>1, <1>2
<1>4. Typed'
  <2>1. [held[s] EXCEPT ![m] = @ + 1] \in Rows
    BY <1>1, <1>2, AllocatorAssumption DEF Rows
  <2>2. held' \in [Sessions -> Rows]
    BY <1>1, <1>2, <2>1
  <2>3. allocDecodeResponses' \in [Sessions -> Response]
    BY <1>1, <1>2 DEF Response
  <2> QED
    BY <1>1, <2>2, <2>3 DEF IInv, Typed
<1>5. /\ \A t \in Sessions : /\ allocDecodeResponses'[t].mids = allocDecodeResponses[t].mids
                             /\ allocDecodeResponses'[t].NumFrameActual
                                  = allocDecodeResponses[t].NumFrameActual
      /\ allocDecodeResponses'[s].refCount = allocDecodeResponses[s].refCount + 1
      /\ \A t \in Sessions \ {s} : allocDecodeResponses'[t] = allocDecodeResponses[t]
  BY <1>1, <1>2 DEF Response
<1>6. \A t \in Sessions, k \in Mids : t # s \/ k # m => held'[t][k] = held[t][k]
  BY <1>2, <1>3 DEF Rows
<1>7. Fresh'
  <2>1. size[m] # 0
    BY <1>1 DEF IInv, Fresh, m
  <2> QED
    BY <1>1, <1>5, <1>6, <2>1 DEF IInv, Fresh
<1>8. SavedExists' /\ VPPOnce' /\ HeldLive'
  <2>1. SavedExists'
    BY <1>1, <1>5 DEF IInv, SavedExists
  <2>2. \A k \in allocResponses, t \in Sessions : held'[t][k] = held[t][k]
    BY <1>1, <1>6 DEF IInv, Typed
  <2>3. VPPOnce'
    BY <1>1, <2>2 DEF IInv, VPPOnce
  <2>4. HeldLive'
    BY <1>1, <1>6 DEF IInv, HeldLive
  <2> QED
    BY <2>1, <2>3, <2>4
<1>9. Counted'
  <2>1. Cardinality(HoldSet(allocResponses, held'[s]))
          = Cardinality(HoldSet(allocResponses, held[s])) + 1
    BY ZenonT(60), <1>1, <1>2, <1>3, HoldMore
  <2> QED
    BY <1>1, <1>3, <1>5, <2>1 DEF IInv, Counted
<1> QED
  BY <1>4, <1>7, <1>8, <1>9 DEF IInv

(* A new response is held once, by the session that asked for it. *)
LEMMA NewResponse ==
  ASSUME IInv, NEW s \in Sessions, NEW n \in 1 .. MaxFrames, NEW m \in Mids,
         _simple_alloc(s, m, n)
  PROVE  /\ m \notin allocResponses
         /\ \A t \in Sessions : held[t] \in Rows /\ held[t][m] = 0
                                /\ allocDecodeResponses[t].mids # m
         /\ held' \in [Sessions -> Rows] /\ held'[s] = [held[s] EXCEPT ![m] = @ + 1]
         /\ \A t \in Sessions \ {s} : held'[t] = held[t]
         /\ held'[s][m] = 1 /\ \A k \in Mids \ {m} : held'[s][k] = held[s][k]
         /\ size' \in [Mids -> 0 .. MaxFrames]
         /\ size'[m] # 0 /\ \A k \in Mids \ {m} : size'[k] = size[k]
         /\ live' \subseteq Mids /\ live' = live \cup {m}
<1>1. /\ held \in [Sessions -> Rows] /\ size \in [Mids -> 0 .. MaxFrames]
      /\ live \subseteq Mids
  BY DEF IInv, Typed
<1>2. /\ size[m] = 0 /\ size' = [size EXCEPT ![m] = n] /\ live' = live \cup {m}
      /\ held' = [held EXCEPT ![s][m] = @ + 1]
  BY DEF _simple_alloc, Hold
<1>3. /\ m \notin allocResponses
      /\ \A t \in Sessions : held[t] \in Rows /\ held[t][m] = 0
                             /\ allocDecodeResponses[t].mids # m
  BY <1>1, <1>2 DEF IInv, Fresh
<1>4. /\ held'[s] = [held[s] EXCEPT ![m] = @ + 1]
      /\ \A t \in Sessions \ {s} : held'[t] = held[t]
  BY <1>1, <1>2
<1>5. held'[s] \in Rows /\ held'[s][m] = 1 /\ \A k \in Mids \ {m} : held'[s][k] = held[s][k]
  BY <1>3, <1>4, AllocatorAssumption DEF Rows
<1>6. held' \in [Sessions -> Rows]
  BY <1>1, <1>2, <1>4, <1>5
<1>7. /\ size' \in [Mids -> 0 .. MaxFrames]
      /\ size'[m] # 0 /\ \A k \in Mids \ {m} : size'[k] = size[k]
  BY <1>1, <1>2, AllocatorAssumption
<1> QED
  BY <1>1, <1>2, <1>3, <1>4, <1>5, <1>6, <1>7

(* An allocation for a decoder creates a response or takes a reference on the existing one. *)
LEMMA AllocDecodeStep ==
  ASSUME IInv, NEW s \in Sessions, NEW n \in 1 .. MaxFrames, AllocDecode(s, n) PROVE IInv'
<1>1. PICK m \in Mids :
        /\ _simple_alloc(s, m, n)
        /\ allocDecodeResponses' =
             [allocDecodeResponses EXCEPT
                ![s] = [mids |-> m, NumFrameActual |-> n, refCount |-> @.refCount + 1]]
        /\ UNCHANGED allocResponses
  BY DEF AllocDecode
<1>2. /\ m \notin allocResponses
      /\ \A t \in Sessions : held[t] \in Rows /\ held[t][m] = 0
                             /\ allocDecodeResponses[t].mids # m
      /\ held' \in [Sessions -> Rows] /\ held'[s] = [held[s] EXCEPT ![m] = @ + 1]
      /\ \A t \in Sessions \ {s} : held'[t] = held[t]
      /\ held'[s][m] = 1 /\ \A k \in Mids \ {m} : held'[s][k] = held[s][k]
      /\ size' \in [Mids -> 0 .. MaxFrames]
      /\ size'[m] # 0 /\ \A k \in Mids \ {m} : size'[k] = size[k]
      /\ live' \subseteq Mids /\ live' = live \cup {m}
  BY <1>1, NewResponse
<1>3. allocDecodeResponses \in [Sessions -> Response] /\ allocResponses \subseteq Mids
  BY DEF IInv, Typed
<1>4. /\ allocDecodeResponses' \in [Sessions -> Response]
      /\ allocDecodeResponses'[s]
           = [mids |-> m, NumFrameActual |-> n,
              refCount |-> allocDecodeResponses[s].refCount + 1]
      /\ \A t \in Sessions \ {s} : allocDecodeResponses'[t] = allocDecodeResponses[t]
  BY <1>1, <1>3, AllocatorAssumption DEF Response
<1>5. Typed'
  BY <1>1, <1>2, <1>3, <1>4 DEF Typed
<1>6. \A t \in Sessions, k \in Mids : t # s \/ k # m => held'[t][k] = held[t][k]
  BY <1>2
<1>7. Fresh'
  BY <1>1, <1>2, <1>4, <1>6 DEF IInv, Fresh
<1>8. SavedExists'
  BY <1>1, <1>2, <1>4 DEF IInv, SavedExists
<1>9. VPPOnce'
  <2>1. \A k \in allocResponses, t \in Sessions : held'[t][k] = held[t][k]
    BY <1>2, <1>3, <1>6
  <2> QED
    BY <1>1, <2>1 DEF IInv, VPPOnce
<1>10. HeldLive'
  BY <1>2, <1>6 DEF IInv, HeldLive
<1>11. Counted'
  <2>1. Cardinality(HoldSet(allocResponses, held'[s]))
          = Cardinality(HoldSet(allocResponses, held[s])) + 1
    BY <1>2, HoldMore, AllocatorAssumption
  <2> QED
    BY <1>1, <1>2, <1>4, <2>1 DEF IInv, Counted
<1> QED
  BY <1>5, <1>7, <1>8, <1>9, <1>10, <1>11 DEF IInv

(* An allocation for a VPP session always creates a response of its own. *)
LEMMA AllocVPPStep ==
  ASSUME IInv, NEW s \in Sessions, NEW n \in 1 .. MaxFrames, AllocVPP(s, n) PROVE IInv'
<1>1. PICK m \in Mids : /\ _simple_alloc(s, m, n)
                        /\ allocResponses' = allocResponses \cup {m}
                        /\ UNCHANGED allocDecodeResponses
  BY DEF AllocVPP
<1>2. /\ m \notin allocResponses
      /\ \A t \in Sessions : held[t] \in Rows /\ held[t][m] = 0
                             /\ allocDecodeResponses[t].mids # m
      /\ held' \in [Sessions -> Rows] /\ held'[s] = [held[s] EXCEPT ![m] = @ + 1]
      /\ \A t \in Sessions \ {s} : held'[t] = held[t]
      /\ held'[s][m] = 1 /\ \A k \in Mids \ {m} : held'[s][k] = held[s][k]
      /\ size' \in [Mids -> 0 .. MaxFrames]
      /\ size'[m] # 0 /\ \A k \in Mids \ {m} : size'[k] = size[k]
      /\ live' \subseteq Mids /\ live' = live \cup {m}
  BY <1>1, NewResponse
<1>3. Typed'
  BY <1>1, <1>2 DEF IInv, Typed
<1>4. \A t \in Sessions, k \in Mids : t # s \/ k # m => held'[t][k] = held[t][k]
  BY <1>2
<1>5. Fresh'
  BY <1>1, <1>2, <1>4 DEF IInv, Fresh
<1>6. SavedExists'
  BY <1>1, <1>2 DEF IInv, SavedExists
<1>7. VPPOnce'
  <2> SUFFICES ASSUME NEW k \in allocResponses', NEW t \in Sessions, held'[t][k] > 0
               PROVE  held'[t][k] = 1 /\ \A u \in Sessions \ {t} : held'[u][k] = 0
    BY DEF VPPOnce
  <2>1. CASE k = m
    BY <1>2, <2>1
  <2>2. CASE k # m
    <3>1. k \in allocResponses /\ k \in Mids
      BY <1>1, <2>2 DEF IInv, Typed
    <3> QED
      BY <1>4, <2>2, <3>1 DEF IInv, VPPOnce
  <2> QED
    BY <2>1, <2>2
<1>8. HeldLive'
  BY <1>2, <1>4 DEF IInv, HeldLive
<1>9. Counted'
  <2> SUFFICES ASSUME NEW t \in Sessions
               PROVE  HoldSet(allocResponses', held'[t]) = HoldSet(allocResponses, held[t])
    BY <1>1 DEF IInv, Counted
  <2>1. /\ held[t] \in Rows /\ held'[t] \in Rows /\ held[t][m] = 0 /\ m \in allocResponses'
        /\ \A k \in Mids \ {m} : held'[t][k] = held[t][k]
        /\ allocResponses' \ {m} = allocResponses \ {m}
    BY <1>1, <1>2
  <2> QED
    BY <2>1, HoldSame
<1> QED
  BY <1>3, <1>5, <1>6, <1>7, <1>8, <1>9 DEF IInv

(* A hold given back. *)
Release(s, m) == held[s][m] > 0 /\ held' = [held EXCEPT ![s][m] = @ - 1]

(* What giving one reference back changes in the rows of the sessions. *)
LEMMA Released ==
  ASSUME IInv, NEW s \in Sessions, NEW m \in Mids, Release(s, m)
  PROVE  /\ held[s] \in Rows /\ held' \in [Sessions -> Rows]
         /\ held'[s] = [held[s] EXCEPT ![m] = @ - 1]
         /\ \A t \in Sessions \ {s} : held'[t] = held[t]
         /\ held'[s][m] = held[s][m] - 1 /\ held[s][m] \in Nat \ {0}
         /\ \A t \in Sessions, k \in Mids : t # s \/ k # m => held'[t][k] = held[t][k]
         /\ \A t \in Sessions, k \in Mids : held[t][k] = 0 => held'[t][k] = 0
         /\ \A t \in Sessions, k \in Mids : held'[t][k] > 0 => held[t][k] > 0
<1>1. held \in [Sessions -> Rows] /\ held[s] \in Rows
  BY DEF IInv, Typed
<1>2. /\ held'[s] = [held[s] EXCEPT ![m] = @ - 1]
      /\ \A t \in Sessions \ {s} : held'[t] = held[t]
  BY <1>1 DEF Release
<1>3. held'[s] \in Rows /\ held'[s][m] = held[s][m] - 1 /\ held[s][m] \in Nat \ {0}
  BY <1>1, <1>2, AllocatorAssumption DEF Rows, Release
<1>4. held' \in [Sessions -> Rows]
  BY <1>1, <1>2, <1>3 DEF Release
<1>5. \A t \in Sessions, k \in Mids : t # s \/ k # m => held'[t][k] = held[t][k]
  BY <1>1, <1>2 DEF Rows
<1> QED
  BY <1>1, <1>2, <1>3, <1>4, <1>5

(* simple_free of a decoder response: the reference count goes with the     *)
(* hold, and no surfaces are released, because _simple_free compares a      *)
(* count that has been decremented already.                                 *)
LEMMA FreeDecodeStep ==
  ASSUME IInv, NEW s \in Sessions, NEW m \in Mids, FreeDecode(s, m) PROVE IInv'
<1> DEFINE r == [allocDecodeResponses[s] EXCEPT !.refCount = @ - 1]
<1>1. /\ held[s][m] > 0 /\ m \notin allocResponses
      /\ held' = [held EXCEPT ![s][m] = @ - 1]
      /\ UNCHANGED <<allocResponses, size>>
      /\ IF r.refCount = 0
           THEN /\ live' = live \ Frees(m, r)
                /\ allocDecodeResponses' = [allocDecodeResponses EXCEPT ![s] = NoResponse]
           ELSE /\ allocDecodeResponses' = [allocDecodeResponses EXCEPT ![s] = r]
                /\ UNCHANGED live
  BY DEF FreeDecode
<1>2. /\ allocDecodeResponses \in [Sessions -> Response] /\ allocDecodeResponses[s] \in Response
      /\ allocResponses \subseteq Mids /\ live \subseteq Mids
      /\ size \in [Mids -> 0 .. MaxFrames]
  BY DEF IInv, Typed
<1>3. /\ r \in Response /\ r.refCount = allocDecodeResponses[s].refCount - 1
      /\ r.mids = allocDecodeResponses[s].mids
      /\ r.NumFrameActual = allocDecodeResponses[s].NumFrameActual
  BY <1>2 DEF Response
<1>4. NoResponse \in Response /\ NoResponse.refCount = 0 /\ NoResponse.NumFrameActual = 0
      /\ NoResponse.mids = NULL
  BY AllocatorAssumption DEF NoResponse, Response
<1> HIDE DEF r
<1>5. live' = live
  <2>1. r.refCount = 0 => Frees(m, r) = {}
    BY DEF Frees
  <2> QED
    BY <1>1, <2>1
<1>6. PICK q \in Response :
        /\ allocDecodeResponses' = [allocDecodeResponses EXCEPT ![s] = q]
        /\ q.refCount = allocDecodeResponses[s].refCount - 1
        /\ q = NoResponse \/ (q.mids = r.mids /\ q.NumFrameActual = r.NumFrameActual)
  BY <1>1, <1>3, <1>4
<1>7. /\ allocDecodeResponses' \in [Sessions -> Response] /\ allocDecodeResponses'[s] = q
      /\ \A t \in Sessions \ {s} : allocDecodeResponses'[t] = allocDecodeResponses[t]
  BY <1>2, <1>6
<1>8. /\ held[s] \in Rows /\ held' \in [Sessions -> Rows]
      /\ held'[s] = [held[s] EXCEPT ![m] = @ - 1]
      /\ \A t \in Sessions \ {s} : held'[t] = held[t]
      /\ \A t \in Sessions, k \in Mids : t # s \/ k # m => held'[t][k] = held[t][k]
      /\ \A t \in Sessions, k \in Mids : held[t][k] = 0 => held'[t][k] = 0
      /\ \A t \in Sessions, k \in Mids : held'[t][k] > 0 => held[t][k] > 0
  <2>1. Release(s, m)
    BY <1>1 DEF Release
  <2> QED
    BY <2>1, Released
<1>9. Typed'
  BY <1>1, <1>2, <1>5, <1>7, <1>8 DEF Typed
<1>10. Fresh'
  <2>1. \A k \in Mids : NULL # k
    BY DEF NULL, Mids
  <2>2. \A t \in Sessions : allocDecodeResponses'[t].mids
                              \in {NULL, allocDecodeResponses[t].mids}
    BY <1>3, <1>4, <1>6, <1>7
  <2> QED
    BY <1>1, <1>8, <2>1, <2>2 DEF IInv, Fresh
<1>11. SavedExists'
  <2>1. NULL \notin allocResponses
    BY <1>2 DEF NULL, Mids
  <2>2. \A t \in Sessions :
          \/ allocDecodeResponses'[t] = NoResponse
          \/ /\ allocDecodeResponses'[t].mids = allocDecodeResponses[t].mids
             /\ allocDecodeResponses'[t].NumFrameActual
                  = allocDecodeResponses[t].NumFrameActual
    BY <1>3, <1>6, <1>7
  <2> QED
    BY <1>1, <1>4, <1>5, <2>1, <2>2 DEF IInv, SavedExists
<1>12. VPPOnce' /\ HeldLive'
  <2>1. \A k \in allocResponses, t \in Sessions : held'[t][k] = held[t][k]
    BY <1>1, <1>2, <1>8
  <2> QED
    BY <1>1, <1>5, <1>8, <2>1 DEF IInv, VPPOnce, HeldLive
<1>13. Counted'
  <2>1. Cardinality(HoldSet(allocResponses, held'[s]))
          = Cardinality(HoldSet(allocResponses, held[s])) - 1
    <3>1. m \in Mids \ allocResponses /\ held[s] \in Rows /\ held[s][m] > 0
      BY <1>1, <1>8
    <3>2. Cardinality(HoldSet(allocResponses, [held[s] EXCEPT ![m] = @ - 1]))
            = Cardinality(HoldSet(allocResponses, held[s])) - 1
      BY <3>1, HoldLess
    <3> QED
      BY <3>2, <1>8
  <2> QED
    BY <1>1, <1>6, <1>7, <1>8, <2>1 DEF IInv, Counted
<1> QED
  BY <1>9, <1>10, <1>11, <1>12, <1>13 DEF IInv

(* simple_free of a VPP response, which only its one holder can call. *)
LEMMA FreeVPPStep ==
  ASSUME IInv, NEW s \in Sessions, NEW m \in Mids, FreeVPP(s, m) PROVE IInv'
<1>1. /\ held[s][m] > 0 /\ m \in allocResponses
      /\ held' = [held EXCEPT ![s][m] = @ - 1]
      /\ allocResponses' = allocResponses \ {m}
      /\ live' = live \ Frees(m, allocDecodeResponses[s])
      /\ UNCHANGED <<allocDecodeResponses, size>>
  BY DEF FreeVPP
<1>2. allocResponses \subseteq Mids /\ live \subseteq Mids
  BY DEF IInv, Typed
<1>3. live' = live
  <2>1. allocDecodeResponses[s].mids # m
    BY <1>1 DEF IInv, SavedExists
  <2> QED
    BY <1>1, <2>1 DEF Frees
<1>4. /\ held[s] \in Rows /\ held' \in [Sessions -> Rows]
      /\ \A t \in Sessions \ {s} : held'[t] = held[t]
      /\ held'[s][m] = held[s][m] - 1
      /\ \A t \in Sessions, k \in Mids : t # s \/ k # m => held'[t][k] = held[t][k]
      /\ \A t \in Sessions, k \in Mids : held[t][k] = 0 => held'[t][k] = 0
      /\ \A t \in Sessions, k \in Mids : held'[t][k] > 0 => held[t][k] > 0
  <2>1. Release(s, m)
    BY <1>1 DEF Release
  <2> QED
    BY <2>1, Released
<1>5. held[s][m] = 1 /\ \A t \in Sessions \ {s} : held[t][m] = 0
  BY <1>1 DEF IInv, VPPOnce
<1>6. Typed'
  BY <1>1, <1>2, <1>3, <1>4 DEF IInv, Typed
<1>7. Fresh' /\ SavedExists' /\ HeldLive'
  BY <1>1, <1>3, <1>4 DEF IInv, Fresh, SavedExists, HeldLive
<1>8. VPPOnce'
  <2>1. \A k \in allocResponses', t \in Sessions :
          k \in allocResponses /\ held'[t][k] = held[t][k]
    BY <1>1, <1>2, <1>4
  <2> QED
    BY <2>1 DEF IInv, VPPOnce
<1>9. Counted'
  <2> SUFFICES ASSUME NEW t \in Sessions
               PROVE  HoldSet(allocResponses', held'[t]) = HoldSet(allocResponses, held[t])
    BY <1>1 DEF IInv, Counted
  <2>1. /\ held[t] \in Rows /\ held'[t] \in Rows /\ held'[t][m] = 0
        /\ \A k \in Mids \ {m} : held'[t][k] = held[t][k]
        /\ allocResponses' \ {m} = allocResponses \ {m}
    BY <1>1, <1>4, <1>5 DEF IInv, Typed
  <2>2. m \in allocResponses
    BY <1>1
  <2> QED
    BY <2>1, <2>2, HoldSame
<1> QED
  BY <1>6, <1>7, <1>8, <1>9 DEF IInv

(* The inductive invariant holds at all times. *)
LEMMA Inductive == Spec => []IInv
<1>1. IInv /\ [Next]_vars => IInv'
  <2> SUFFICES ASSUME IInv, [Next]_vars PROVE IInv'
    OBVIOUS
  <2>1. CASE UNCHANGED vars
    BY <2>1 DEF vars, IInv, Typed, Fresh, SavedExists, VPPOnce, HeldLive, Counted
  <2> QED
    BY <2>1, AllocSavedStep, AllocDecodeStep, AllocVPPStep, FreeDecodeStep, FreeVPPStep
       DEF Next
<1> QED
  BY <1>1, Initially, PTL DEF Spec

(* The reference count of a session is the number of times it holds decoder *)
(* responses, those that a larger request has replaced included, so the     *)
(* saved response is erased with the last hold and never before.            *)
THEOREM CountExact == Spec => []RefCountExact
<1>1. IInv => RefCountExact
  <2> SUFFICES ASSUME IInv PROVE RefCountExact
    OBVIOUS
  <2>1. \A s \in Sessions : DecodeHolds(s) = HoldSet(allocResponses, held[s])
    BY DEF DecodeHolds, HoldSet
  <2>2. \A s \in Sessions : held[s] \in Rows
    BY DEF IInv, Typed
  <2>3. \A s \in Sessions : allocDecodeResponses[s].refCount \in 0 .. MaxAllocs * MaxHolds
    BY <2>2, HoldsBounded DEF IInv, Counted
  <2> DEFINE R == 0 .. MaxAllocs * MaxHolds
  <2>4. \A s \in Sessions : allocDecodeResponses[s].refCount \in R
    BY <2>3
  <2> HIDE DEF R
  <2>5. allocDecodeResponses \in
          [Sessions -> [mids : Mids \cup {NULL}, NumFrameActual : 0 .. MaxFrames, refCount : R]]
    BY <2>4 DEF IInv, Typed, Response
  <2>6. TypeOK
    BY <2>5 DEF IInv, Typed, TypeOK, Rows, R
  <2> QED
    BY <2>1, <2>6 DEF RefCountExact, IInv, Counted
<1> QED
  BY <1>1, Inductive, PTL

(* Surfaces that a session holds exist, whoever else has freed them. *)
THEOREM HeldExists == Spec => []HeldLive
BY Inductive, PTL DEF IInv

-----------------------------------------------------------------------------
(* The bit stream. *)

(* s has the bytes of a file of the given fsize, repeated, from place a on. *)
Repeats(s, a, fsize) == \A i \in 1 .. Len(s) : s[i] = (a + i - 1) % fsize

(* What is behind follows on what is in front. *)
LEMMA RepeatsConcat ==
  ASSUME NEW s \in Seq(Nat), NEW t \in Seq(Nat), NEW a \in Nat, NEW fsize \in Nat,
         Repeats(s, a, fsize), Repeats(t, a + Len(s), fsize)
  PROVE  Repeats(s \o t, a, fsize)
<1>1. /\ Len(s) \in Nat /\ Len(t) \in Nat /\ Len(s \o t) = Len(s) + Len(t)
      /\ \A i \in 1 .. Len(s) + Len(t) : (s \o t)[i] = IF i <= Len(s) THEN s[i] ELSE t[i - Len(s)]
  BY ConcatProperties, LenProperties
<1> SUFFICES ASSUME NEW i \in 1 .. Len(s) + Len(t)
             PROVE  (s \o t)[i] = (a + i - 1) % fsize
  BY <1>1 DEF Repeats
<1>2. CASE i <= Len(s)
  BY <1>1, <1>2 DEF Repeats
<1>3. CASE ~(i <= Len(s))
  <2>1. i - Len(s) \in 1 .. Len(t) /\ (s \o t)[i] = t[i - Len(s)]
    BY <1>1, <1>3
  <2>2. t[i - Len(s)] = (a + Len(s) + (i - Len(s)) - 1) % fsize
    BY <2>1 DEF Repeats
  <2>3. a + Len(s) + (i - Len(s)) - 1 = a + i - 1
    BY <1>1
  <2> QED
    BY <2>1, <2>2, <2>3
<1> QED
  BY <1>2, <1>3

(* The beginning and the rest of a window. *)
LEMMA RepeatsSplit ==
  ASSUME NEW s \in Seq(Nat), NEW a \in Nat, NEW fsize \in Nat, NEW k \in 0 .. Len(s), Repeats(s, a, fsize)
  PROVE  /\ SubSeq(s, 1, k) \in Seq(Nat) /\ Len(SubSeq(s, 1, k)) = k
         /\ Repeats(SubSeq(s, 1, k), a, fsize)
         /\ SubSeq(s, k + 1, Len(s)) \in Seq(Nat) /\ Len(SubSeq(s, k + 1, Len(s))) = Len(s) - k
         /\ Repeats(SubSeq(s, k + 1, Len(s)), a + k, fsize)
<1>1. Len(s) \in Nat /\ k \in Nat /\ k <= Len(s)
  BY LenProperties
<1>2. /\ SubSeq(s, 1, k) \in Seq(Nat) /\ Len(SubSeq(s, 1, k)) = k
      /\ \A i \in 1 .. k : SubSeq(s, 1, k)[i] = s[i]
  BY <1>1, SubSeqProperties
<1>3. /\ SubSeq(s, k + 1, Len(s)) \in Seq(Nat) /\ Len(SubSeq(s, k + 1, Len(s))) = Len(s) - k
      /\ \A i \in 1 .. Len(s) - k : SubSeq(s, k + 1, Len(s))[i] = s[k + i]
  BY <1>1, SubSeqProperties
<1>4. Repeats(SubSeq(s, 1, k), a, fsize)
  BY <1>1, <1>2 DEF Repeats
<1>5. Repeats(SubSeq(s, k + 1, Len(s)), a + k, fsize)
  <2> SUFFICES ASSUME NEW i \in 1 .. Len(s) - k
               PROVE  SubSeq(s, k + 1, Len(s))[i] = (a + k + i - 1) % fsize
    BY <1>3 DEF Repeats
  <2>1. k + i \in 1 .. Len(s) /\ s[k + i] = (a + (k + i) - 1) % fsize
    BY <1>1 DEF Repeats
  <2>2. a + (k + i) - 1 = a + k + i - 1
    BY <1>1
  <2> QED
    BY <1>3, <2>1, <2>2
<1> QED
  BY <1>2, <1>3, <1>4, <1>5

(* The stream as a record of the model. *)
Bs(w, o, x, s, t) == [window |-> w, offset |-> o, pos |-> x, sts |-> s, taken |-> t]

(* What was taken (t) and what is in the window (w, at o) are the file,     *)
(* over and over.                                                           *)
Flows(w, o, t, fsize, max) ==
  /\ o + Len(w) <= max
  /\ Repeats(t, 0, fsize) /\ Repeats(w, Len(t), fsize)

(* The next byte of the file is the one that is to come. *)
InStep(w, t, x, fsize) == x <= fsize /\ \E q \in Nat : Len(t) + Len(w) = q * fsize + x

(* Between two calls of the decoder, unless the thread has given up, the    *)
(* next read goes on where the window ends.                                 *)
InOrder(bs, fsize, max) ==
  \E w, t \in Seq(Nat), o, x \in Nat, s \in BOOLEAN :
    /\ bs = Bs(w, o, x, s, t) /\ Flows(w, o, t, fsize, max)
    /\ s => Len(w) = max \/ fsize = 0
    /\ ~s => InStep(w, t, x, fsize)

(* How a stream is shown to be in order. *)
LEMMA InOrderIntro ==
  ASSUME NEW fsize \in Nat, NEW max \in Nat,
         NEW w \in Seq(Nat), NEW t \in Seq(Nat), NEW o \in Nat, NEW x \in Nat, NEW s \in BOOLEAN,
         Flows(w, o, t, fsize, max),
         s => Len(w) = max \/ fsize = 0, ~s => InStep(w, t, x, fsize)
  PROVE  InOrder(Bs(w, o, x, s, t), fsize, max)
  BY DEF InOrder

(* fread at the right position continues the stream. *)
LEMMA FileBytesRepeat ==
  ASSUME NEW fsize \in Nat, NEW pos \in Nat, NEW n \in Nat, NEW q \in Nat, pos + n <= fsize
  PROVE  /\ FileBytes(pos, n) \in Seq(Nat) /\ Len(FileBytes(pos, n)) = n
         /\ Repeats(FileBytes(pos, n), q * fsize + pos, fsize)
<1>1. /\ FileBytes(pos, n) \in Seq(Nat) /\ Len(FileBytes(pos, n)) = n
      /\ \A i \in 1 .. n : FileBytes(pos, n)[i] = pos + i - 1
  BY DEF FileBytes
<1>2. ASSUME NEW i \in 1 .. n
      PROVE  pos + i - 1 = (q * fsize + pos + i - 1) % fsize
  <2>1. fsize \in Nat \ {0} /\ pos + i - 1 \in 0 .. fsize - 1
    OBVIOUS
  <2>2. PICK r \in 0 .. fsize - 1 : r = pos + i - 1
    BY <2>1
  <2>3. (q * fsize + r) % fsize = r
    BY <2>1, DivModOf
  <2>4. q * fsize + r = q * fsize + pos + i - 1
    BY <2>2
  <2> QED
    BY <2>2, <2>3, <2>4
<1> QED
  BY <1>1, <1>2 DEF Repeats

(* What ReadBitStreamData returns. *)
LEMMA ReadFields ==
  ASSUME NEW p, NEW fsize \in Nat, NEW max \in Nat, p.size = fsize, p.MaxLength = max,
         NEW w \in Seq(Nat), NEW t \in Seq(Nat), NEW o \in Nat, NEW x \in Nat, NEW s \in BOOLEAN,
         x <= fsize, Len(w) <= max
  PROVE  \E n \in Nat :
           /\ n <= fsize - x /\ n <= max - Len(w) /\ (n = 0 => x = fsize \/ Len(w) = max)
           /\ ReadBitStreamData(Bs(w, o, x, s, t), p) =
                Bs(w \o FileBytes(x, n), 0, x + n, n = 0, t)
<1>1. PICK l \in Nat : l = Len(w)
  BY LenProperties
<1>2. PICK n \in Nat : n = IF fsize - x < max - l THEN fsize - x ELSE max - l
  <2>1. fsize - x \in Nat /\ max - l \in Nat
    BY <1>1
  <2> QED
    BY <2>1
<1>3. n <= fsize - x /\ n <= max - l /\ (n = 0 => x = fsize \/ l = max)
  BY <1>1, <1>2
<1>4. PICK bs : bs = Bs(w, o, x, s, t)
  OBVIOUS
<1>5. bs.window = w /\ bs.pos = x
  BY <1>4 DEF Bs
<1>6. ReadBitStreamData(bs, p) =
        [bs EXCEPT !.window = @ \o FileBytes(x, n), !.offset = 0, !.pos = @ + n,
                   !.sts = (n = 0)]
  BY <1>1, <1>2, <1>5 DEF ReadBitStreamData
<1>7. ReadBitStreamData(bs, p) = Bs(w \o FileBytes(x, n), 0, x + n, n = 0, t)
  BY <1>4, <1>6 DEF Bs
<1> QED
  BY <1>1, <1>3, <1>4, <1>7

(* A read at the right position goes on with the stream; it reads nothing   *)
(* only at the end of the file or when the window is full.                  *)
LEMMA ReadContinues ==
  ASSUME NEW p, NEW fsize \in Nat, NEW max \in Nat, p.size = fsize, p.MaxLength = max,
         NEW w \in Seq(Nat), NEW t \in Seq(Nat), NEW o \in Nat, NEW x \in Nat, NEW s \in BOOLEAN,
         Flows(w, o, t, fsize, max), InStep(w, t, x, fsize)
  PROVE  \E v \in Seq(Nat), y \in Nat, e \in BOOLEAN :
           /\ ReadBitStreamData(Bs(w, o, x, s, t), p) = Bs(v, 0, y, e, t)
           /\ Flows(v, 0, t, fsize, max) /\ InStep(v, t, y, fsize)
           /\ e => y = x /\ (y = fsize \/ Len(v) = max)
<1>1. PICK l \in Nat, d \in Nat : l = Len(w) /\ d = Len(t)
  BY LenProperties
<1>2. l <= max /\ x <= fsize
  BY <1>1 DEF Flows, InStep
<1>3. PICK q \in Nat : d + l = q * fsize + x
  BY <1>1 DEF InStep
<1>4. PICK n \in Nat :
           /\ n <= fsize - x /\ n <= max - l /\ (n = 0 => x = fsize \/ l = max)
           /\ ReadBitStreamData(Bs(w, o, x, s, t), p) =
                Bs(w \o FileBytes(x, n), 0, x + n, n = 0, t)
  BY <1>1, <1>2, ReadFields
<1>5. PICK f : f = FileBytes(x, n)
  OBVIOUS
<1>6. f \in Seq(Nat) /\ Len(f) = n /\ Repeats(f, q * fsize + x, fsize)
  <2>1. x + n <= fsize
    BY <1>4
  <2> QED
    BY <2>1, <1>5, FileBytesRepeat
<1>7. Repeats(w \o f, Len(t), fsize)
  <2>1. Repeats(w, d, fsize) /\ Repeats(f, d + Len(w), fsize)
    BY <1>1, <1>3, <1>6 DEF Flows
  <2> QED
    BY <1>1, <1>6, <2>1, RepeatsConcat
<1>8. w \o f \in Seq(Nat) /\ Len(w \o f) = l + n
  BY <1>1, <1>6, ConcatProperties
<1>9. Flows(w \o f, 0, t, fsize, max)
  <2>1. 0 + (l + n) <= max
    BY <1>4
  <2> QED
    BY <1>7, <1>8, <2>1 DEF Flows
<1>10. InStep(w \o f, t, x + n, fsize)
  <2>1. PICK m \in Nat : m = q * fsize
    OBVIOUS
  <2>2. d + (l + n) = m + (x + n) /\ x + n <= fsize
    <3>1. d + l = m + x
      BY <2>1, <1>3
    <3> QED
      BY <2>1, <3>1, <1>4
  <2>3. Len(t) + Len(w \o f) = q * fsize + (x + n)
    BY <1>1, <1>8, <2>1, <2>2
  <2> QED
    BY <2>2, <2>3 DEF InStep
<1>11. n = 0 => x + n = x /\ (x + n = fsize \/ Len(w \o f) = max)
  BY <1>4, <1>8
<1>12. PICK e \in BOOLEAN : e = (n = 0)
  OBVIOUS
<1>13. PICK y \in Nat : y = x + n
  OBVIOUS
<1>14. ReadBitStreamData(Bs(w, o, x, s, t), p) = Bs(w \o f, 0, y, e, t)
  BY <1>4, <1>5, <1>12, <1>13
<1> QED
  BY <1>8, <1>9, <1>10, <1>11, <1>12, <1>13, <1>14

(* With a full window a read changes nothing, wherever the file stands. *)
LEMMA ReadFull ==
  ASSUME NEW p, NEW fsize \in Nat, NEW max \in Nat, p.size = fsize, p.MaxLength = max,
         NEW w \in Seq(Nat), NEW t \in Seq(Nat), NEW o \in Nat, NEW x \in Nat, NEW s \in BOOLEAN,
         Flows(w, o, t, fsize, max), x <= fsize, max <= Len(w)
  PROVE  InOrder(ReadBitStreamData(Bs(w, o, x, s, t), p), fsize, max)
<1>1. PICK l \in Nat : l = Len(w)
  BY LenProperties
<1>0. l <= max /\ x <= fsize
  BY <1>1 DEF Flows
<1>2. PICK n \in Nat :
           /\ n <= fsize - x /\ n <= max - l /\ (n = 0 => x = fsize \/ l = max)
           /\ ReadBitStreamData(Bs(w, o, x, s, t), p) =
                Bs(w \o FileBytes(x, n), 0, x + n, n = 0, t)
  BY <1>0, <1>1, ReadFields
<1>3. n = 0
  BY <1>1, <1>2
<1>4. FileBytes(x, 0) = << >>
  <2>1. FileBytes(x, 0) \in Seq(Nat) /\ Len(FileBytes(x, 0)) = 0
    BY DEF FileBytes
  <2> QED
    BY <2>1, EmptySeq
<1>5. w \o << >> = w
  BY ConcatEmptySeq
<1>6. ReadBitStreamData(Bs(w, o, x, s, t), p) = Bs(w, 0, x, TRUE, t)
  <2>1. x + n = x /\ (n = 0) = TRUE
    BY <1>3
  <2>2. w \o FileBytes(x, n) = w
    BY <1>3, <1>4, <1>5
  <2> QED
    BY <1>2, <2>1, <2>2, Zenon
<1>7. Flows(w, 0, t, fsize, max) /\ Len(w) = max
  <2>1. 0 + l <= max /\ l = max
    BY <1>0, <1>1
  <2> QED
    BY <1>1, <2>1 DEF Flows
<1>8. InOrder(Bs(w, 0, x, TRUE, t), fsize, max)
  <2>1. 0 \in Nat /\ TRUE \in BOOLEAN
    OBVIOUS
  <2> QED
    BY <1>7, <2>1, InOrderIntro
<1> QED
  BY <1>6, <1>8

(* After the file was rewound a read goes on with the stream, if the file   *)
(* had been read to its end, or the window is full.                         *)
LEMMA RewoundFlows ==
  ASSUME NEW p, NEW fsize \in Nat, NEW max \in Nat, p.size = fsize, p.MaxLength = max,
         NEW w \in Seq(Nat), NEW t \in Seq(Nat), NEW o \in Nat, NEW x \in Nat, NEW s \in BOOLEAN,
         Flows(w, o, t, fsize, max), x = 0, max <= Len(w) \/ InStep(w, t, x, fsize)
  PROVE  InOrder(ReadBitStreamData(Bs(w, o, x, s, t), p), fsize, max)
<1>1. CASE max <= Len(w)
  <2>1. x <= fsize
    OBVIOUS
  <2> QED
    BY <1>1, <2>1, ReadFull
<1>2. CASE InStep(w, t, x, fsize)
  <2>1. PICK v \in Seq(Nat), y \in Nat, e \in BOOLEAN :
           /\ ReadBitStreamData(Bs(w, o, x, s, t), p) = Bs(v, 0, y, e, t)
           /\ Flows(v, 0, t, fsize, max) /\ InStep(v, t, y, fsize)
           /\ e => y = x /\ (y = fsize \/ Len(v) = max)
    BY <1>2, ReadContinues
  <2>2. e => Len(v) = max \/ fsize = 0
    BY <2>1
  <2>3. InOrder(Bs(v, 0, y, e, t), fsize, max)
    BY <2>1, <2>2, InOrderIntro
  <2> QED
    BY <2>1, <2>3
<1> QED
  BY <1>1, <1>2

(* MFX_ERR_MORE_DATA: a read, at the end of the file another one from its   *)
(* beginning.                                                               *)
LEMMA MoreDataFlows ==
  ASSUME NEW p, NEW fsize \in Nat, NEW max \in Nat, p.size = fsize, p.MaxLength = max,
         NEW w \in Seq(Nat), NEW t \in Seq(Nat), NEW o \in Nat, NEW x \in Nat, NEW s \in BOOLEAN,
         Flows(w, o, t, fsize, max), InStep(w, t, x, fsize)
  PROVE  InOrder(MoreData(Bs(w, o, x, s, t), p), fsize, max)
<1>1. PICK v \in Seq(Nat), y \in Nat, e \in BOOLEAN :
           /\ ReadBitStreamData(Bs(w, o, x, s, t), p) = Bs(v, 0, y, e, t)
           /\ Flows(v, 0, t, fsize, max) /\ InStep(v, t, y, fsize)
           /\ e => y = x /\ (y = fsize \/ Len(v) = max)
  BY ReadContinues
<1>2. PICK f : f = Bs(v, 0, y, e, t)
  OBVIOUS
<1>3. f.sts = e /\ [f EXCEPT !.pos = 0] = Bs(v, 0, 0, e, t)
  BY <1>2 DEF Bs
<1>4. CASE ~e
  <2>1. MoreData(Bs(w, o, x, s, t), p) = Bs(v, 0, y, e, t)
    BY <1>1, <1>2, <1>3, <1>4 DEF MoreData
  <2> QED
    BY <1>1, <1>4, <2>1 DEF InOrder
<1>5. CASE e
  <2>1. MoreData(Bs(w, o, x, s, t), p) = ReadBitStreamData(Bs(v, 0, 0, e, t), p)
    BY <1>1, <1>2, <1>3, <1>5 DEF MoreData
  <2>2. max <= Len(v) \/ InStep(v, t, 0, fsize)
    <3>1. CASE Len(v) = max
      BY <3>1
    <3>2. CASE y = fsize
      <4>1. PICK l \in Nat, d \in Nat : l = Len(v) /\ d = Len(t)
        BY LenProperties
      <4>2. PICK q \in Nat : d + l = q * fsize + fsize
        BY <1>1, <3>2, <4>1 DEF InStep
      <4>3. (q + 1) * fsize + 0 = q * fsize + fsize /\ q + 1 \in Nat /\ 0 <= fsize
        OBVIOUS
      <4>4. Len(t) + Len(v) = (q + 1) * fsize + 0
        BY <4>1, <4>2, <4>3
      <4> QED
        BY <4>3, <4>4 DEF InStep
    <3> QED
      BY <1>1, <1>5, <3>1, <3>2
  <2>3. PICK o0 \in Nat, x0 \in Nat : o0 = 0 /\ x0 = 0
    OBVIOUS
  <2>4. InOrder(ReadBitStreamData(Bs(v, o0, x0, e, t), p), fsize, max)
    BY <1>1, <2>2, <2>3, RewoundFlows
  <2> QED
    BY <2>1, <2>3, <2>4
<1> QED
  BY <1>4, <1>5

(* The decoder takes bytes from the front of the window. *)
LEMMA FeedFlows ==
  ASSUME NEW p, NEW fsize \in Nat, NEW max \in Nat, p.size = fsize, p.MaxLength = max,
         NEW bs, InOrder(bs, fsize, max), NEW n \in Nat
  PROVE  InOrder(Feed(bs, n, p), fsize, max)
<1>1. PICK w \in Seq(Nat), t \in Seq(Nat), o \in Nat, x \in Nat, s \in BOOLEAN :
         /\ bs = Bs(w, o, x, s, t) /\ Flows(w, o, t, fsize, max)
         /\ ~s => InStep(w, t, x, fsize)
  BY DEF InOrder
<1>2. bs.sts = s /\ bs.window = w
  BY <1>1 DEF Bs
<1>3. CASE s
  BY <1>2, <1>3 DEF Feed
<1>4. CASE ~s
  <2>1. PICK l \in Nat, d \in Nat : l = Len(w) /\ d = Len(t)
    BY LenProperties
  <2>2. PICK k \in 0 .. l : k = IF n < l THEN n ELSE l
    OBVIOUS
  <2>3. PICK a, v : a = SubSeq(w, 1, k) /\ v = SubSeq(w, k + 1, Len(w))
    OBVIOUS
  <2>4. PICK b : b = [bs EXCEPT !.taken = @ \o a, !.offset = @ + k, !.window = v]
    OBVIOUS
  <2>5. Feed(bs, n, p) = MoreData(b, p)
    BY <1>2, <1>4, <2>1, <2>2, <2>3, <2>4 DEF Feed
  <2>6. b = Bs(v, o + k, x, s, t \o a)
    BY <1>1, <2>4 DEF Bs
  <2>7. /\ a \in Seq(Nat) /\ Len(a) = k /\ Repeats(a, d, fsize)
        /\ v \in Seq(Nat) /\ Len(v) = l - k /\ Repeats(v, d + k, fsize)
    <3>1. Repeats(w, d, fsize) /\ k \in 0 .. Len(w)
      BY <1>1, <2>1, <2>2 DEF Flows
    <3>2. /\ SubSeq(w, 1, k) \in Seq(Nat) /\ Len(SubSeq(w, 1, k)) = k
          /\ Repeats(SubSeq(w, 1, k), d, fsize)
          /\ SubSeq(w, k + 1, Len(w)) \in Seq(Nat) /\ Len(SubSeq(w, k + 1, Len(w))) = Len(w) - k
          /\ Repeats(SubSeq(w, k + 1, Len(w)), d + k, fsize)
      BY <3>1, RepeatsSplit
    <3> QED
      BY <2>1, <2>3, <3>2
  <2>8. t \o a \in Seq(Nat) /\ Len(t \o a) = d + k
    BY <2>1, <2>7, ConcatProperties
  <2>9. Repeats(t \o a, 0, fsize)
    <3>1. 0 + Len(t) = d /\ 0 \in Nat
      BY <2>1
    <3>2. Repeats(t, 0, fsize) /\ Repeats(a, 0 + Len(t), fsize)
      BY <1>1, <2>7, <3>1 DEF Flows
    <3> QED
      BY <2>7, <3>1, <3>2, RepeatsConcat
  <2>10. Flows(v, o + k, t \o a, fsize, max)
    <3>1. o + l <= max
      BY <1>1, <2>1 DEF Flows
    <3>2. o + k + (l - k) <= max
      BY <3>1
    <3> QED
      BY <2>7, <2>8, <2>9, <3>2 DEF Flows
  <2>11. InStep(v, t \o a, x, fsize)
    <3>1. d + k + (l - k) = d + l
      OBVIOUS
    <3> QED
      BY <1>1, <1>4, <2>1, <2>7, <2>8, <3>1 DEF InStep
  <2>12. o + k \in Nat
    OBVIOUS
  <2>13. InOrder(MoreData(Bs(v, o + k, x, s, t \o a), p), fsize, max)
    BY <2>7, <2>8, <2>10, <2>11, <2>12, MoreDataFlows
  <2> QED
    BY <2>5, <2>6, <2>13
<1> QED
  BY <1>3, <1>4

(* A stream is that of its job, and in order. *)
StreamInv ==
  job.alg = "stream" =>
    /\ job.size \in Nat /\ job.MaxLength \in Nat
    /\ result # None => result.status = "done" /\ InOrder(result.bs, job.size, job.MaxLength)

(* The job is one of those of its algorithm. *)
LEMMA JobOfAlg ==
  ASSUME AlgInit
  PROVE  /\ job.alg = "reorg" => job \in ReorgJobs
         /\ job.alg = "region" => job \in RegionJobs
         /\ job.alg = "nearest" => job \in NearestJobs
         /\ job.alg = "pool" => job \in PoolJobs
         /\ job.alg = "stream" => job \in StreamJobs
         /\ job.alg = "frame" => job \in FrameJobs
         /\ job.alg = "planes" => job \in PlaneJobs
<1>1. CASE job \in DetectJobs
  BY <1>1 DEF DetectJobs
<1>2. CASE job \in SimplerJobs
  BY <1>2 DEF SimplerJobs
<1>3. CASE job \in ProposalJobs
  BY <1>3 DEF ProposalJobs
<1>4. CASE job \in ArgMaxJobs
  BY <1>4 DEF ArgMaxJobs
<1>5. CASE job \in CtcJobs
  BY <1>5 DEF CtcJobs
<1>6. CASE job \in ReorgJobs
  BY <1>6 DEF ReorgJobs
<1>7. CASE job \in RegionJobs
  BY <1>7 DEF RegionJobs
<1>8. CASE job \in NearestJobs
  BY <1>8 DEF NearestJobs
<1>9. CASE job \in PoolJobs
  BY <1>9 DEF PoolJobs
<1>10. CASE job \in PriorJobs
  BY <1>10 DEF PriorJobs
<1>11. CASE job \in StreamJobs
  BY <1>11 DEF StreamJobs
<1>12. CASE job \in FrameJobs
  BY <1>12 DEF FrameJobs
<1>13. CASE job \in PlaneJobs
  BY <1>13 DEF PlaneJobs
<1> QED
  BY <1>1, <1>2, <1>3, <1>4, <1>5, <1>6, <1>7, <1>8, <1>9, <1>10, <1>11, <1>12, <1>13 DEF AlgInit

(* Every step keeps the stream in order; only OpenStream and FeedStream      *)
(* touch it.                                                                *)
LEMMA StreamStep ==
  ASSUME Cells \in Nat, StreamInv, [AlgNext]_algVars
  PROVE  StreamInv'
<1>1. CASE OpenStream
  <2>1. job' = job /\ result' = [status |-> "done", bs |-> FirstRead(job)]
    BY <1>1 DEF OpenStream, Ready
  <2>2. SUFFICES ASSUME job.alg = "stream"
                 PROVE  InOrder(FirstRead(job), job.size, job.MaxLength)
    BY <2>1 DEF StreamInv
  <2>3. PICK fsize \in Nat, max \in Nat : fsize = job.size /\ max = job.MaxLength
    BY <2>2 DEF StreamInv
  <2>4. /\ << >> \in Seq(Nat) /\ Len(<< >>) = 0 /\ 0 \in Nat /\ FALSE \in BOOLEAN
        /\ 0 + 0 <= max /\ 0 <= fsize /\ 0 + 0 = 0 * fsize + 0
    OBVIOUS
  <2>5. Flows(<< >>, 0, << >>, fsize, max)
    BY <2>4 DEF Flows, Repeats
  <2>6. InStep(<< >>, << >>, 0, fsize)
    BY <2>4 DEF InStep
  <2>7. PICK e \in Seq(Nat), z \in Nat, s \in BOOLEAN : e = << >> /\ z = 0 /\ s = FALSE
    BY <2>4
  <2>8. Flows(e, z, e, fsize, max) /\ InStep(e, e, z, fsize)
    BY <2>5, <2>6, <2>7
  <2>9. PICK v \in Seq(Nat), y \in Nat, r \in BOOLEAN :
           /\ ReadBitStreamData(Bs(e, z, z, s, e), job) = Bs(v, 0, y, r, e)
           /\ Flows(v, 0, e, fsize, max) /\ InStep(v, e, y, fsize)
           /\ r => y = z /\ (y = fsize \/ Len(v) = max)
    BY <2>3, <2>8, ReadContinues
  <2>10. Bs(e, z, z, s, e) = NewStream
    BY <2>7 DEF NewStream, Bs
  <2>11. PICK f : f = ReadBitStreamData(NewStream, job)
    OBVIOUS
  <2>12. f = Bs(v, z, y, r, e)
    BY <2>7, <2>9, <2>10, <2>11
  <2>13. [f EXCEPT !.sts = FALSE] = Bs(v, z, y, s, e)
    <3>1. [f EXCEPT !.sts = s] = Bs(v, z, y, s, e)
      BY <2>12 DEF Bs
    <3>2. s = FALSE
      BY <2>7
    <3> QED
      BY <3>1, <3>2, Zenon
  <2>14. Flows(v, z, e, fsize, max)
    BY <2>7, <2>9
  <2>15. InOrder(Bs(v, z, y, s, e), fsize, max)
    <3>1. ~s
      BY <2>7
    <3> QED
      BY <2>9, <2>14, <3>1, InOrderIntro
  <2> QED
    BY <2>3, <2>11, <2>13, <2>15 DEF FirstRead
<1>2. CASE FeedStream
  <2>1. /\ job.alg = "stream" /\ job' = job /\ result # None
        /\ result.status = "done" /\ InOrder(result.bs, job.size, job.MaxLength)
    BY <1>2 DEF FeedStream, StreamInv
  <2>2. PICK n \in Nat : result' = [status |-> "done", bs |-> Feed(result.bs, n, job)]
    BY <1>2 DEF FeedStream
  <2>3. PICK fsize \in Nat, max \in Nat : fsize = job.size /\ max = job.MaxLength
    BY <2>1 DEF StreamInv
  <2>4. InOrder(Feed(result.bs, n, job), fsize, max)
    BY <2>1, <2>3, FeedFlows
  <2>5. result'.status = "done" /\ result'.bs = Feed(result.bs, n, job)
    BY <2>2
  <2> QED
    BY <2>1, <2>3, <2>4, <2>5 DEF StreamInv
<1>3. CASE ~OpenStream /\ ~FeedStream
  <2>1. UNCHANGED <<job, result>> \/ (job' = job /\ job.alg # "stream")
    BY <1>3 DEF AlgNext, algVars, Ready, Execute, Read, SimplerNms, Proposal,
       ArgMaxLayer, CtcLayer, ReorgLayer, RegionLayer, NearestLayer,
       PoolLayer, PriorLayer, CopyFrame, CopyPlanes
  <2> QED
    BY <2>1 DEF StreamInv
<1> QED
  BY <1>1, <1>2, <1>3

(* The bytes that ReadBitStreamData gives to the decoder are those of the   *)
(* file over and over again, for every size of the file and of the window   *)
(* and however many bytes the decoder takes at a time: nothing is lost or   *)
(* repeated where a read was short or the file was rewound, the window is   *)
(* never overrun, and the thread gives up only when the window is full or   *)
(* the file empty.                                                          *)
THEOREM StreamCorrect ==
  ASSUME Cells \in Nat
  PROVE  AlgSpec => []StreamCyclic
<1>1. AlgInit => StreamInv
  BY JobOfAlg DEF AlgInit, StreamJobs, StreamInv
<1>2. StreamInv => StreamCyclic
  <2> SUFFICES ASSUME StreamInv, Done("stream") PROVE StreamCyclic
    BY DEF StreamCyclic
  <2>1. PICK fsize \in Nat, max \in Nat : fsize = job.size /\ max = job.MaxLength
    BY DEF StreamInv, Done
  <2>2. PICK w \in Seq(Nat), t \in Seq(Nat), o \in Nat, x \in Nat, s \in BOOLEAN :
          /\ result.bs = Bs(w, o, x, s, t) /\ Flows(w, o, t, fsize, max)
          /\ s => Len(w) = max \/ fsize = 0
    BY <2>1 DEF StreamInv, Done, None, InOrder
  <2>3. Repeats(t \o w, 0, fsize)
    <3>1. 0 + Len(t) = Len(t) /\ 0 \in Nat
      BY LenProperties
    <3> QED
      BY <2>2, <3>1, RepeatsConcat DEF Flows
  <2>4. ASSUME NEW k \in DOMAIN (t \o w) PROVE (t \o w)[k] = (k - 1) % fsize
    <3>1. k \in 1 .. Len(t \o w) /\ k \in Int
      BY ConcatProperties, LenProperties
    <3>2. (t \o w)[k] = (0 + k - 1) % fsize
      BY <2>3, <3>1 DEF Repeats
    <3>3. 0 + k - 1 = k - 1
      BY <3>1
    <3> QED
      BY <3>2, <3>3
  <2>5. result.bs.taken = t /\ result.bs.window = w /\ result.bs.offset = o /\ result.bs.sts = s
    BY <2>2 DEF Bs
  <2>6. o + Len(w) <= max
    BY <2>2 DEF Flows
  <2> QED
    BY <2>1, <2>2, <2>4, <2>5, <2>6 DEF StreamCyclic
<1> QED
  BY <1>1, <1>2, StreamStep, PTL DEF AlgSpec

-----------------------------------------------------------------------------
(* ReorgYolo.  The channels of the input are m = s * s groups of c planes.  *)
(* An output of c planes of H x W has as many elements.                     *)
Sizes(IC, IH, IW, s, m, c, H, W) ==
  /\ IC \in Nat \ {0} /\ IH \in Nat \ {0} /\ IW \in Nat \ {0} /\ s \in Nat \ {0}
  /\ m \in Nat \ {0} /\ c \in Nat \ {0} /\ H \in Nat \ {0} /\ W \in Nat \ {0}
  /\ m = s * s /\ IC \div (s * s) = c /\ IC = m * c /\ H = IH * s /\ W = IW * s

(* A stride whose square divides the channels gives such sizes. *)
LEMMA SizesExist ==
  ASSUME NEW IC \in Nat \ {0}, NEW IH \in Nat \ {0}, NEW IW \in Nat \ {0}, NEW s \in Nat \ {0},
         IC % (s * s) = 0
  PROVE  \E m, c, H, W : Sizes(IC, IH, IW, s, m, c, H, W)
<1>1. PICK m \in Nat \ {0}, H \in Nat \ {0}, W \in Nat \ {0} : m = s * s /\ H = IH * s /\ W = IW * s
  OBVIOUS
<1>2. IC \div m \in Int /\ IC = (IC \div m) * m + (IC % m) /\ IC % m = 0
  <2>1. IC \in Int /\ IC % m = 0
    BY <1>1
  <2> QED
    BY <2>1, DivMod
<1>3. PICK c \in Int : c = IC \div m
  BY <1>2
<1>4. IC = c * m + 0 /\ c * m \in Int
  BY <1>2, <1>3
<1>5. c \in Nat \ {0}
  <2> SUFFICES ASSUME c <= 0 PROVE FALSE
    OBVIOUS
  <2>1. c * m <= 0 * m /\ 0 * m = 0
    BY FactorLess
  <2> QED
    BY <1>4, <2>1
<1>6. IC = m * c /\ IC \div (s * s) = c
  BY <1>1, <1>3, <1>4
<1>7. Sizes(IC, IH, IW, s, m, c, H, W)
  BY <1>1, <1>5, <1>6 DEF Sizes
<1> QED
  BY <1>7

(* A channel of the output, and the place in the input that an element of   *)
(* it comes from                                                            *)
Channel(s, c, r, a, b) == RowAt(RowAt(a, s, b), c, r)
Source(s, H, W, r, a, b, ih, iw) == RowAt(RowAt(r, H, RowAt(ih, s, a)), W, RowAt(iw, s, b))

(* The sources of the elements of the output *)
Moved(IC, IH, IW, s) ==
  [d \in (0 .. IC - 1) \X (0 .. IH - 1) \X (0 .. IW - 1) |->
     ReorgSrc(IC, IH, IW, s, d[1], d[2], d[3])]

(* Every element of the input is moved to one place of the output. *)
LEMMA ReorgMoves ==
  ASSUME NEW IC \in Nat \ {0}, NEW IH \in Nat \ {0}, NEW IW \in Nat \ {0}, NEW s \in Nat \ {0},
         NEW m \in Nat \ {0}, NEW c \in Nat \ {0}, NEW H \in Nat \ {0}, NEW W \in Nat \ {0},
         Sizes(IC, IH, IW, s, m, c, H, W)
  PROVE  /\ {Moved(IC, IH, IW, s)[d] : d \in DOMAIN Moved(IC, IH, IW, s)} = 0 .. IC * IH * IW - 1
         /\ \A d, e \in DOMAIN Moved(IC, IH, IW, s) :
              Moved(IC, IH, IW, s)[d] = Moved(IC, IH, IW, s)[e] => d = e
<1>a. ASSUME NEW a \in 0 .. s - 1, NEW b \in 0 .. s - 1, NEW r \in 0 .. c - 1,
             NEW ih \in 0 .. IH - 1, NEW iw \in 0 .. IW - 1
      PROVE  ReorgSrc(IC, IH, IW, s, Channel(s, c, r, a, b), ih, iw) = Source(s, H, W, r, a, b, ih, iw)
  <2>1. a \in Int /\ r \in Int /\ b \in Int /\ s \in Int /\ c \in Int /\ ih \in Int /\ iw \in Int
    OBVIOUS
  <2>2. RowAt(a, s, b) \in Int
    BY <2>1, RowType
  <2>3. PICK o \in Int : o = RowAt(a, s, b)
    BY <2>2
  <2>4. RowAt(o, c, r) \in Int
    BY <2>1, RowType
  <2>5. PICK ic \in Int : ic = RowAt(o, c, r)
    BY <2>4
  <2>6. ic \div c = o /\ ic % c = r
    <3>1. RowAt(o, c, r) \div c = o /\ RowAt(o, c, r) % c = r
      BY RowDivMod
    <3> QED
      BY <2>5, <3>1
  <2>7. o \div s = a /\ o % s = b
    <3>1. RowAt(a, s, b) \div s = a /\ RowAt(a, s, b) % s = b
      BY <2>1, RowDivMod
    <3> QED
      BY <2>3, <3>1
  <2>8. PICK x \in Int, y \in Int : y = ih * s + a /\ x = iw * s + b
    BY <2>1
  <2>9. ReorgSrc(IC, IH, IW, s, ic, ih, iw) = r * H * W + y * W + x
    BY <2>6, <2>7, <2>8 DEF ReorgSrc, Sizes
  <2>10. r * H * W + y * W + x = (r * H + y) * W + x
    BY <2>1
  <2>11. x = RowAt(iw, s, b) /\ y = RowAt(ih, s, a) /\ (r * H + y) * W + x = RowAt(RowAt(r, H, y), W, x)
    BY <2>8 DEF RowAt
  <2> QED
    BY <2>3, <2>5, <2>9, <2>10, <2>11 DEF Channel, Source
<1>b. (c * H) * W = IC * IH * IW
  <2>1. PICK p \in Nat, q \in Nat : p = IH * s /\ q = c * p
    OBVIOUS
  <2>2. q * (IW * s) = q * IW * s
    OBVIOUS
  <2>3. q * IW * s = ((s * s) * c) * IH * IW
    BY <2>1
  <2>4. H = p /\ W = IW * s /\ IC = (s * s) * c
    BY <2>1 DEF Sizes
  <2> QED
    BY <2>1, <2>2, <2>3, <2>4
<1>c. ASSUME NEW a \in 0 .. s - 1, NEW b \in 0 .. s - 1, NEW r \in 0 .. c - 1
      PROVE  Channel(s, c, r, a, b) \in 0 .. IC - 1
  <2>1. s \in Nat /\ m = s * s /\ IC = m * c
    BY DEF Sizes
  <2>2. InRows(RowAt(a, s, b), s, s)
    BY <2>1, RowBelow
  <2>3. RowAt(a, s, b) \in 0 .. m - 1
    BY <2>1, <2>2 DEF InRows
  <2>4. PICK o \in 0 .. m - 1 : o = RowAt(a, s, b)
    BY <2>3
  <2>5. InRows(RowAt(o, c, r), m, c)
    BY RowBelow
  <2>6. RowAt(o, c, r) \in 0 .. IC - 1
    BY <2>1, <2>5 DEF InRows
  <2> QED
    BY <2>4, <2>6 DEF Channel
<1>d. ASSUME NEW ic \in 0 .. IC - 1
      PROVE  \E a \in 0 .. s - 1, b \in 0 .. s - 1, r \in 0 .. c - 1 : ic = Channel(s, c, r, a, b)
  <2>1. PICK o \in 0 .. m - 1, r \in 0 .. c - 1 : ic = RowAt(o, c, r)
    <3>1. ic \in Int /\ InRows(ic, m, c)
      BY DEF InRows, Sizes
    <3> QED
      BY <3>1, RowOf
  <2>2. PICK a \in 0 .. s - 1, b \in 0 .. s - 1 : o = RowAt(a, s, b)
    <3>1. s \in Nat /\ o \in Int /\ InRows(o, s, s)
      BY DEF InRows, Sizes
    <3> QED
      BY <3>1, RowOf
  <2> QED
    BY <2>1, <2>2 DEF Channel
<1>e. ASSUME NEW a \in 0 .. s - 1, NEW b \in 0 .. s - 1, NEW r \in 0 .. c - 1,
             NEW ih \in 0 .. IH - 1, NEW iw \in 0 .. IW - 1
      PROVE  InRows(Source(s, H, W, r, a, b, ih, iw), c * H, W)
  <2>1. PICK y \in 0 .. H - 1 : y = RowAt(ih, s, a)
    <3>1. InRows(RowAt(ih, s, a), IH, s)
      BY RowBelow
    <3>2. RowAt(ih, s, a) \in 0 .. H - 1
      BY <3>1 DEF Sizes, InRows
    <3> QED
      BY <3>2
  <2>2. PICK x \in 0 .. W - 1 : x = RowAt(iw, s, b)
    <3>1. InRows(RowAt(iw, s, b), IW, s)
      BY RowBelow
    <3>2. RowAt(iw, s, b) \in 0 .. W - 1
      BY <3>1 DEF Sizes, InRows
    <3> QED
      BY <3>2
  <2>3. PICK S \in Nat : S = c * H
    OBVIOUS
  <2>4. PICK i \in 0 .. S - 1 : i = RowAt(r, H, y)
    <3>1. InRows(RowAt(r, H, y), c, H)
      BY RowBelow
    <3>2. RowAt(r, H, y) \in 0 .. S - 1
      BY <2>3, <3>1 DEF InRows
    <3> QED
      BY <3>2
  <2>5. InRows(RowAt(i, W, x), S, W)
    BY RowBelow
  <2> QED
    BY <2>1, <2>2, <2>3, <2>4, <2>5 DEF Source
<1>f. ASSUME NEW p \in Int, InRows(p, c * H, W)
      PROVE  \E a \in 0 .. s - 1, b \in 0 .. s - 1, r \in 0 .. c - 1, ih \in 0 .. IH - 1, iw \in 0 .. IW - 1 :
               p = Source(s, H, W, r, a, b, ih, iw)
  <2>1. PICK S \in Nat : S = c * H
    OBVIOUS
  <2>2. PICK i \in 0 .. S - 1, x \in 0 .. W - 1 : p = RowAt(i, W, x)
    <3>1. InRows(p, S, W)
      BY <1>f, <2>1
    <3> QED
      BY <3>1, RowOf
  <2>3. PICK r \in 0 .. c - 1, y \in 0 .. H - 1 : i = RowAt(r, H, y)
    <3>1. i \in Int /\ InRows(i, c, H)
      BY <2>1 DEF InRows
    <3> QED
      BY <3>1, RowOf
  <2>4. PICK ih \in 0 .. IH - 1, a \in 0 .. s - 1 : y = RowAt(ih, s, a)
    <3>1. y \in Int /\ InRows(y, IH, s)
      BY DEF InRows, Sizes
    <3> QED
      BY <3>1, RowOf
  <2>5. PICK iw \in 0 .. IW - 1, b \in 0 .. s - 1 : x = RowAt(iw, s, b)
    <3>1. x \in Int /\ InRows(x, IW, s)
      BY DEF InRows, Sizes
    <3> QED
      BY <3>1, RowOf
  <2>6. p = Source(s, H, W, r, a, b, ih, iw)
    BY <2>2, <2>3, <2>4, <2>5 DEF Source
  <2> QED
    BY <2>6
<1>1. PICK src : src = Moved(IC, IH, IW, s)
  OBVIOUS
<1>2. /\ DOMAIN src = (0 .. IC - 1) \X (0 .. IH - 1) \X (0 .. IW - 1)
      /\ \A ic \in 0 .. IC - 1, ih \in 0 .. IH - 1, iw \in 0 .. IW - 1 :
           src[<<ic, ih, iw>>] = ReorgSrc(IC, IH, IW, s, ic, ih, iw)
  BY <1>1 DEF Moved
<1>3. IC \in Nat /\ IH \in Nat /\ IW \in Nat /\ s \in Nat /\ m \in Nat /\ c \in Nat /\ H \in Nat /\ W \in Nat
  OBVIOUS
<1>4. PICK T \in Nat : T = IC * IH * IW
  BY <1>3
<1>5. \A x : InRows(x, c * H, W) <=> x \in 0 .. T - 1
  <2>1. (c * H) * W = T
    BY <1>b, <1>4
  <2> QED
    BY <2>1 DEF InRows
<1>6. ASSUME NEW a \in 0 .. s - 1, NEW b \in 0 .. s - 1, NEW r \in 0 .. c - 1,
             NEW ih \in 0 .. IH - 1, NEW iw \in 0 .. IW - 1
      PROVE  /\ Channel(s, c, r, a, b) \in 0 .. IC - 1
             /\ src[<<Channel(s, c, r, a, b), ih, iw>>] = Source(s, H, W, r, a, b, ih, iw)
  <2>1. Channel(s, c, r, a, b) \in 0 .. IC - 1
    BY <1>c
  <2>2. ReorgSrc(IC, IH, IW, s, Channel(s, c, r, a, b), ih, iw) = Source(s, H, W, r, a, b, ih, iw)
    BY <1>a
  <2> QED
    BY <1>2, <2>1, <2>2
<1>7. ASSUME NEW d \in DOMAIN src
      PROVE  \E a \in 0 .. s - 1, b \in 0 .. s - 1, r \in 0 .. c - 1, ih \in 0 .. IH - 1, iw \in 0 .. IW - 1 :
               d = <<Channel(s, c, r, a, b), ih, iw>>
  <2>1. PICK ic \in 0 .. IC - 1, ih \in 0 .. IH - 1, iw \in 0 .. IW - 1 : d = <<ic, ih, iw>>
    BY <1>2
  <2>2. PICK a \in 0 .. s - 1, b \in 0 .. s - 1, r \in 0 .. c - 1 : ic = Channel(s, c, r, a, b)
    BY <1>d
  <2> QED
    BY <2>1, <2>2
<1>8. ASSUME NEW d \in DOMAIN src PROVE src[d] \in 0 .. T - 1
  <2>1. PICK a \in 0 .. s - 1, b \in 0 .. s - 1, r \in 0 .. c - 1, ih \in 0 .. IH - 1, iw \in 0 .. IW - 1 :
          d = <<Channel(s, c, r, a, b), ih, iw>>
    BY <1>7
  <2>2. InRows(Source(s, H, W, r, a, b, ih, iw), c * H, W)
    BY <1>e
  <2>3. src[d] = Source(s, H, W, r, a, b, ih, iw)
    BY <1>6, <2>1
  <2> QED
    BY <1>5, <2>2, <2>3
<1>9. ASSUME NEW p \in 0 .. T - 1 PROVE \E d \in DOMAIN src : src[d] = p
  <2>1. PICK a \in 0 .. s - 1, b \in 0 .. s - 1, r \in 0 .. c - 1, ih \in 0 .. IH - 1, iw \in 0 .. IW - 1 :
          p = Source(s, H, W, r, a, b, ih, iw)
    <3>1. p \in Int /\ InRows(p, c * H, W)
      BY <1>5
    <3> QED
      BY <3>1, <1>f
  <2>2. PICK ic \in 0 .. IC - 1 : ic = Channel(s, c, r, a, b) /\ src[<<ic, ih, iw>>] = p
    <3>1. Channel(s, c, r, a, b) \in 0 .. IC - 1
      BY <1>6
    <3>2. src[<<Channel(s, c, r, a, b), ih, iw>>] = p
      BY <1>6, <2>1
    <3> QED
      BY <3>1, <3>2
  <2>3. <<ic, ih, iw>> \in DOMAIN src
    BY <1>2
  <2> QED
    BY <2>2, <2>3
<1>10. ASSUME NEW d \in DOMAIN src, NEW e \in DOMAIN src, src[d] = src[e] PROVE d = e
  <2>1. PICK a \in 0 .. s - 1, b \in 0 .. s - 1, r \in 0 .. c - 1, ih \in 0 .. IH - 1, iw \in 0 .. IW - 1 :
          d = <<Channel(s, c, r, a, b), ih, iw>>
    BY <1>7
  <2>2. PICK f \in 0 .. s - 1, g \in 0 .. s - 1, q \in 0 .. c - 1, jh \in 0 .. IH - 1, jw \in 0 .. IW - 1 :
          e = <<Channel(s, c, q, f, g), jh, jw>>
    BY <1>7
  <2>3. src[d] = Source(s, H, W, r, a, b, ih, iw) /\ src[e] = Source(s, H, W, q, f, g, jh, jw)
    BY <1>6, <2>1, <2>2
  <2>4. a = f /\ b = g /\ r = q /\ ih = jh /\ iw = jw
    <3>1. PICK y \in 0 .. H - 1, z \in 0 .. H - 1 : y = RowAt(ih, s, a) /\ z = RowAt(jh, s, f)
      <4>1. InRows(RowAt(ih, s, a), IH, s) /\ InRows(RowAt(jh, s, f), IH, s)
        BY RowBelow
      <4>2. RowAt(ih, s, a) \in 0 .. H - 1 /\ RowAt(jh, s, f) \in 0 .. H - 1
        BY <4>1 DEF Sizes, InRows
      <4> QED
        BY <4>2
    <3>2. PICK x \in 0 .. W - 1, v \in 0 .. W - 1 : x = RowAt(iw, s, b) /\ v = RowAt(jw, s, g)
      <4>1. InRows(RowAt(iw, s, b), IW, s) /\ InRows(RowAt(jw, s, g), IW, s)
        BY RowBelow
      <4>2. RowAt(iw, s, b) \in 0 .. W - 1 /\ RowAt(jw, s, g) \in 0 .. W - 1
        BY <4>1 DEF Sizes, InRows
      <4> QED
        BY <4>2
    <3>3. PICK i \in Int, j \in Int : i = RowAt(r, H, y) /\ j = RowAt(q, H, z)
      <4>1. H \in Int /\ y \in Int /\ z \in Int /\ r \in Int /\ q \in Int
        OBVIOUS
      <4>2. RowAt(r, H, y) \in Int /\ RowAt(q, H, z) \in Int
        BY <4>1, RowType
      <4> QED
        BY <4>2
    <3>4. i = j /\ x = v
      <4>1. RowAt(i, W, x) = RowAt(j, W, v)
        BY <1>10, <2>3, <3>1, <3>2, <3>3 DEF Source
      <4> QED
        BY <4>1, RowUnique
    <3>5. r = q /\ y = z
      <4>1. RowAt(r, H, y) = RowAt(q, H, z)
        BY <3>3, <3>4
      <4> QED
        BY <4>1, RowUnique
    <3>6. ih = jh /\ a = f
      <4>1. RowAt(ih, s, a) = RowAt(jh, s, f) /\ ih \in Int /\ jh \in Int
        BY <3>1, <3>5
      <4> QED
        BY <4>1, RowUnique
    <3>7. iw = jw /\ b = g
      <4>1. RowAt(iw, s, b) = RowAt(jw, s, g) /\ iw \in Int /\ jw \in Int
        BY <3>2, <3>4
      <4> QED
        BY <4>1, RowUnique
    <3> QED
      BY <3>5, <3>6, <3>7
  <2> QED
    BY <2>1, <2>2, <2>4
<1>11. {src[d] : d \in DOMAIN src} = 0 .. T - 1
  BY <1>8, <1>9
<1> QED
  BY <1>1, <1>4, <1>10, <1>11

-----------------------------------------------------------------------------
(* Resample *)

(* What Nearest divides, with the same factor in both dimensions *)
LEMMA NearestIs ==
  ASSUME NEW in \in Nat \ {0}, NEW on \in Nat \ {0}, NEW oi \in Nat \ {0}, NEW oo \in Nat \ {0},
         in * oo = oi * on, NEW o \in Nat
  PROVE  Nearest(o, in, on, oi, oo) = ((2 * o + 1) * in) \div (2 * on)
<1>1. PICK A \in Int, B \in Nat \ {0} : A = (2 * o + 1) * in /\ B = 2 * on
  OBVIOUS
<1>2. PICK q \in Int, r \in 0 .. B - 1 : q = A \div B /\ A = q * B + r
  BY DivMod
<1>3. PICK C \in Nat \ {0}, N \in Int : C = B * oo /\ N = A * oo
  OBVIOUS
<1>4. Nearest(o, in, on, oi, oo) = N \div C
  <2>1. 2 * o * in * oo + oi * on = N
    <3>1. PICK P \in Int : P = in * oo
      OBVIOUS
    <3>2. N = 2 * o * P + P
      BY <1>1, <1>3, <3>1
    <3>3. 2 * o * in * oo = 2 * o * P
      BY <3>1
    <3> QED
      BY <3>1, <3>2, <3>3
  <2>2. 2 * on * oo = C
    BY <1>1, <1>3
  <2> QED
    BY <2>1, <2>2 DEF Nearest
<1>5. N \in q * C .. (q + 1) * C - 1
  <2>1. A <= (q + 1) * B - 1 /\ q * B <= A /\ q * B \in Int /\ (q + 1) * B \in Int
    <3>1. (q + 1) * B = q * B + B /\ q * B \in Int
      OBVIOUS
    <3> QED
      BY <1>2, <3>1
  <2>2. q * B * oo <= A * oo /\ (A + 1) * oo <= (q + 1) * B * oo
    BY <2>1, FactorLess
  <2>3. q * B * oo = q * C /\ (q + 1) * B * oo = (q + 1) * C
    BY <1>3
  <2>4. (A + 1) * oo = A * oo + oo
    OBVIOUS
  <2>5. q * C \in Int /\ (q + 1) * C \in Int
    OBVIOUS
  <2> QED
    BY <1>3, <2>2, <2>3, <2>4, <2>5
<1>6. N \div C \in q .. q + 1 - 1
  BY <1>5, QuotientIn
<1> QED
  BY <1>1, <1>2, <1>4, <1>6

(* The place for o is within the input ... *)
LEMMA NearestWithin ==
  ASSUME NEW in \in Nat \ {0}, NEW on \in Nat \ {0}, NEW o \in 0 .. on - 1
  PROVE  ((2 * o + 1) * in) \div (2 * on) \in 0 .. in - 1
<1>1. PICK A \in Int, B \in Nat \ {0} : A = (2 * o + 1) * in /\ B = 2 * on
  OBVIOUS
<1>2. 0 <= A /\ A + 1 <= in * B
  <2>1. (2 * o + 1) * in <= (2 * on - 1) * in /\ 0 * in <= (2 * o + 1) * in
    BY FactorLess
  <2>2. (2 * on - 1) * in = in * B - in /\ 0 * in = 0 /\ in * B \in Int
    BY <1>1
  <2> QED
    BY <1>1, <2>1, <2>2
<1>3. A \in 0 * B .. in * B - 1
  <2>1. 0 * B = 0 /\ in * B \in Int
    OBVIOUS
  <2> QED
    BY <1>2, <2>1
<1>4. A \div B \in 0 .. in - 1
  BY <1>3, QuotientIn
<1> QED
  BY <1>1, <1>4

(* ... no other one is nearer ... *)
Distance(o, in, on, i) ==
  LET d == (2 * o + 1) * in - (2 * i + 1) * on IN IF d < 0 THEN -d ELSE d

LEMMA NearestBest ==
  ASSUME NEW in \in Nat \ {0}, NEW on \in Nat \ {0}, NEW o \in Nat, NEW i \in Int, NEW q \in Int,
         q = ((2 * o + 1) * in) \div (2 * on)
  PROVE  Distance(o, in, on, q) <= Distance(o, in, on, i)
<1>1. PICK A \in Int, B \in Nat \ {0} : A = (2 * o + 1) * in /\ B = 2 * on
  OBVIOUS
<1>2. PICK r \in 0 .. B - 1 : A = q * B + r
  <2>1. A \div B = q
    BY <1>1
  <2>2. A % B \in 0 .. B - 1 /\ A = (A \div B) * B + (A % B)
    BY DivMod
  <2> QED
    BY <2>1, <2>2
<1>3. PICK Q \in Int, I \in Int : Q = q * B /\ I = i * B
  OBVIOUS
<1>4. (2 * q + 1) * on = Q + on /\ (2 * i + 1) * on = I + on
  BY <1>1, <1>3
<1>5. PICK d \in Int, e \in Int : d = A - (Q + on) /\ e = A - (I + on)
  OBVIOUS
<1>6. /\ Distance(o, in, on, q) = IF d < 0 THEN -d ELSE d
      /\ Distance(o, in, on, i) = IF e < 0 THEN -e ELSE e
  BY <1>1, <1>4, <1>5 DEF Distance
<1>7. -on <= d /\ d < on
  BY <1>1, <1>2, <1>3, <1>5
<1>8. CASE i = q
  BY <1>3, <1>5, <1>6, <1>8
<1>9. CASE q + 1 <= i
  <2>1. (q + 1) * B <= i * B /\ (q + 1) * B = q * B + B
    BY <1>9, FactorLess
  <2>2. Q + 2 * on <= I
    BY <1>1, <1>3, <2>1
  <2>3. e <= d - 2 * on
    BY <1>5, <2>2
  <2> QED
    BY <1>6, <1>7, <2>3
<1>10. CASE i + 1 <= q
  <2>1. (i + 1) * B <= q * B /\ (i + 1) * B = i * B + B
    BY <1>10, FactorLess
  <2>2. I + 2 * on <= Q
    BY <1>1, <1>3, <2>1
  <2>3. e >= d + 2 * on
    BY <1>5, <2>2
  <2> QED
    BY <1>6, <1>7, <2>3
<1> QED
  BY <1>8, <1>9, <1>10

(* ... and a factor of two repeats every place once. *)
LEMMA NearestTwice ==
  ASSUME NEW in \in Nat \ {0}, NEW o \in Nat
  PROVE  ((2 * o + 1) * in) \div (2 * (2 * in)) = o \div 2
<1>1. PICK A \in Int, B \in Nat \ {0} : A = (2 * o + 1) * in /\ B = 2 * (2 * in)
  OBVIOUS
<1>2. PICK h \in Int, r \in 0 .. 1 : h = o \div 2 /\ o = h * 2 + r
  OBVIOUS
<1>3. PICK H \in Int : H = h * in
  OBVIOUS
<1>4. h * B = 4 * H /\ (h + 1) * B = 4 * H + 4 * in
  BY <1>1, <1>3
<1>5. A = 4 * H + (2 * r + 1) * in
  BY <1>1, <1>2, <1>3
<1>6. (2 * r + 1) * in \in 0 .. 4 * in - 1
  OBVIOUS
<1>7. A \in h * B .. (h + 1) * B - 1
  BY <1>4, <1>5, <1>6
<1>8. A \div B \in h .. h + 1 - 1
  BY <1>7, QuotientIn
<1> QED
  BY <1>1, <1>2, <1>8

(* The result of the layer. *)
LEMMA NearestDone ==
  ASSUME NEW IH \in Nat \ {0}, NEW IW \in Nat \ {0}, NEW OH \in Nat \ {0}, NEW OW \in Nat \ {0},
         IW * OH = IH * OW
  PROVE  /\ \A o \in 0 .. OW - 1 :
              /\ Nearest(o, IW, OW, IH, OH) \in 0 .. IW - 1
              /\ \A i \in 0 .. IW - 1 :
                   Distance(o, IW, OW, Nearest(o, IW, OW, IH, OH)) <= Distance(o, IW, OW, i)
         /\ \A o \in 0 .. OH - 1 : Nearest(o, IH, OH, IW, OW) \in 0 .. IH - 1
         /\ OW = 2 * IW =>
              \A o \in 0 .. OW - 1 : Nearest(o, IW, OW, IH, OH) = Upsample2x(o)
<1>1. ASSUME NEW o \in 0 .. OW - 1
      PROVE  /\ Nearest(o, IW, OW, IH, OH) \in 0 .. IW - 1
             /\ \A i \in 0 .. IW - 1 :
                  Distance(o, IW, OW, Nearest(o, IW, OW, IH, OH)) <= Distance(o, IW, OW, i)
             /\ OW = 2 * IW => Nearest(o, IW, OW, IH, OH) = Upsample2x(o)
  <2>1. o \in Nat /\ Nearest(o, IW, OW, IH, OH) = ((2 * o + 1) * IW) \div (2 * OW)
    BY NearestIs
  <2>2. ((2 * o + 1) * IW) \div (2 * OW) \in 0 .. IW - 1
    BY NearestWithin
  <2>3. PICK q \in Int : q = Nearest(o, IW, OW, IH, OH)
    BY <2>1, <2>2
  <2>4. q = ((2 * o + 1) * IW) \div (2 * OW)
    BY <2>1, <2>3
  <2>5. ASSUME NEW i \in 0 .. IW - 1 PROVE Distance(o, IW, OW, q) <= Distance(o, IW, OW, i)
    <3>1. o \in Nat /\ i \in Int
      OBVIOUS
    <3> QED
      BY <3>1, <2>4, NearestBest
  <2>6. OW = 2 * IW => q = Upsample2x(o)
    BY <2>1, <2>4, NearestTwice DEF Upsample2x
  <2> QED
    BY <2>1, <2>2, <2>3, <2>5, <2>6
<1>2. ASSUME NEW o \in 0 .. OH - 1 PROVE Nearest(o, IH, OH, IW, OW) \in 0 .. IH - 1
  <2>1. IH * OW = IW * OH /\ o \in Nat
    OBVIOUS
  <2>2. Nearest(o, IH, OH, IW, OW) = ((2 * o + 1) * IH) \div (2 * OH)
    BY <2>1, NearestIs
  <2>3. ((2 * o + 1) * IH) \div (2 * OH) \in 0 .. IH - 1
    BY NearestWithin
  <2> QED
    BY <2>2, <2>3
<1> QED
  BY <1>1, <1>2

-----------------------------------------------------------------------------
(* RegionYolo.  An element is in cell c of K of entry e of E of region n.   *)

RegionSizes(p, K, E) ==
  /\ K \in Nat \ {0} /\ E \in Nat \ {0}
  /\ p.IW \in Nat \ {0} /\ p.IH \in Nat \ {0} /\ p.num \in Nat \ {0}
  /\ p.coords \in Nat \ {0} /\ p.classes \in Nat
  /\ K = p.IH * p.IW /\ E = p.coords + 1 + p.classes

(* entry_index is the first cell of an entry of a region. *)
LEMMA EntryIndex ==
  ASSUME NEW p, NEW K, NEW E, RegionSizes(p, K, E), NEW n \in Int, NEW e \in Int
  PROVE  entry_index(p, n, e) = (n * E + e) * K
<1>1. PICK w \in Int, h \in Int, x \in Int, l \in Int : w = p.IW /\ h = p.IH /\ x = p.coords /\ l = p.classes
  BY DEF RegionSizes
<1>2. K = h * w /\ E = x + 1 + l /\ K \in Int /\ E \in Int
  BY <1>1 DEF RegionSizes
<1>3. entry_index(p, n, e) = n * w * h * (x + l + 1) + e * w * h
  BY <1>1 DEF entry_index
<1>4. n * w * h * (x + l + 1) = n * K * E /\ e * w * h = e * K
  BY <1>2
<1>5. n * K * E = n * E * K /\ (n * E + e) * K = n * E * K + e * K
  BY <1>2
<1> QED
  BY <1>3, <1>4, <1>5

(* The elements of entries a to b-1 of region n *)
LEMMA EntriesOf ==
  ASSUME NEW K \in Nat \ {0}, NEW E \in Nat \ {0}, NEW n \in Int, NEW a \in Nat, NEW b \in Nat, b <= E,
         NEW i \in Int
  PROVE  i \in (n * E + a) * K .. (n * E + b) * K - 1
           <=> (i \div K) \div E = n /\ (i \div K) % E \in a .. b - 1
<1>1. PICK u \in Int : u = i \div K
  BY DivMod
<1>2. n * E \in Int /\ n * E + a \in Int /\ n * E + b \in Int
  OBVIOUS
<1>3. i \in (n * E + a) * K .. (n * E + b) * K - 1 <=> i \div K \in n * E + a .. n * E + b - 1
  BY <1>2, QuotientIn
<1>4. u \in n * E + a .. n * E + b - 1 <=> u \div E = n /\ u % E \in a .. b - 1
  BY RemainderIn
<1> QED
  BY <1>1, <1>3, <1>4

(* The logistic function is applied to entries 0, 1 and coords of a region, *)
LEMMA LogisticDone ==
  ASSUME NEW p, NEW K, NEW E, RegionSizes(p, K, E), NEW i \in Int
  PROVE  i \in Logistic(p) <=> /\ (i \div K) \div E \in 0 .. p.num - 1
                                   /\ (i \div K) % E \in {0, 1, p.coords}
<1>1. PICK x \in Nat \ {0}, m \in Nat \ {0}, w \in Nat, h \in Nat :
         x = p.coords /\ m = p.num /\ w = p.IW /\ h = p.IH
  BY DEF RegionSizes
<1>2. /\ K \in Nat \ {0} /\ E \in Nat \ {0} /\ x + 1 <= E /\ 2 <= E /\ K = h * w
  BY <1>1 DEF RegionSizes
<1>3. ASSUME NEW n \in Int
      PROVE  /\ i \in entry_index(p, n, 0) .. entry_index(p, n, 0) + 2 * p.IW * p.IH - 1
                  <=> (i \div K) \div E = n /\ (i \div K) % E \in 0 .. 2 - 1
             /\ i \in entry_index(p, n, p.coords) .. entry_index(p, n, p.coords) + p.IW * p.IH - 1
                  <=> (i \div K) \div E = n /\ (i \div K) % E \in x .. x + 1 - 1
  <2>1. /\ entry_index(p, n, 0) = (n * E + 0) * K
        /\ entry_index(p, n, x) = (n * E + x) * K
    BY EntryIndex
  <2>2. PICK P \in Int : P = n * E
    BY <1>2
  <2>3. (P + 0) * K + 2 * w * h = (P + 2) * K /\ (P + x) * K + w * h = (P + (x + 1)) * K
    BY <1>2
  <2>4. PICK z \in Nat, t \in Nat : z = 0 /\ t = 2
    OBVIOUS
  <2>5. PICK f \in Int, g \in Int : f = (P + z) * K /\ g = (P + t) * K
    BY <1>2
  <2>6. i \in f .. g - 1 <=> (i \div K) \div E = n /\ (i \div K) % E \in z .. t - 1
    <3>1. t <= E
      BY <1>2, <2>4
    <3>2. i \in (n * E + z) * K .. (n * E + t) * K - 1
            <=> (i \div K) \div E = n /\ (i \div K) % E \in z .. t - 1
      BY <1>2, <3>1, EntriesOf
    <3> QED
      BY <2>2, <2>5, <3>2
  <2>7. entry_index(p, n, 0) = f /\ f + 2 * p.IW * p.IH = g
    BY <1>1, <2>1, <2>2, <2>3, <2>4, <2>5
  <2>8. PICK k \in Int, l \in Int : k = (P + x) * K /\ l = (P + (x + 1)) * K
    BY <1>2
  <2>9. i \in k .. l - 1 <=> (i \div K) \div E = n /\ (i \div K) % E \in x .. x + 1 - 1
    <3>1. x + 1 \in Nat /\ x \in Nat
      OBVIOUS
    <3>2. i \in (n * E + x) * K .. (n * E + (x + 1)) * K - 1
            <=> (i \div K) \div E = n /\ (i \div K) % E \in x .. x + 1 - 1
      BY <1>2, <3>1, EntriesOf
    <3> QED
      BY <2>2, <2>8, <3>2
  <2>10. entry_index(p, n, p.coords) = k /\ k + p.IW * p.IH = l
    BY <1>1, <2>1, <2>2, <2>3, <2>8
  <2>11. entry_index(p, n, 0) .. entry_index(p, n, 0) + 2 * p.IW * p.IH - 1 = f .. g - 1
    <3>1. PICK y \in Int : y = 2 * p.IW * p.IH
      BY <1>1
    <3>2. entry_index(p, n, 0) = f /\ f + y = g
      BY <2>7, <3>1, Zenon
    <3>3. f + y - 1 = g - 1
      BY <3>2
    <3> QED
      BY <3>1, <3>2, <3>3, Zenon
  <2>12. entry_index(p, n, p.coords) .. entry_index(p, n, p.coords) + p.IW * p.IH - 1 = k .. l - 1
    <3>1. PICK y \in Int : y = p.IW * p.IH
      BY <1>1
    <3>2. entry_index(p, n, p.coords) = k /\ k + y - 1 = l - 1
      BY <2>10, <3>1
    <3> QED
      BY <3>1, <3>2, Zenon
  <2> QED
    BY <2>4, <2>6, <2>9, <2>11, <2>12, Zenon
<1>4. i \in Logistic(p) <=>
        \E n \in 0 .. m - 1 :
          \/ i \in entry_index(p, n, 0) .. entry_index(p, n, 0) + 2 * p.IW * p.IH - 1
          \/ i \in entry_index(p, n, p.coords) .. entry_index(p, n, p.coords) + p.IW * p.IH - 1
  BY <1>1 DEF Logistic
<1>5. PICK u \in Int, v \in Int : u = (i \div K) \div E /\ v = (i \div K) % E
  <2>1. PICK j \in Int : j = i \div K
    BY <1>2, DivMod
  <2>2. j \div E \in Int /\ j % E \in 0 .. E - 1
    BY <1>2, DivMod
  <2> QED
    BY <2>1, <2>2
<1>6. v \in 0 .. 2 - 1 \/ v \in x .. x + 1 - 1 <=> v \in {0, 1, x}
  OBVIOUS
<1>7. i \in Logistic(p) <=> \E n \in 0 .. m - 1 : u = n /\ v \in {0, 1, x}
  BY <1>3, <1>4, <1>5, <1>6
<1> QED
  BY <1>1, <1>5, <1>7

(* and softmax to those behind. *)
LEMMA SoftmaxDone ==
  ASSUME NEW p, NEW K, NEW E, RegionSizes(p, K, E), NEW n \in Nat, NEW i \in Int
  PROVE  i \in Softmax(p, n) <=> (i \div K) \div E = n /\ (i \div K) % E > p.coords
<1>1. PICK x \in Nat \ {0}, m \in Nat \ {0}, w \in Nat, h \in Nat, l \in Nat :
         x = p.coords /\ m = p.num /\ w = p.IW /\ h = p.IH /\ l = p.classes
  BY DEF RegionSizes
<1>2. /\ K \in Nat \ {0} /\ E \in Nat \ {0} /\ E = x + 1 + l /\ K = h * w
  BY <1>1 DEF RegionSizes
<1>3. SoftmaxOffset(p) = K * E
  <2>1. PICK T \in Int : T = K * E
    BY <1>2
  <2>2. SoftmaxOffset(p) = (h * w * m * (l + x + 1)) \div m
    BY <1>1 DEF SoftmaxOffset
  <2>3. h * w * m * (l + x + 1) = K * m * E
    BY <1>2
  <2>4. K * m * E = T * m + 0
    BY <1>2, <2>1
  <2>5. (T * m + 0) \div m = T
    BY DivModOf
  <2> QED
    BY <2>1, <2>2, <2>3, <2>4, <2>5
<1>4. PICK f \in Int : f = (n * E + (x + 1)) * K
  BY <1>2
<1>5. entry_index(p, 0, p.coords + 1) + n * SoftmaxOffset(p) = f
  <2>1. entry_index(p, 0, x + 1) = (0 * E + (x + 1)) * K
    BY EntryIndex
  <2>2. (0 * E + (x + 1)) * K + n * (K * E) = (n * E + (x + 1)) * K
    BY <1>2
  <2> QED
    BY <1>1, <1>3, <1>4, <2>1, <2>2
<1>6. f + l * h * w = (n * E + E) * K
  <2>1. l * h * w = l * K
    BY <1>2
  <2>2. PICK P \in Int : P = n * E
    BY <1>2
  <2>3. (P + (x + 1)) * K + l * K = (P + E) * K
    BY <1>2
  <2> QED
    BY <1>4, <2>1, <2>2, <2>3
<1>7. i \in Softmax(p, n) <=> i \in (n * E + (x + 1)) * K .. (n * E + E) * K - 1
  BY <1>1, <1>4, <1>5, <1>6 DEF Softmax
<1>8. i \in (n * E + (x + 1)) * K .. (n * E + E) * K - 1
           <=> (i \div K) \div E = n /\ (i \div K) % E \in x + 1 .. E - 1
  <2>1. x + 1 \in Nat /\ E \in Nat /\ E <= E
    BY <1>2
  <2> QED
    BY <1>2, <2>1, EntriesOf
<1>9. (i \div K) % E \in 0 .. E - 1
  BY <1>2, DivMod
<1>10. (i \div K) % E \in x + 1 .. E - 1 <=> (i \div K) % E > x
  BY <1>2, <1>9
<1> QED
  BY <1>1, <1>7, <1>8, <1>10

(* The result of the layer *)
LEMMA RegionDone ==
  ASSUME NEW p, NEW K, NEW E, RegionSizes(p, K, E)
  PROVE  LET Entry(i) == (i \div K) % E
             all == 0 .. K * p.num * E - 1
         IN /\ Logistic(p) = {i \in all : Entry(i) \in {0, 1, p.coords}}
            /\ \A n \in 0 .. p.num - 1 :
                 Softmax(p, n) = {i \in all : Entry(i) > p.coords /\ i \div (K * E) = n}
<1>1. PICK m \in Nat \ {0} : m = p.num
  BY DEF RegionSizes
<1>2. K \in Nat \ {0} /\ E \in Nat \ {0}
  BY DEF RegionSizes
<1>3. ASSUME NEW i \in Int
      PROVE  i \in 0 .. K * m * E - 1 <=> (i \div K) \div E \in 0 .. m - 1
  <2>0. PICK j \in Int : j = i \div K
    BY <1>2, DivMod
  <2>1. PICK M \in Int : M = m * E
    BY <1>2
  <2>2. i \in 0 * K .. M * K - 1 <=> i \div K \in 0 .. M - 1
    BY <1>2, QuotientIn
  <2>3. j \in 0 * E .. m * E - 1 <=> j \div E \in 0 .. m - 1
    BY <1>2, QuotientIn
  <2>4. 0 * K = 0 /\ 0 * E = 0 /\ M * K = K * m * E
    BY <1>2, <2>1
  <2> QED
    BY <2>0, <2>1, <2>2, <2>3, <2>4
<1>4. ASSUME NEW i \in Int, NEW n \in Int
      PROVE  i \div (K * E) = n <=> (i \div K) \div E = n
  <2>0. PICK j \in Int : j = i \div K
    BY <1>2, DivMod
  <2>1. PICK T \in Nat \ {0} : T = K * E
    BY <1>2
  <2>2. i \in n * T .. (n + 1) * T - 1 <=> i \div T \in n .. n + 1 - 1
    BY QuotientIn
  <2>3. PICK a \in Int, b \in Int : a = n * E /\ b = (n + 1) * E
    BY <1>2
  <2>4. i \in a * K .. b * K - 1 <=> i \div K \in a .. b - 1
    BY <1>2, QuotientIn
  <2>5. j \in n * E .. (n + 1) * E - 1 <=> j \div E \in n .. n + 1 - 1
    BY <1>2, QuotientIn
  <2>6. n * T = a * K /\ (n + 1) * T = b * K
    BY <1>2, <2>1, <2>3
  <2>7. i \div T \in Int /\ j \div E \in Int
    BY <1>2, DivMod
  <2>8. i \div T \in n .. n + 1 - 1 <=> j \div E \in n .. n + 1 - 1
    BY <2>0, <2>2, <2>3, <2>4, <2>5, <2>6
  <2>9. i \div T = n <=> j \div E = n
    BY <2>7, <2>8
  <2> QED
    BY <2>0, <2>1, <2>9
<1>5. Logistic(p) \subseteq Int /\ \A n : Softmax(p, n) \subseteq Int
  BY DEF Logistic, Softmax
<1>6. Logistic(p) = {i \in 0 .. K * m * E - 1 : (i \div K) % E \in {0, 1, p.coords}}
  <2>1. ASSUME NEW i \in Int
        PROVE  i \in Logistic(p) <=> i \in 0 .. K * m * E - 1 /\ (i \div K) % E \in {0, 1, p.coords}
    <3>1. i \in Logistic(p) <=> /\ (i \div K) \div E \in 0 .. p.num - 1
                                    /\ (i \div K) % E \in {0, 1, p.coords}
      BY LogisticDone
    <3>2. i \in 0 .. K * m * E - 1 <=> (i \div K) \div E \in 0 .. m - 1
      BY <1>3
    <3> QED
      BY <1>1, <3>1, <3>2, Zenon
  <2>2. 0 .. K * m * E - 1 \subseteq Int
    BY <1>2
  <2> QED
    BY <1>5, <2>1, <2>2
<1>7. ASSUME NEW n \in 0 .. m - 1
      PROVE  Softmax(p, n) =
               {i \in 0 .. K * m * E - 1 : (i \div K) % E > p.coords /\ i \div (K * E) = n}
  <2>1. ASSUME NEW i \in Int
        PROVE  i \in Softmax(p, n) <=>
                 /\ i \in 0 .. K * m * E - 1
                 /\ (i \div K) % E > p.coords /\ i \div (K * E) = n
    <3>1. i \in Softmax(p, n) <=> (i \div K) \div E = n /\ (i \div K) % E > p.coords
      BY SoftmaxDone
    <3>2. i \in 0 .. K * m * E - 1 <=> (i \div K) \div E \in 0 .. m - 1
      BY <1>3
    <3>3. i \div (K * E) = n <=> (i \div K) \div E = n
      BY <1>4
    <3> QED
      BY <3>1, <3>2, <3>3, Zenon
  <2>2. 0 .. K * m * E - 1 \subseteq Int
    BY <1>2
  <2> QED
    BY <1>5, <2>1, <2>2
<1> QED
  BY <1>1, <1>6, <1>7

-----------------------------------------------------------------------------
(* The jobs of the three layers are what they were, and a result is that of *)
(* its layer.                                                               *)
PlaceInv ==
  /\ job.alg = "reorg" => job \in ReorgJobs
  /\ job.alg = "region" => job \in RegionJobs
  /\ job.alg = "nearest" => job \in NearestJobs
  /\ Done("reorg") => result.src = Moved(job.IC, job.IH, job.IW, job.stride)
  /\ Done("region") => /\ result.logistic = Logistic(job)
                       /\ result.softmax = [n \in 0 .. job.num - 1 |-> Softmax(job, n)]
  /\ Done("nearest") =>
       /\ result.x = [o \in 0 .. job.OW - 1 |-> Nearest(o, job.IW, job.OW, job.IH, job.OH)]
       /\ result.y = [o \in 0 .. job.OH - 1 |-> Nearest(o, job.IH, job.OH, job.IW, job.OW)]

(* Every step keeps this: a layer computes once. *)
LEMMA PlaceStep ==
  ASSUME PlaceInv, [AlgNext]_algVars
  PROVE  PlaceInv'
<1>1. CASE ReorgLayer
  BY <1>1 DEF ReorgLayer, Ready, PlaceInv, Done, Moved
<1>2. CASE RegionLayer
  BY <1>2 DEF RegionLayer, Ready, PlaceInv, Done
<1>3. CASE NearestLayer
  BY <1>3 DEF NearestLayer, Ready, PlaceInv, Done
<1>4. CASE ~ReorgLayer /\ ~RegionLayer /\ ~NearestLayer
  <2>1. \/ UNCHANGED <<job, result>>
        \/ job' = job /\ job.alg \notin {"reorg", "region", "nearest"}
    BY <1>4 DEF AlgNext, algVars, Ready, Execute, Read, SimplerNms, Proposal,
       ArgMaxLayer, CtcLayer, PoolLayer, PriorLayer, OpenStream, FeedStream, CopyFrame, CopyPlanes
  <2> QED
    BY <2>1 DEF PlaceInv, Done
<1> QED
  BY <1>1, <1>2, <1>3, <1>4

(* ReorgYolo moves every element of its input to one place of its output,   *)
(* RegionYolo transforms every element but width and height once, and the   *)
(* resampling kernel takes the nearest pixel, within the input: for every   *)
(* size of the tensors and every stride that divides the channels.          *)
THEOREM ElementsCorrect ==
  ASSUME Cells \in Nat
  PROVE  AlgSpec => []ElementsPlaced
<1>1. AlgInit => PlaceInv
  BY JobOfAlg DEF AlgInit, PlaceInv, Done, None
<1>2. PlaceInv => ReorgBijective
  <2> SUFFICES ASSUME PlaceInv, Done("reorg") PROVE ReorgBijective
    BY DEF ReorgBijective
  <2>1. PICK IC \in Nat \ {0}, IH \in Nat \ {0}, IW \in Nat \ {0}, s \in Nat \ {0} :
           /\ IC = job.IC /\ IH = job.IH /\ IW = job.IW /\ s = job.stride
           /\ IC % (s * s) = 0
    BY DEF PlaceInv, Done, ReorgJobs
  <2>2. PICK m, c, H, W : Sizes(IC, IH, IW, s, m, c, H, W)
    BY <2>1, SizesExist
  <2>3. m \in Nat \ {0} /\ c \in Nat \ {0} /\ H \in Nat \ {0} /\ W \in Nat \ {0}
    BY <2>2 DEF Sizes
  <2>4. /\ {Moved(IC, IH, IW, s)[d] : d \in DOMAIN Moved(IC, IH, IW, s)} = 0 .. IC * IH * IW - 1
        /\ \A d, e \in DOMAIN Moved(IC, IH, IW, s) :
             Moved(IC, IH, IW, s)[d] = Moved(IC, IH, IW, s)[e] => d = e
    BY <2>2, <2>3, ReorgMoves
  <2>5. result.src = Moved(IC, IH, IW, s)
    BY <2>1 DEF PlaceInv
  <2> QED
    BY <2>1, <2>4, <2>5 DEF ReorgBijective
<1>3. PlaceInv => RegionsDisjoint
  <2> SUFFICES ASSUME PlaceInv, Done("region") PROVE RegionsDisjoint
    BY DEF RegionsDisjoint
  <2>1. PICK K \in Nat \ {0}, E \in Nat \ {0} : K = job.IH * job.IW /\ E = job.coords + 1 + job.classes
    <3>1. PICK h \in Nat \ {0}, w \in Nat \ {0}, x \in Nat, l \in Nat :
             h = job.IH /\ w = job.IW /\ x = job.coords /\ l = job.classes
      BY DEF PlaceInv, Done, RegionJobs
    <3>2. h * w \in Nat \ {0} /\ x + 1 + l \in Nat \ {0}
      OBVIOUS
    <3> QED
      BY <3>1, <3>2
  <2>2. RegionSizes(job, K, E)
    BY <2>1 DEF PlaceInv, Done, RegionJobs, RegionSizes
  <2>3. /\ Logistic(job) = {i \in 0 .. K * job.num * E - 1 : (i \div K) % E \in {0, 1, job.coords}}
        /\ \A n \in 0 .. job.num - 1 :
             Softmax(job, n) = {i \in 0 .. K * job.num * E - 1 :
                                  (i \div K) % E > job.coords /\ i \div (K * E) = n}
    BY <2>2, RegionDone
  <2>4. result.logistic = Logistic(job) /\ result.softmax = [n \in 0 .. job.num - 1 |-> Softmax(job, n)]
    BY DEF PlaceInv
  <2> QED
    BY <2>1, <2>3, <2>4 DEF RegionsDisjoint
<1>4. PlaceInv => NearestAgrees
  <2> SUFFICES ASSUME PlaceInv, Done("nearest") PROVE NearestAgrees
    BY DEF NearestAgrees
  <2>1. PICK IH \in Nat \ {0}, IW \in Nat \ {0}, OH \in Nat \ {0}, OW \in Nat \ {0} :
           /\ IH = job.IH /\ IW = job.IW /\ OH = job.OH /\ OW = job.OW
           /\ IW * OH = IH * OW
    BY DEF PlaceInv, Done, NearestJobs
  <2>2. /\ \A o \in 0 .. OW - 1 :
              /\ Nearest(o, IW, OW, IH, OH) \in 0 .. IW - 1
              /\ \A i \in 0 .. IW - 1 :
                   Distance(o, IW, OW, Nearest(o, IW, OW, IH, OH)) <= Distance(o, IW, OW, i)
        /\ \A o \in 0 .. OH - 1 : Nearest(o, IH, OH, IW, OW) \in 0 .. IH - 1
        /\ OW = 2 * IW => \A o \in 0 .. OW - 1 : Nearest(o, IW, OW, IH, OH) = Upsample2x(o)
    <3>1. IW * OH = IH * OW
      BY <2>1
    <3> QED
      BY <3>1, NearestDone
  <2>3. /\ result.x = [o \in 0 .. OW - 1 |-> Nearest(o, IW, OW, IH, OH)]
        /\ result.y = [o \in 0 .. OH - 1 |-> Nearest(o, IH, OH, IW, OW)]
    BY <2>1 DEF PlaceInv
  <2>4. ASSUME NEW o \in DOMAIN result.x
        PROVE  /\ result.x[o] \in 0 .. IW - 1
               /\ \A i \in 0 .. IW - 1 : Distance(o, IW, OW, result.x[o]) <= Distance(o, IW, OW, i)
    BY <2>2, <2>3
  <2>5. \A o \in DOMAIN result.y : result.y[o] \in 0 .. IH - 1
    BY <2>2, <2>3
  <2>6. OW = 2 * IW => \A o \in DOMAIN result.x : result.x[o] = Upsample2x(o)
    BY <2>2, <2>3
  <2> QED
    BY <2>1, <2>4, <2>5, <2>6 DEF NearestAgrees, Distance
<1> QED
  BY <1>1, <1>2, <1>3, <1>4, PlaceStep, PTL DEF AlgSpec, ElementsPlaced

=============================================================================
