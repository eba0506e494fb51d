--------------------------- MODULE VaapiAllocator ---------------------------
(***************************************************************************)
(* The frame allocator of common_vaapi.cpp, which the Media SDK calls back *)
(* (mfxFrameAllocator.Alloc and .Free) and main calls directly.            *)
(*                                                                         *)
(* The surfaces of a decoder are allocated once by main and asked for      *)
(* again by the SDK when the decoder is initialised: the second request is *)
(* answered with the saved response of the session, under a reference      *)
(* count.  Responses for the VPP are kept in allocResponses, by their mids *)
(* pointer.                                                                *)
(*                                                                         *)
(* A response is its mids pointer and its number of frames; the pointers   *)
(* are numbered in the order of the allocations, 0 is NULL.                *)
(***************************************************************************)
EXTENDS Integers, FiniteSets

CONSTANTS Sessions,    \* pthis: the session an allocator belongs to
          MaxFrames,   \* bound: NumFrameSuggested
          MaxAllocs,   \* bound: allocations made
          MaxHolds     \* bound: times a response is held by its session

ASSUME AllocatorAssumption == /\ IsFiniteSet(Sessions)
                              /\ MaxFrames \in Nat \ {0}
                              /\ MaxAllocs \in Nat
                              /\ MaxHolds \in Nat \ {0}

Mids == 1 .. MaxAllocs
NULL == 0

VARIABLES allocResponses,        \* the keys of the map: mids of VPP responses
          allocDecodeResponses,  \* of each session: mids, NumFrameActual, refCount
          size,                  \* NumFrameActual of each response made
          live,                  \* the responses whose surfaces exist
          held                   \* how often each session holds each response

vars == <<allocResponses, allocDecodeResponses, size, live, held>>

(* What operator[] of the map inserts for a session it does not have. *)
NoResponse == [mids |-> NULL, NumFrameActual |-> 0, refCount |-> 0]

TypeOK == /\ allocResponses \subseteq Mids
          /\ allocDecodeResponses \in
               [Sessions -> [mids : Mids \cup {NULL},
                             NumFrameActual : 0 .. MaxFrames,
                             refCount : 0 .. MaxAllocs * MaxHolds]]
          /\ size \in [Mids -> 0 .. MaxFrames]
          /\ live \subseteq Mids
          /\ held \in [Sessions -> [Mids -> 0 .. MaxHolds]]

Init == /\ allocResponses = {}
        /\ allocDecodeResponses = [s \in Sessions |-> NoResponse]
        /\ size = [m \in Mids |-> 0]
        /\ live = {}
        /\ held = [s \in Sessions |-> [m \in Mids |-> 0]]

Hold(s, m) == held' = [held EXCEPT ![s][m] = @ + 1]

(* _simple_alloc makes the surfaces of a new response. *)
_simple_alloc(s, m, n) == /\ size[m] = 0
                          /\ \A k \in 1 .. m - 1 : size[k] # 0
                          /\ size' = [size EXCEPT ![m] = n]
                          /\ live' = live \cup {m}
                          /\ Hold(s, m)

(* The saved response of the session has enough frames for this request. *)
Saved(s, n) == /\ n <= allocDecodeResponses[s].NumFrameActual
               /\ allocDecodeResponses[s].NumFrameActual # 0

AllocSaved_uncounted(s, n) ==   \* refCount++ is forgotten
  /\ Saved(s, n)
  /\ held[s][allocDecodeResponses[s].mids] < MaxHolds
  /\ Hold(s, allocDecodeResponses[s].mids)
  /\ UNCHANGED <<allocDecodeResponses, allocResponses, size, live>>

(* simple_alloc of n decoder surfaces that the session has already: *)
AllocSaved(s, n) ==
  /\ Saved(s, n)
  /\ held[s][allocDecodeResponses[s].mids] < MaxHolds
  /\ allocDecodeResponses' = [allocDecodeResponses EXCEPT ![s].refCount = @ + 1]
  /\ Hold(s, allocDecodeResponses[s].mids)
  /\ UNCHANGED <<allocResponses, size, live>>

(* or has not, or not as many as n; *)
AllocDecode(s, n) ==
  /\ ~Saved(s, n)
  /\ \E m \in Mids :
       /\ _simple_alloc(s, m, n)
       /\ allocDecodeResponses' =
            [allocDecodeResponses EXCEPT
               ![s] = [mids |-> m, NumFrameActual |-> n, refCount |-> @.refCount + 1]]
  /\ UNCHANGED allocResponses

(* simple_alloc of n surfaces for the VPP. *)
AllocVPP(s, n) ==
  /\ \E m \in Mids : _simple_alloc(s, m, n) /\ allocResponses' = allocResponses \cup {m}
  /\ UNCHANGED allocDecodeResponses

(* What _simple_free releases, given the saved response r of the session:   *)
(* it compares the response with r, decrements the reference count and      *)
(* releases the surfaces when that makes it zero.                           *)
Frees(m, r) == IF m = r.mids /\ r.refCount - 1 = 0 THEN {m} ELSE {}

FreeDecode_each(s, m) ==   \* the surfaces go with any holder, not with the last
  /\ held[s][m] > 0 /\ m \notin allocResponses
  /\ held' = [held EXCEPT ![s][m] = @ - 1]
  /\ live' = live \ {m}
  /\ allocDecodeResponses' = [allocDecodeResponses EXCEPT ![s].refCount = @ - 1]
  /\ UNCHANGED <<allocResponses, size>>

(* simple_free of a response that is not in allocResponses. *)
FreeDecode(s, m) ==
  LET r == [allocDecodeResponses[s] EXCEPT !.refCount = @ - 1]
  IN  /\ held[s][m] > 0 /\ m \notin allocResponses
      /\ held' = [held EXCEPT ![s][m] = @ - 1]
      /\ IF r.refCount = 0
           THEN /\ live' = live \ Frees(m, r)
                /\ allocDecodeResponses' = [allocDecodeResponses EXCEPT ![s] = NoResponse]
           ELSE /\ allocDecodeResponses' = [allocDecodeResponses EXCEPT ![s] = r]
                /\ UNCHANGED live
      /\ UNCHANGED <<allocResponses, size>>

(* simple_free of one that is: the entry is erased, and _simple_free finds  *)
(* it different from the saved response.                                    *)
FreeVPP(s, m) ==
  /\ held[s][m] > 0 /\ m \in allocResponses
  /\ held' = [held EXCEPT ![s][m] = @ - 1]
  /\ allocResponses' = allocResponses \ {m}
  /\ live' = live \ Frees(m, allocDecodeResponses[s])
  /\ UNCHANGED <<allocDecodeResponses, size>>

Next == \E s \in Sessions :
          \/ \E n \in 1 .. MaxFrames : AllocSaved(s, n) \/ AllocDecode(s, n) \/ AllocVPP(s, n)
          \/ \E m \in Mids : FreeDecode(s, m) \/ FreeVPP(s, m)

Spec == Init /\ [][Next]_vars

-----------------------------------------------------------------------------
(* One pair for each time the session holds a decoder response. *)
DecodeHolds(s) ==
  {h \in (Mids \ allocResponses) \X (1 .. MaxHolds) : h[2] <= held[s][h[1]]}

(* refCount counts the holders of all decoder responses of the session,     *)
(* replaced ones included, so that the entry is erased with the last one.   *)
RefCountExact ==
  /\ TypeOK
  /\ \A s \in Sessions :
       allocDecodeResponses[s].refCount = Cardinality(DecodeHolds(s))

(* simple_alloc hands the surfaces of a saved response to several holders,  *)
(* and simple_free is called by each: surfaces that somebody still holds    *)
(* are not destroyed.                                                       *)
HeldLive == \A s \in Sessions, m \in Mids : held[s][m] > 0 => m \in live
=============================================================================
