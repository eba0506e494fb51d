--------------------------- MODULE TrackerProofs ---------------------------
(***************************************************************************)
(* Proofs about Tracker, the build with KCF tracking, for any number of    *)
(* surfaces, buffers, slots and references and any batch size: KCF         *)
(* trackers are initialised before they are updated, on every channel;     *)
(* with one channel, the lock counts of the surfaces that decoder, SDK,    *)
(* VPP and tracker share protect what is in use and, unless an update was  *)
(* overwritten, nothing else; regions are those of the key frame that is   *)
(* followed; and batches that fit into the tracker's pipe are filled.      *)
(***************************************************************************)
EXTENDS Tracker, QueueFacts

-----------------------------------------------------------------------------
(* Types, without the bounds of the counters, which follow from the counts. *)

MainTypes ==
  /\ main \in {"create", "sem_track", "sem_task", "run"} /\ started \in 0 .. NumChannels
  /\ sched \in {"none", "wait", "load"} /\ schedCh \in Channels
  /\ raced \in BOOLEAN /\ skipped \in BOOLEAN /\ lost \in BOOLEAN

DecTypes ==
  /\ dec \in [Channels -> {"none", "decode", "kcf", "lock", "vpp", "sync"}]
  /\ cur \in [Channels -> Surfaces \cup {Own}] /\ rd \in [Channels -> Int]
  /\ idx \in [Channels -> Slots] /\ bNeedMore \in [Channels -> BOOLEAN]
  /\ vppIn \in [Channels -> [Slots -> Surfaces \cup {Own}]]
  /\ nFrame \in [Channels -> Frames] /\ nDecoded \in [Channels -> Frames]

SurfTypes ==
  /\ Locked \in [Channels -> [Surfaces -> Int]]
  /\ sdkref \in [Channels -> SUBSET Surfaces]

TrkTypes ==
  /\ kcf \in [Channels -> Seq(Stored)] /\ gNewTrackTaskAvaiable \in [Channels -> Nat]
  /\ trk \in [Channels -> {"none", "wait", "lost", "load", "detect", "update",
                           "unlock", "put"}]
  /\ held \in [Channels -> Stored \cup {Null}] /\ trd \in [Channels -> Int]

RoiTypes ==
  /\ nCurTrackObjects \in [Channels -> 0 .. MAX_NUM_TRACK_OBJECT]
  /\ skiptrack \in [Channels -> BOOLEAN]
  /\ inited \in [Channels -> 0 .. MAX_NUM_TRACK_OBJECT]
  /\ roi \in [Channels -> Channels \X Frames]

InferTypes ==
  /\ infer \in [Channels -> Seq(Frames)]
  /\ \A c \in Channels : Len(infer[c]) <= InferBuffers
  /\ gNewtaskAvaiable \in Nat
  /\ imgs \in Seq(Channels \X Frames) /\ Len(imgs) < BatchSize
  /\ gDetectResultque \in [Channels -> Seq(Channels \X Frames)]
  /\ gDetectResultAvaiable \in [Channels -> Nat]

(* What a thread holds where. *)
Hands ==
  \A c \in Channels :
    /\ dec[c] \in {"kcf", "lock", "vpp", "sync"} => cur[c] \in Surfaces
    /\ TrackerHolds(c) => held[c] \in Stored

(* The order in which main starts the threads. *)
Begun ==
  /\ main = "create" => /\ started < NumChannels
                        /\ \A c \in Channels : c >= started => dec[c] = "none" /\ trk[c] = "none"
  /\ main # "run" => sched = "none"
  /\ sched = "none" => \A c \in Channels : gDetectResultAvaiable[c] = 0

Types == /\ MainTypes /\ DecTypes /\ SurfTypes /\ TrkTypes /\ RoiTypes /\ InferTypes
         /\ Hands /\ Begun

(* The constants' assumption, in the form the leaves use. *)
LEMMA Sizes ==
  /\ NumChannels \in Nat \ {0} /\ KeyInterval \in Nat \ {0} /\ KcfBuffers \in Nat \ {0}
  /\ InferBuffers \in Nat \ {0} /\ BatchSize \in Nat \ {0} /\ NumDecSurf \in Nat \ {0}
  /\ NumVppIn \in Nat \ {0} /\ MAX_NUM_TRACK_OBJECT \in Nat \ {0} /\ Labels \in Nat \ {0}
  /\ Labels % KeyInterval = 0
  /\ 0 \in Channels /\ 0 \in Frames /\ 1 \in Slots /\ Own \notin Surfaces
  /\ \A n \in Frames : (n + 1) % Labels \in Frames
  /\ \A n \in Frames : (n + Labels - 1) % Labels \in Frames
<1>1. /\ NumChannels \in Nat \ {0} /\ KeyInterval \in Nat \ {0} /\ KcfBuffers \in Nat \ {0}
      /\ InferBuffers \in Nat \ {0} /\ BatchSize \in Nat \ {0} /\ NumDecSurf \in Nat \ {0}
      /\ NumVppIn \in Nat \ {0} /\ MAX_NUM_TRACK_OBJECT \in Nat \ {0} /\ Labels \in Nat \ {0}
      /\ Labels % KeyInterval = 0
  BY TrackerAssumption
<1>2. 0 \in Channels /\ 0 \in Frames /\ 1 \in Slots /\ Own \notin Surfaces
  BY <1>1 DEF Channels, Frames, Slots, Own, Surfaces
<1>3. \A n \in Frames : (n + 1) % Labels \in Frames
  BY <1>1 DEF Frames
<1>4. \A n \in Frames : (n + Labels - 1) % Labels \in Frames
  BY <1>1 DEF Frames
<1> QED
  BY <1>1, <1>2, <1>3, <1>4

(* The types hold when the program starts. *)
LEMMA TypesInit == Init => Types
<1> SUFFICES ASSUME Init PROVE Types
  OBVIOUS
<1>1. MainTypes
  <2>1. /\ main = "create" /\ started = 0 /\ sched = "none" /\ schedCh = 0
        /\ raced = FALSE /\ skipped = FALSE /\ lost = FALSE
    BY DEF Init
  <2>2. 0 \in 0 .. NumChannels
    BY Sizes
  <2> QED
    BY <2>1, <2>2, Sizes DEF MainTypes
<1>2. DecTypes
  BY Sizes DEF Init, DecTypes
<1>3. SurfTypes
  BY DEF Init, SurfTypes
<1>4. TrkTypes
  <2>1. << >> \in Seq(Stored) /\ 0 \in Nat /\ 0 \in Int
    OBVIOUS
  <2> QED
    BY <2>1 DEF Init, TrkTypes
<1>5. RoiTypes
  BY Sizes DEF Init, RoiTypes
<1>6. InferTypes
  <2>1. /\ << >> \in Seq(Frames) /\ << >> \in Seq(Channels \X Frames) /\ Len(<< >>) = 0
        /\ 0 \in Nat
    OBVIOUS
  <2> QED
    BY <2>1, Sizes DEF Init, InferTypes
<1>7. Hands
  BY DEF Init, Hands, TrackerHolds
<1>8. Begun
  BY Sizes DEF Init, Begun
<1> QED
  BY <1>1, <1>2, <1>3, <1>4, <1>5, <1>6, <1>7, <1>8 DEF Types

(* GetFreeSurfaceIndex finds a free entry. *)
LEMMA FreeIndex ==
  ASSUME NEW F \in SUBSET Nat, F # {}
  PROVE  GetFreeSurfaceIndex(F) \in F
<1>1. \E i \in F : \A j \in F : i <= j
  BY LeastNumber
<1> QED
  BY <1>1 DEF GetFreeSurfaceIndex

(* A decoder that can decode has a surface and a slot. *)
LEMMA Free ==
  ASSUME DecTypes, NEW c \in Channels, CanDecode(c)
  PROVE  /\ SlotFor(c) \in Slots
         /\ GetFreeSurfaceIndex(FreeSurfaces(c)) \in Surfaces
         /\ Locked[c][GetFreeSurfaceIndex(FreeSurfaces(c))] = 0
<1>1. FreeSurfaces(c) \in SUBSET Nat /\ FreeSlots(c) \in SUBSET Nat
  BY Sizes DEF FreeSurfaces, FreeSlots, Surfaces, Slots
<1>2. GetFreeSurfaceIndex(FreeSurfaces(c)) \in FreeSurfaces(c)
  BY <1>1, FreeIndex DEF CanDecode
<1>3. ~bNeedMore[c] => GetFreeSurfaceIndex(FreeSlots(c)) \in FreeSlots(c)
  BY <1>1, FreeIndex DEF CanDecode
<1>4. SlotFor(c) \in Slots
  BY <1>3 DEF SlotFor, FreeSlots, DecTypes
<1> QED
  BY <1>2, <1>4 DEF FreeSurfaces

(* The steps of main, the scheduler and the decoders' flags. *)
LEMMA MainTypesStep == Types /\ [Next]_vars => MainTypes'
<1> SUFFICES ASSUME Types, [Next]_vars PROVE MainTypes'
  OBVIOUS
<1>a. /\ main \in {"create", "sem_track", "sem_task", "run"} /\ started \in 0 .. NumChannels
      /\ sched \in {"none", "wait", "load"} /\ schedCh \in Channels
  BY DEF Types, MainTypes
<1>b. raced \in BOOLEAN /\ skipped \in BOOLEAN /\ lost \in BOOLEAN
  BY DEF Types, MainTypes
<1>1. raced' \in BOOLEAN /\ skipped' \in BOOLEAN /\ lost' \in BOOLEAN
  <2>1. ASSUME NEW c \in Channels, DecStoreKcf(c) PROVE raced' \in BOOLEAN
    BY <2>1 DEF DecStoreKcf
  <2>2. ASSUME NEW c \in Channels, TrkPut(c) PROVE raced' \in BOOLEAN
    BY <2>2 DEF TrkPut
  <2>3. raced' \in BOOLEAN
    BY ZenonT(60), <1>b, <2>1, <2>2
       DEF Next, DecStep, DecMore, DecFrame, DecGetKcf, DecVpp, DecSync, DecVppMore, SdkRelease,
           TrkStep, TrkWait, TrkLoad, TrkDetect, TrkUpdate, SchedWait, SchedLoad, MainStep,
           MainCreate, MainSemTrack, MainSemTask, vars, surfVars
  <2>4. skipped' \in BOOLEAN
    BY ZenonT(60), <1>b
       DEF Next, DecStep, DecMore, DecFrame, DecGetKcf, DecStoreKcf, DecVpp, DecSync, DecVppMore,
           SdkRelease, TrkStep, TrkWait, TrkLoad, TrkDetect, TrkUpdate, TrkPut, SchedWait,
           SchedLoad, MainStep, MainCreate, MainSemTrack, MainSemTask, vars, decVars
  <2>5. MainSemTrack \/ MainSemTask => lost' \in BOOLEAN
    BY DEF MainSemTrack, MainSemTask
  <2>6. lost' \in BOOLEAN
    BY ZenonT(60), <1>b, <2>5
       DEF Next, DecStep, DecMore, DecFrame, DecGetKcf, DecStoreKcf, DecVpp, DecSync, DecVppMore,
           SdkRelease, TrkStep, TrkWait, TrkLoad, TrkDetect, TrkUpdate, TrkPut, SchedWait,
           SchedLoad, MainStep, MainCreate, vars, mainVars
  <2> QED
    BY <2>3, <2>4, <2>6
<1>2. CASE SchedWait
  BY <1>2, <1>a, <1>1, Sizes DEF SchedWait, mainVars, MainTypes
<1>3. CASE SchedLoad
  <2>1. schedCh < NumChannels - 1 => schedCh + 1 \in Channels
    BY <1>a, Sizes DEF Channels
  <2>2. sched' \in {"none", "wait", "load"} /\ schedCh' \in Channels
    BY <1>3, <2>1, Sizes DEF SchedLoad
  <2> QED
    BY <1>3, <2>2, <1>a, <1>1 DEF SchedLoad, mainVars, MainTypes
<1>4. CASE MainCreate
  <2>1. started + 1 \in 0 .. NumChannels
    BY <1>4, <1>a, Sizes DEF MainCreate, Types, Begun
  <2> QED
    BY <1>4, <2>1, <1>a, <1>1 DEF MainCreate, schedVars, MainTypes
<1>5. CASE MainSemTrack
  BY <1>5, <1>a, <1>1 DEF MainSemTrack, schedVars, MainTypes
<1>6. CASE MainSemTask
  BY <1>6, <1>a, <1>1 DEF MainSemTask, MainTypes
<1>7. CASE \/ \E c \in Channels : DecStep(c) \/ DecVppMore(c) \/ SdkRelease(c) \/ TrkStep(c)
           \/ UNCHANGED vars
  <2>1. UNCHANGED <<main, started, sched, schedCh>>
    BY ZenonT(60), <1>7 DEF DecStep, DecMore, DecFrame, DecGetKcf, DecStoreKcf, DecVpp, DecSync,
              DecVppMore, SdkRelease, TrkStep, TrkWait, TrkLoad, TrkDetect, TrkUpdate, TrkPut,
              vars, schedVars, mainVars
  <2> QED
    BY <2>1, <1>a, <1>1 DEF MainTypes
<1> QED
  BY <1>2, <1>3, <1>4, <1>5, <1>6, <1>7 DEF Next, MainStep

(* The steps of the decoders. *)
LEMMA DecTypesStep == Types /\ [Next]_vars => DecTypes'
<1> SUFFICES ASSUME Types, [Next]_vars PROVE DecTypes'
  OBVIOUS
<1>a. DecTypes
  BY DEF Types
<1>b. \A n \in Frames : (n + 1) % Labels \in Frames
  BY Sizes
<1>1. ASSUME NEW c \in Channels, DecMore(c) PROVE DecTypes'
  <2>1. SlotFor(c) \in Slots
    BY <1>1, <1>a, Free DEF DecMore
  <2> QED
    BY <1>1, <2>1, <1>a DEF DecMore, DecTypes
<1>2. ASSUME NEW c \in Channels, DecFrame(c) PROVE DecTypes'
  <2>1. SlotFor(c) \in Slots /\ GetFreeSurfaceIndex(FreeSurfaces(c)) \in Surfaces
    BY <1>2, <1>a, Free DEF DecFrame
  <2>2. cur' \in [Channels -> Surfaces \cup {Own}]
        /\ vppIn' \in [Channels -> [Slots -> Surfaces \cup {Own}]]
    BY <1>2, <2>1, <1>a DEF DecFrame, DecTypes
  <2>3. nDecoded' \in [Channels -> Frames]
    BY <1>2, <1>a, <1>b DEF DecFrame, DecTypes
  <2>4. idx' \in [Channels -> Slots] /\ bNeedMore' \in [Channels -> BOOLEAN]
    BY <1>2, <1>a, Sizes DEF DecFrame, DecTypes
  <2>5. dec' \in [Channels -> {"none", "decode", "kcf", "lock", "vpp", "sync"}]
        /\ UNCHANGED <<rd, nFrame>>
    BY <1>2, <1>a DEF DecFrame, DecGoto, DecTypes
  <2> QED
    BY <2>2, <2>3, <2>4, <2>5, <1>a DEF DecTypes
<1>3. ASSUME NEW c \in Channels, DecGetKcf(c) PROVE DecTypes'
  <2>1. cur[c] \in Surfaces
    BY <1>3 DEF DecGetKcf, Types, Hands
  <2>2. Locked[c][cur[c]] \in Int
    BY <2>1 DEF Types, SurfTypes
  <2> QED
    BY <1>3, <2>2, <1>a DEF DecGetKcf, DecGoto, DecTypes, slotVars
<1>4. ASSUME NEW c \in Channels, DecStoreKcf(c) PROVE DecTypes'
  <2>1. dec' \in [Channels -> {"none", "decode", "kcf", "lock", "vpp", "sync"}]
        /\ cur' \in [Channels -> Surfaces \cup {Own}] /\ rd' \in [Channels -> Int]
    <3>1. \/ DecGoto(c, "vpp") /\ cur' = cur
          \/ DecGoto(c, "decode") /\ Forget(c)
      BY <1>4 DEF DecStoreKcf
    <3>2. rd' = [rd EXCEPT ![c] = 0]
      BY <1>4 DEF DecStoreKcf
    <3> QED
      BY SMTT(60), <3>1, <3>2, <1>a DEF DecGoto, Forget, DecTypes
  <2>2. nFrame' \in [Channels -> Frames]
    <3>1. nFrame' = nFrame \/ NextFrame(c)
      BY <1>4 DEF DecStoreKcf
    <3> QED
      BY SMTT(60), <3>1, <1>a, <1>b DEF NextFrame, DecTypes
  <2> QED
    BY <1>4, <2>1, <2>2, <1>a DEF DecStoreKcf, DecTypes, slotVars
<1>5. ASSUME NEW c \in Channels, DecVpp(c) \/ DecVppMore(c) \/ DecSync(c) PROVE DecTypes'
  <2>1. dec' \in [Channels -> {"none", "decode", "kcf", "lock", "vpp", "sync"}]
        /\ cur' \in [Channels -> Surfaces \cup {Own}]
    BY <1>5, <1>a DEF DecVpp, DecVppMore, DecSync, DecGoto, Forget, DecTypes
  <2>2. nFrame' \in [Channels -> Frames]
    BY <1>5, <1>a, <1>b DEF DecVpp, DecVppMore, DecSync, NextFrame, DecTypes
  <2> QED
    BY <1>5, <2>1, <2>2, <1>a DEF DecVpp, DecVppMore, DecSync, DecTypes, slotVars
<1>6. CASE MainCreate
  BY <1>6, <1>a DEF MainCreate, DecGoto, DecTypes, slotVars
<1>7. CASE \/ \E c \in Channels : SdkRelease(c) \/ TrkStep(c)
           \/ SchedWait \/ SchedLoad \/ MainSemTrack \/ MainSemTask \/ UNCHANGED vars
  <2>1. UNCHANGED <<dec, cur, rd, idx, bNeedMore, vppIn, nFrame, nDecoded>>
    BY <1>7 DEF SdkRelease, TrkStep, TrkWait, TrkLoad, TrkDetect, TrkUpdate, TrkPut,
                SchedWait, SchedLoad, MainSemTrack, MainSemTask, vars, decVars, slotVars
  <2> QED
    BY <2>1, <1>a DEF DecTypes
<1> QED
  BY <1>1, <1>2, <1>3, <1>4, <1>5, <1>6, <1>7 DEF Next, DecStep, MainStep

(* The steps that write Data.Locked. *)
LEMMA SurfTypesStep == Types /\ [Next]_vars => SurfTypes'
<1> SUFFICES ASSUME Types, [Next]_vars PROVE SurfTypes'
  OBVIOUS
<1>a. SurfTypes /\ DecTypes /\ TrkTypes
  BY DEF Types
<1>1. ASSUME NEW c \in Channels, DecFrame(c) PROVE SurfTypes'
  <2>1. GetFreeSurfaceIndex(FreeSurfaces(c)) \in Surfaces
    BY <1>1, <1>a, Free DEF DecFrame
  <2> QED
    BY <1>1, <2>1, <1>a DEF DecFrame, SurfTypes
<1>2. ASSUME NEW c \in Channels, DecStoreKcf(c) PROVE SurfTypes'
  <2>1. rd[c] + 1 \in Int
    BY <1>a DEF DecTypes
  <2> QED
    BY <1>2, <2>1, <1>a DEF DecStoreKcf, SurfTypes
<1>3. ASSUME NEW c \in Channels, DecVpp(c) \/ DecSync(c) PROVE SurfTypes'
  <2>1. cur[c] \in Surfaces
    BY <1>3 DEF DecVpp, DecSync, Types, Hands
  <2>2. Locked[c][cur[c]] \in Int
    BY <2>1, <1>a DEF SurfTypes
  <2>3. Locked[c][cur[c]] + 1 \in Int /\ Locked[c][cur[c]] - 1 \in Int
    BY <2>2
  <2>4. \E v \in Int : Locked' = [Locked EXCEPT ![c][cur[c]] = v]
    BY <1>3, <2>3 DEF DecVpp, DecSync
  <2>5. PICK v \in Int : Locked' = [Locked EXCEPT ![c][cur[c]] = v]
    BY <2>4
  <2>6. sdkref' = sdkref
    BY <1>3 DEF DecVpp, DecSync
  <2> QED
    BY <2>5, <2>6, <1>a DEF SurfTypes
<1>4. ASSUME NEW c \in Channels, SdkRelease(c) PROVE SurfTypes'
  <2>1. PICK s \in sdkref[c] : /\ sdkref' = [sdkref EXCEPT ![c] = @ \ {s}]
                               /\ Locked' = [Locked EXCEPT ![c][s] = @ - 1]
    BY <1>4 DEF SdkRelease
  <2>2. s \in Surfaces
    BY <1>a DEF SurfTypes
  <2>3. Locked[c][s] - 1 \in Int
    BY <2>2, <1>a DEF SurfTypes
  <2> QED
    BY <2>1, <2>3, <1>a DEF SurfTypes
<1>5. ASSUME NEW c \in Channels, TrkPut(c) PROVE SurfTypes'
  <2>1. trd[c] - 1 \in Int
    BY <1>a DEF TrkTypes
  <2> QED
    BY <1>5, <2>1, <1>a DEF TrkPut, SurfTypes
<1>6. CASE \/ \E c \in Channels : \/ DecMore(c) \/ DecGetKcf(c) \/ DecVppMore(c) \/ TrkWait(c)
                                  \/ TrkLoad(c) \/ TrkDetect(c) \/ TrkUpdate(c)
           \/ SchedWait \/ SchedLoad \/ MainStep \/ UNCHANGED vars
  <2>1. UNCHANGED <<Locked, sdkref>>
    BY <1>6 DEF DecMore, DecGetKcf, DecVppMore, TrkWait, TrkLoad, TrkDetect, TrkUpdate,
                SchedWait, SchedLoad, MainStep, MainCreate, MainSemTrack, MainSemTask, vars,
                surfVars
  <2> QED
    BY <2>1, <1>a DEF SurfTypes
<1> QED
  BY <1>1, <1>2, <1>3, <1>4, <1>5, <1>6 DEF Next, DecStep, TrkStep

(* The frame a decoder stores for its tracker. *)
LEMMA NewFrame ==
  ASSUME Types, NEW c \in Channels, dec[c] = "lock"
  PROVE  /\ cur[c] \in Surfaces
         /\ [frame |-> FrameOf(c), key |-> IsKey(c), surf |-> cur[c]] \in Stored
<1>1. cur[c] \in Surfaces
  BY DEF Types, Hands
<1>2. nDecoded[c] \in Frames
  BY DEF Types, DecTypes
<1>3. FrameOf(c) \in Frames /\ IsKey(c) \in BOOLEAN
  BY <1>2, Sizes DEF FrameOf, IsKey
<1> QED
  BY <1>1, <1>3 DEF Stored

(* The steps of the trackers and on their pipes. *)
LEMMA TrkTypesStep == Types /\ [Next]_vars => TrkTypes'
<1> SUFFICES ASSUME Types, [Next]_vars PROVE TrkTypes'
  OBVIOUS
<1>a. /\ kcf \in [Channels -> Seq(Stored)] /\ gNewTrackTaskAvaiable \in [Channels -> Nat]
      /\ trk \in [Channels -> {"none", "wait", "lost", "load", "detect", "update",
                               "unlock", "put"}]
      /\ held \in [Channels -> Stored \cup {Null}] /\ trd \in [Channels -> Int]
  BY DEF Types, TrkTypes
<1>1. ASSUME NEW c \in Channels, DecStoreKcf(c) PROVE TrkTypes'
  <2> DEFINE e == [frame |-> FrameOf(c), key |-> IsKey(c), surf |-> cur[c]]
  <2>1. e \in Stored
    BY <1>1, NewFrame DEF DecStoreKcf
  <2>2. kcf' = [kcf EXCEPT ![c] = Append(@, e)]
    BY <1>1 DEF DecStoreKcf
  <2> HIDE DEF e
  <2>3. kcf' \in [Channels -> Seq(Stored)]
    BY <2>1, <2>2, <1>a
  <2>4. gNewTrackTaskAvaiable' \in [Channels -> Nat]
    BY <1>1, <1>a DEF DecStoreKcf
  <2>5. UNCHANGED <<trk, held, trd>>
    BY <1>1 DEF DecStoreKcf, trkVars
  <2> QED
    BY <2>3, <2>4, <2>5, <1>a DEF TrkTypes
<1>2. ASSUME NEW c \in Channels, TrkWait(c) PROVE TrkTypes'
  BY <1>2, <1>a DEF TrkWait, TrkGoto, TrkTypes
<1>3. ASSUME NEW c \in Channels, TrkLoad(c) PROVE TrkTypes'
  <2>1. Head(kcf[c]) \in Stored /\ Tail(kcf[c]) \in Seq(Stored)
    BY <1>3, <1>a, PopHead DEF TrkLoad
  <2>2. kcf' \in [Channels -> Seq(Stored)] /\ held' \in [Channels -> Stored \cup {Null}]
    BY <1>3, <2>1, <1>a DEF TrkLoad
  <2>3. trk' \in [Channels -> {"none", "wait", "lost", "load", "detect", "update",
                               "unlock", "put"}]
    BY <1>3, <1>a DEF TrkLoad, TrkGoto
  <2> QED
    BY <1>3, <2>2, <2>3, <1>a DEF TrkLoad, TrkTypes
<1>4. ASSUME NEW c \in Channels, TrkDetect(c) PROVE TrkTypes'
  BY <1>4, <1>a DEF TrkDetect, TrkGoto, TrkTypes, kcfVars
<1>5. ASSUME NEW c \in Channels, TrkUpdate(c) PROVE TrkTypes'
  <2>1. held[c] \in Stored
    BY <1>5 DEF TrkUpdate, Types, Hands, TrackerHolds
  <2>2. held[c].surf \in Surfaces
    BY <2>1 DEF Stored
  <2>3. Locked[c][held[c].surf] \in Int
    BY <2>2 DEF Types, SurfTypes
  <2> QED
    BY <1>5, <2>3, <1>a DEF TrkUpdate, TrkGoto, TrkTypes, kcfVars
<1>6. ASSUME NEW c \in Channels, TrkPut(c) PROVE TrkTypes'
  BY <1>6, <1>a DEF TrkPut, TrkGoto, TrkTypes, kcfVars
<1>7. CASE MainCreate
  BY <1>7, <1>a DEF MainCreate, TrkGoto, TrkTypes, kcfVars
<1>8. CASE MainSemTrack
  <2>1. gNewTrackTaskAvaiable' \in [Channels -> Nat]
    BY <1>8 DEF MainSemTrack
  <2>2. trk' \in [Channels -> {"none", "wait", "lost", "load", "detect", "update",
                               "unlock", "put"}]
    BY <1>8, <1>a DEF MainSemTrack
  <2> QED
    BY <1>8, <2>1, <2>2, <1>a DEF MainSemTrack, TrkTypes
<1>9. CASE \/ \E c \in Channels : \/ DecMore(c) \/ DecFrame(c) \/ DecGetKcf(c) \/ DecVpp(c)
                                  \/ DecSync(c) \/ DecVppMore(c) \/ SdkRelease(c)
           \/ SchedWait \/ SchedLoad \/ MainSemTask \/ UNCHANGED vars
  <2>1. UNCHANGED <<kcf, gNewTrackTaskAvaiable, trk, held, trd>>
    BY <1>9 DEF DecMore, DecFrame, DecGetKcf, DecVpp, DecSync, DecVppMore, SdkRelease, SchedWait,
                SchedLoad, MainSemTask, vars, kcfVars, trkVars
  <2> QED
    BY <2>1, <1>a DEF TrkTypes
<1> QED
  BY <1>1, <1>2, <1>3, <1>4, <1>5, <1>6, <1>7, <1>8, <1>9 DEF Next, DecStep, TrkStep, MainStep

(* What a detection does to the regions. *)
LEMMA Detected ==
  ASSUME Types, NEW c \in Channels, TrkDetect(c), gDetectResultque[c] # << >>
  PROVE  \E n \in 0 .. MAX_NUM_TRACK_OBJECT :
           /\ nCurTrackObjects' = [nCurTrackObjects EXCEPT ![c] = n]
           /\ skiptrack' = [skiptrack EXCEPT ![c] = (n = 0)]
           /\ inited' = [inited EXCEPT ![c] = Greatest(inited[c], n)]
           /\ Greatest(inited[c], n) \in 0 .. MAX_NUM_TRACK_OBJECT
           /\ Greatest(inited[c], n) >= n
<1>0. inited \in [Channels -> 0 .. MAX_NUM_TRACK_OBJECT]
  BY DEF Types, RoiTypes
<1>1. PICK boxs \in 0 .. MAX_NUM_TRACK_OBJECT + 1 :
        LET n == Least(boxs, MAX_NUM_TRACK_OBJECT)
        IN /\ nCurTrackObjects' = [nCurTrackObjects EXCEPT ![c] = n]
           /\ skiptrack' = [skiptrack EXCEPT ![c] = (n = 0)]
           /\ inited' = [inited EXCEPT ![c] = Greatest(@, n)]
  BY DEF TrkDetect
<1>2. PICK n : n = Least(boxs, MAX_NUM_TRACK_OBJECT)
  OBVIOUS
<1>3. n \in 0 .. MAX_NUM_TRACK_OBJECT
  BY <1>2, Sizes DEF Least
<1>4. PICK m \in 0 .. MAX_NUM_TRACK_OBJECT : m = inited[c]
  BY <1>0
<1>5. Greatest(m, n) \in 0 .. MAX_NUM_TRACK_OBJECT /\ Greatest(m, n) >= n
  BY <1>3, Sizes DEF Greatest
<1>6. /\ nCurTrackObjects' = [nCurTrackObjects EXCEPT ![c] = n]
      /\ skiptrack' = [skiptrack EXCEPT ![c] = (n = 0)]
      /\ inited' = [inited EXCEPT ![c] = Greatest(inited[c], n)]
  BY <1>1, <1>2
<1> QED
  BY <1>3, <1>4, <1>5, <1>6

(* A step of a tracker on its regions. *)
LEMMA RoiTypesStep == Types /\ [Next]_vars => RoiTypes'
<1> SUFFICES ASSUME Types, [Next]_vars PROVE RoiTypes'
  OBVIOUS
<1>a. RoiTypes
  BY DEF Types
<1>1. ASSUME NEW c \in Channels, TrkDetect(c), gDetectResultque[c] # << >> PROVE RoiTypes'
  <2>1. Head(gDetectResultque[c]) \in Channels \X Frames
    BY <1>1, PopHead DEF Types, InferTypes
  <2>2. roi' = [roi EXCEPT ![c] = Head(gDetectResultque[c])]
    BY <1>1 DEF TrkDetect
  <2>3. roi' \in [Channels -> Channels \X Frames]
    BY <2>1, <2>2, <1>a DEF RoiTypes
  <2>4. /\ nCurTrackObjects' \in [Channels -> 0 .. MAX_NUM_TRACK_OBJECT]
        /\ skiptrack' \in [Channels -> BOOLEAN]
        /\ inited' \in [Channels -> 0 .. MAX_NUM_TRACK_OBJECT]
    <3>1. PICK n \in 0 .. MAX_NUM_TRACK_OBJECT :
            /\ nCurTrackObjects' = [nCurTrackObjects EXCEPT ![c] = n]
            /\ skiptrack' = [skiptrack EXCEPT ![c] = (n = 0)]
            /\ inited' = [inited EXCEPT ![c] = Greatest(inited[c], n)]
            /\ Greatest(inited[c], n) \in 0 .. MAX_NUM_TRACK_OBJECT
      BY <1>1, Detected
    <3>2. nCurTrackObjects' \in [Channels -> 0 .. MAX_NUM_TRACK_OBJECT]
      BY <3>1, <1>a DEF RoiTypes
    <3>3. inited' \in [Channels -> 0 .. MAX_NUM_TRACK_OBJECT]
      BY <3>1, <1>a DEF RoiTypes
    <3>4. skiptrack' \in [Channels -> BOOLEAN]
      BY <3>1, <1>a DEF RoiTypes
    <3> QED
      BY <3>2, <3>3, <3>4
  <2> QED
    BY <2>3, <2>4 DEF RoiTypes
<1>2. ASSUME NEW c \in Channels, TrkDetect(c), gDetectResultque[c] = << >>
      PROVE  UNCHANGED roiVars
  BY <1>2 DEF TrkDetect
<1>3. CASE \/ \E c \in Channels : \/ DecStep(c) \/ DecVppMore(c) \/ SdkRelease(c) \/ TrkWait(c)
                                  \/ TrkLoad(c) \/ TrkUpdate(c) \/ TrkPut(c)
           \/ SchedWait \/ SchedLoad \/ MainStep \/ UNCHANGED vars
  BY <1>3, <1>a
     DEF DecStep, DecMore, DecFrame, DecGetKcf, DecStoreKcf, DecVpp, DecSync, DecVppMore,
         SdkRelease, TrkWait, TrkLoad, TrkUpdate, TrkPut, SchedWait, SchedLoad, MainStep,
         MainCreate, MainSemTrack, MainSemTask, vars, trkVars, roiVars, RoiTypes
<1>4. UNCHANGED roiVars => RoiTypes'
  BY <1>a DEF roiVars, RoiTypes
<1> QED
  BY <1>1, <1>2, <1>3, <1>4 DEF Next, TrkStep

(* What the scheduler does to its batch: an image joins it, and a full one  *)
(* goes to the tracker.                                                     *)
LEMMA Batched ==
  ASSUME Types, SchedLoad
  PROVE  \E b \in Seq(Channels \X Frames) :
           /\ Len(b) = Len(imgs) + 1 /\ Len(imgs) \in Nat
           /\ b = Append(imgs, <<schedCh, Head(infer[schedCh])>>)
           /\ \/ Len(b) < BatchSize /\ imgs' = b /\ UNCHANGED detVars
              \/ /\ Len(b) = BatchSize /\ imgs' = << >>
                 /\ gDetectResultque' = [gDetectResultque EXCEPT ![0] = @ \o b]
                 /\ gDetectResultAvaiable' = [gDetectResultAvaiable EXCEPT ![0] = @ + BatchSize]
<1>1. schedCh \in Channels /\ infer[schedCh] \in Seq(Frames) /\ infer[schedCh] # << >>
  BY DEF Types, MainTypes, InferTypes, SchedLoad
<1>2. Head(infer[schedCh]) \in Frames
  BY <1>1, PopHead
<1>3. imgs \in Seq(Channels \X Frames) /\ Len(imgs) < BatchSize
  BY DEF Types, InferTypes
<1>4. PICK x \in Channels \X Frames : x = <<schedCh, Head(infer[schedCh])>>
  BY <1>1, <1>2
<1>5. PICK b : b = Append(imgs, x)
  OBVIOUS
<1>6. b \in Seq(Channels \X Frames) /\ Len(b) = Len(imgs) + 1 /\ Len(imgs) \in Nat
  BY <1>3, <1>5, PushTail
<1>7. Len(b) < BatchSize \/ Len(b) = BatchSize
  BY <1>3, <1>6, Sizes
<1>8. \/ Len(b) < BatchSize /\ imgs' = b /\ UNCHANGED detVars
      \/ /\ ~(Len(b) < BatchSize) /\ imgs' = << >>
         /\ gDetectResultque' = [gDetectResultque EXCEPT ![0] = @ \o b]
         /\ gDetectResultAvaiable' = [gDetectResultAvaiable EXCEPT ![0] = @ + BatchSize]
  BY <1>4, <1>5 DEF SchedLoad, ChannelId
<1> QED
  BY <1>4, <1>5, <1>6, <1>7, <1>8

(* The steps on the scheduler's pipes and on the detections. *)
LEMMA InferTypesStep == Types /\ [Next]_vars => InferTypes'
<1> SUFFICES ASSUME Types, [Next]_vars PROVE InferTypes'
  OBVIOUS
<1>a. /\ infer \in [Channels -> Seq(Frames)]
      /\ \A c \in Channels : Len(infer[c]) <= InferBuffers
  BY DEF Types, InferTypes
<1>b. gNewtaskAvaiable \in Nat
  BY DEF Types, InferTypes
<1>c. /\ imgs \in Seq(Channels \X Frames) /\ Len(imgs) < BatchSize
      /\ gDetectResultque \in [Channels -> Seq(Channels \X Frames)]
      /\ gDetectResultAvaiable \in [Channels -> Nat]
  BY DEF Types, InferTypes
<1>1. ASSUME NEW c \in Channels, DecSync(c) PROVE InferTypes'
  <2>1. FrameOf(c) \in Frames
    BY Sizes DEF Types, DecTypes, FrameOf
  <2>2. Append(infer[c], FrameOf(c)) \in Seq(Frames)
        /\ Len(Append(infer[c], FrameOf(c))) = Len(infer[c]) + 1 /\ Len(infer[c]) \in Nat
    BY <2>1, <1>a, PushTail
  <2>3. Len(infer[c]) < InferBuffers /\ infer' = [infer EXCEPT ![c] = Append(@, FrameOf(c))]
        /\ gNewtaskAvaiable' = gNewtaskAvaiable + 1
    BY <1>1 DEF DecSync
  <2>4. infer' \in [Channels -> Seq(Frames)] /\ \A d \in Channels : Len(infer'[d]) <= InferBuffers
    <3>1. infer' \in [Channels -> Seq(Frames)] /\ infer'[c] = Append(infer[c], FrameOf(c))
          /\ \A d \in Channels : d # c => infer'[d] = infer[d]
      BY <2>2, <2>3, <1>a
    <3>2. Len(infer'[c]) <= InferBuffers
      BY <3>1, <2>2, <2>3, Sizes
    <3> QED
      BY <3>1, <3>2, <1>a
  <2>5. gNewtaskAvaiable' \in Nat
    BY <2>3, <1>b
  <2>6. UNCHANGED <<imgs, gDetectResultque, gDetectResultAvaiable>>
    BY <1>1 DEF DecSync, schedVars, detVars
  <2> QED
    BY <2>4, <2>5, <2>6, <1>c DEF InferTypes
<1>2. ASSUME NEW c \in Channels, TrkDetect(c) PROVE InferTypes'
  <2>1. gDetectResultAvaiable' = [gDetectResultAvaiable EXCEPT ![c] = @ - 1]
        /\ gDetectResultAvaiable[c] > 0
    BY <1>2 DEF TrkDetect
  <2>2. gDetectResultAvaiable' \in [Channels -> Nat]
    BY <2>1, <1>c
  <2>3. gDetectResultque' \in [Channels -> Seq(Channels \X Frames)]
    <3>1. CASE gDetectResultque[c] = << >>
      BY <3>1, <1>2, <1>c DEF TrkDetect
    <3>2. CASE gDetectResultque[c] # << >>
      <4>1. Tail(gDetectResultque[c]) \in Seq(Channels \X Frames)
        BY <3>2, <1>c, PopHead
      <4>2. gDetectResultque' = [gDetectResultque EXCEPT ![c] = Tail(@)]
        BY <3>2, <1>2 DEF TrkDetect
      <4> QED
        BY <4>1, <4>2, <1>c
    <3> QED
      BY <3>1, <3>2
  <2>4. UNCHANGED <<infer, gNewtaskAvaiable, imgs>>
    BY <1>2 DEF TrkDetect, inferVars, schedVars
  <2> QED
    BY <2>2, <2>3, <2>4, <1>a, <1>b, <1>c DEF InferTypes
<1>3. CASE SchedWait
  <2>1. gNewtaskAvaiable' \in Nat
    <3>1. gNewtaskAvaiable > 0 /\ gNewtaskAvaiable' = gNewtaskAvaiable - 1
      BY <1>3 DEF SchedWait
    <3> QED
      BY <3>1, <1>b
  <2>2. UNCHANGED <<infer, imgs, gDetectResultque, gDetectResultAvaiable>>
    BY <1>3 DEF SchedWait, detVars
  <2> QED
    BY <2>1, <2>2, <1>a, <1>c DEF InferTypes
<1>4. CASE SchedLoad
  <2>1. schedCh \in Channels /\ infer[schedCh] # << >>
        /\ infer' = [infer EXCEPT ![schedCh] = Tail(@)] /\ gNewtaskAvaiable' = gNewtaskAvaiable
    BY <1>4 DEF SchedLoad, Types, MainTypes
  <2>2. Tail(infer[schedCh]) \in Seq(Frames) /\ Len(infer[schedCh]) \in Nat
        /\ Len(Tail(infer[schedCh])) = Len(infer[schedCh]) - 1
    BY <2>1, <1>a, PopHead
  <2>3. infer' \in [Channels -> Seq(Frames)] /\ \A d \in Channels : Len(infer'[d]) <= InferBuffers
    <3>1. infer' \in [Channels -> Seq(Frames)] /\ infer'[schedCh] = Tail(infer[schedCh])
          /\ \A d \in Channels : d # schedCh => infer'[d] = infer[d]
      BY <2>1, <2>2, <1>a
    <3>2. Len(infer'[schedCh]) <= InferBuffers
      BY <3>1, <2>1, <2>2, <1>a, Sizes
    <3> QED
      BY <3>1, <3>2, <1>a
  <2>4. PICK b \in Seq(Channels \X Frames) :
          \/ Len(b) < BatchSize /\ imgs' = b /\ UNCHANGED detVars
          \/ /\ Len(b) = BatchSize /\ imgs' = << >>
             /\ gDetectResultque' = [gDetectResultque EXCEPT ![0] = @ \o b]
             /\ gDetectResultAvaiable' = [gDetectResultAvaiable EXCEPT ![0] = @ + BatchSize]
    BY <1>4, Batched
  <2>5. imgs' \in Seq(Channels \X Frames) /\ Len(imgs') < BatchSize
    <3>1. << >> \in Seq(Channels \X Frames) /\ Len(<< >>) = 0 /\ 0 < BatchSize
      BY Sizes, EmptySeq
    <3> QED
      BY <2>4, <3>1
  <2>6. gDetectResultque' \in [Channels -> Seq(Channels \X Frames)]
    <3>1. gDetectResultque[0] \o b \in Seq(Channels \X Frames)
      BY <1>c, Sizes, ConcatProperties
    <3> QED
      BY <2>4, <3>1, <1>c DEF detVars
  <2>7. gDetectResultAvaiable' \in [Channels -> Nat]
    <3>1. gDetectResultAvaiable[0] + BatchSize \in Nat
      BY <1>c, Sizes
    <3> QED
      BY <2>4, <3>1, <1>c DEF detVars
  <2> QED
    BY <2>1, <2>3, <2>5, <2>6, <2>7, <1>b DEF InferTypes
<1>5. CASE MainSemTrack
  <2>1. gDetectResultAvaiable' \in [Channels -> Nat]
        /\ UNCHANGED <<infer, gNewtaskAvaiable, imgs, gDetectResultque>>
    BY <1>5 DEF MainSemTrack, inferVars, schedVars
  <2> QED
    BY <2>1, <1>a, <1>b, <1>c DEF InferTypes
<1>6. CASE MainSemTask
  <2>1. gNewtaskAvaiable' = 0
        /\ UNCHANGED <<infer, imgs, gDetectResultque, gDetectResultAvaiable>>
    BY <1>6 DEF MainSemTask, detVars
  <2> QED
    BY <2>1, <1>a, <1>c DEF InferTypes
<1>7. CASE \/ \E c \in Channels : \/ DecMore(c) \/ DecFrame(c) \/ DecGetKcf(c) \/ DecStoreKcf(c)
                                  \/ DecVpp(c) \/ DecVppMore(c) \/ SdkRelease(c) \/ TrkWait(c)
                                  \/ TrkLoad(c) \/ TrkUpdate(c) \/ TrkPut(c)
           \/ MainCreate \/ UNCHANGED vars
  <2>1. UNCHANGED <<infer, gNewtaskAvaiable, imgs, gDetectResultque, gDetectResultAvaiable>>
    BY <1>7 DEF DecMore, DecFrame, DecGetKcf, DecStoreKcf, DecVpp, DecVppMore, SdkRelease,
                TrkWait, TrkLoad, TrkUpdate, TrkPut, MainCreate, vars, inferVars, schedVars, detVars
  <2> QED
    BY <2>1, <1>a, <1>b, <1>c DEF InferTypes
<1> QED
  BY <1>1, <1>2, <1>3, <1>4, <1>5, <1>6, <1>7 DEF Next, DecStep, TrkStep, MainStep

(* What a thread holds follows its program counter. *)
LEMMA HandsStep == Types /\ [Next]_vars => Hands'
<1> SUFFICES ASSUME Types, [Next]_vars, NEW e \in Channels
             PROVE  /\ dec'[e] \in {"kcf", "lock", "vpp", "sync"} => cur'[e] \in Surfaces
                    /\ trk'[e] \in {"detect", "update", "unlock", "put"} => held'[e] \in Stored
  BY DEF Hands, TrackerHolds
<1>a. /\ dec \in [Channels -> {"none", "decode", "kcf", "lock", "vpp", "sync"}]
      /\ cur \in [Channels -> Surfaces \cup {Own}]
      /\ trk \in [Channels -> {"none", "wait", "lost", "load", "detect", "update",
                               "unlock", "put"}]
      /\ held \in [Channels -> Stored \cup {Null}]
  BY DEF Types, DecTypes, TrkTypes
<1>b. /\ dec[e] \in {"kcf", "lock", "vpp", "sync"} => cur[e] \in Surfaces
      /\ trk[e] \in {"detect", "update", "unlock", "put"} => held[e] \in Stored
  BY DEF Types, Hands, TrackerHolds
<1>1. ASSUME NEW c \in Channels, DecFrame(c)
      PROVE  dec'[e] \in {"kcf", "lock", "vpp", "sync"} => cur'[e] \in Surfaces
  <2>1. GetFreeSurfaceIndex(FreeSurfaces(c)) \in Surfaces
    BY <1>1, Free DEF DecFrame, Types
  <2> QED
    BY <1>1, <2>1, <1>a, <1>b DEF DecFrame, DecGoto
<1>2. ASSUME NEW c \in Channels, DecStoreKcf(c)
      PROVE  dec'[e] \in {"kcf", "lock", "vpp", "sync"} => cur'[e] \in Surfaces
  <2>1. \/ DecGoto(c, "vpp") /\ cur' = cur
        \/ DecGoto(c, "decode") /\ Forget(c)
    BY <1>2 DEF DecStoreKcf
  <2>2. dec[c] = "lock"
    BY <1>2 DEF DecStoreKcf
  <2> QED
    BY <2>1, <2>2, <1>a, <1>b DEF DecGoto, Forget
<1>3. ASSUME NEW c \in Channels, DecMore(c) \/ DecGetKcf(c) \/ DecVpp(c) \/ DecSync(c) \/ DecVppMore(c)
      PROVE  dec'[e] \in {"kcf", "lock", "vpp", "sync"} => cur'[e] \in Surfaces
  BY <1>3, <1>a, <1>b DEF DecMore, DecGetKcf, DecVpp, DecSync, DecVppMore, DecGoto, Forget
<1>4. ASSUME NEW c \in Channels, DecStep(c) \/ DecVppMore(c) \/ SdkRelease(c)
      PROVE  UNCHANGED <<trk, held>>
  BY <1>4 DEF DecStep, DecMore, DecFrame, DecGetKcf, DecStoreKcf, DecVpp, DecSync, DecVppMore,
              SdkRelease, trkVars
<1>5. ASSUME NEW c \in Channels, SdkRelease(c) \/ TrkStep(c) PROVE UNCHANGED <<dec, cur>>
  BY <1>5 DEF SdkRelease, TrkStep, TrkWait, TrkLoad, TrkDetect, TrkUpdate, TrkPut, decVars
<1>6. ASSUME NEW c \in Channels, TrkStep(c)
      PROVE  trk'[e] \in {"detect", "update", "unlock", "put"} => held'[e] \in Stored
  <2>1. CASE TrkLoad(c)
    <3>1. Head(kcf[c]) \in Stored
      BY <2>1, PopHead DEF TrkLoad, Types, TrkTypes
    <3> QED
      BY <2>1, <3>1, <1>a, <1>b DEF TrkLoad, TrkGoto
  <2>2. CASE TrkWait(c) \/ TrkDetect(c) \/ TrkUpdate(c) \/ TrkPut(c)
    BY <2>2, <1>a, <1>b DEF TrkWait, TrkDetect, TrkUpdate, TrkPut, TrkGoto
  <2> QED
    BY <1>6, <2>1, <2>2 DEF TrkStep
<1>7. CASE MainCreate
  BY <1>7, <1>a, <1>b DEF MainCreate, DecGoto, TrkGoto
<1>8. CASE MainSemTrack
  <2>1. /\ trk'[e] \in {"lost", trk[e]} /\ UNCHANGED <<dec, cur, held>>
    BY <1>8, <1>a DEF MainSemTrack, decVars
  <2> QED
    BY <2>1, <1>b
<1>9. CASE SchedWait \/ SchedLoad \/ MainSemTask \/ UNCHANGED vars
  <2>1. UNCHANGED <<dec, cur, trk, held>>
    BY <1>9 DEF SchedWait, SchedLoad, MainSemTask, vars, decVars, trkVars
  <2> QED
    BY <2>1, <1>b
<1> QED
  BY <1>1, <1>2, <1>3, <1>4, <1>5, <1>6, <1>7, <1>8, <1>9, <1>b DEF Next, DecStep, MainStep

(* main creates the threads of a channel once, before the scheduler. *)
LEMMA BegunStep == Types /\ [Next]_vars => Begun'
<1> SUFFICES ASSUME Types, [Next]_vars PROVE Begun'
  OBVIOUS
<1>a. Begun /\ MainTypes
  BY DEF Types
<1>b. gDetectResultAvaiable \in [Channels -> Nat] /\ Channels \subseteq Nat
  BY Sizes DEF Types, InferTypes, Channels
<1>c. /\ dec \in [Channels -> {"none", "decode", "kcf", "lock", "vpp", "sync"}]
      /\ trk \in [Channels -> {"none", "wait", "lost", "load", "detect", "update",
                               "unlock", "put"}]
  BY DEF Types, DecTypes, TrkTypes
<1>1. ASSUME NEW c \in Channels, DecStep(c) \/ DecVppMore(c) \/ SdkRelease(c) PROVE Begun'
  <2>1. \A d \in Channels : dec[d] = "none" => dec'[d] = "none"
    BY <1>1, <1>c DEF DecStep, DecMore, DecFrame, DecGetKcf, DecStoreKcf, DecVpp, DecSync,
                DecVppMore, SdkRelease, decVars, DecGoto
  <2>2. UNCHANGED <<main, started, sched, trk, gDetectResultAvaiable>>
    BY <1>1 DEF DecStep, DecMore, DecFrame, DecGetKcf, DecStoreKcf, DecVpp, DecSync,
                DecVppMore, SdkRelease, mainVars, schedVars, trkVars, detVars
  <2> QED
    BY <2>1, <2>2, <1>a DEF Begun
<1>2. ASSUME NEW c \in Channels, TrkStep(c) PROVE Begun'
  <2>1. \A d \in Channels : trk[d] = "none" => trk'[d] = "none"
    BY <1>2, <1>c DEF TrkStep, TrkWait, TrkLoad, TrkDetect, TrkUpdate, TrkPut, TrkGoto
  <2>2. UNCHANGED <<main, started, sched, dec>>
    BY <1>2 DEF TrkStep, TrkWait, TrkLoad, TrkDetect, TrkUpdate, TrkPut, mainVars, schedVars, decVars
  <2>3. sched = "none" => \A d \in Channels : gDetectResultAvaiable'[d] = 0
    <3>1. TrkDetect(c) => sched # "none"
      BY <1>a DEF TrkDetect, Begun
    <3>2. ~TrkDetect(c) => UNCHANGED gDetectResultAvaiable
      BY <1>2 DEF TrkStep, TrkWait, TrkLoad, TrkUpdate, TrkPut, detVars
    <3> QED
      BY <3>1, <3>2, <1>a DEF Begun
  <2> QED
    BY <2>1, <2>2, <2>3, <1>a DEF Begun
<1>3. CASE SchedWait \/ SchedLoad
  <2>1. sched # "none" /\ sched' # "none" /\ UNCHANGED <<main, started, dec, trk>>
    BY <1>3 DEF SchedWait, SchedLoad, mainVars, decVars, trkVars
  <2> QED
    BY <2>1, <1>a DEF Begun
<1>4. CASE MainCreate
  <2>1. started \in Channels /\ started + 1 \in Nat
    BY <1>4, <1>a, Sizes DEF MainCreate, Begun, MainTypes, Channels
  <2>2. \A c \in Channels : c >= started + 1 => c >= started /\ c # started
    BY <2>1, <1>b
  <2>3. /\ started' = started + 1
        /\ main' = (IF started + 1 = NumChannels THEN "sem_track" ELSE "create")
        /\ main = "create" /\ UNCHANGED <<sched, gDetectResultAvaiable>>
    BY <1>4 DEF MainCreate, schedVars, detVars
  <2>4. started + 1 # NumChannels => started + 1 < NumChannels
    BY <2>1, Sizes DEF Channels
  <2>5. \A c \in Channels : c # started => dec'[c] = dec[c] /\ trk'[c] = trk[c]
    BY <1>4, <1>c DEF MainCreate, DecGoto, TrkGoto
  <2> QED
    BY <2>1, <2>2, <2>3, <2>4, <2>5, <1>a DEF Begun
<1>5. CASE MainSemTrack
  <2>1. main' = "sem_task" /\ main = "sem_track" /\ sched' = sched
        /\ \A c \in Channels : gDetectResultAvaiable'[c] = 0
    BY <1>5 DEF MainSemTrack, schedVars
  <2> QED
    BY <2>1, <1>a DEF Begun
<1>6. CASE MainSemTask
  <2>1. main' = "run" /\ sched' = "wait"
    BY <1>6 DEF MainSemTask
  <2> QED
    BY <2>1 DEF Begun
<1>7. CASE UNCHANGED vars
  <2>1. UNCHANGED <<main, started, sched, dec, trk, gDetectResultAvaiable>>
    BY <1>7 DEF vars, mainVars, schedVars, decVars, trkVars, detVars
  <2> QED
    BY <2>1, <1>a DEF Begun
<1> QED
  BY <1>1, <1>2, <1>3, <1>4, <1>5, <1>6, <1>7 DEF Next, MainStep

(* The types are inductive. *)
LEMMA TypesStep == Types /\ [Next]_vars => Types'
  BY MainTypesStep, DecTypesStep, SurfTypesStep, TrkTypesStep, RoiTypesStep, InferTypesStep,
     HandsStep, BegunStep DEF Types

-----------------------------------------------------------------------------
(* Trackers are initialised before they are updated. *)

Trained(c) == skiptrack[c] \/ nCurTrackObjects[c] <= inited[c]

(* A tracker without a first detection is before its first frame, which is  *)
(* a key frame, or waits for the detection of that frame; and a post of     *)
(* gDetectResultAvaiable stands for a detection in the queue.               *)
FirstIsKey(c) ==
  ~Trained(c) =>
    /\ trk[c] \notin {"update", "unlock", "put"}
    /\ trk[c] # "detect" =>
         /\ kcf[c] # << >> => kcf[c][1].key
         /\ kcf[c] = << >> => IsKey(c) /\ dec[c] \notin {"vpp", "sync"}

Announced(c) == Len(gDetectResultque[c]) = gDetectResultAvaiable[c]

(* A channel whose frames, regions and tracker are not touched. *)
LEMMA SameFirst ==
  ASSUME NEW c, FirstIsKey(c), skiptrack'[c] = skiptrack[c],
         nCurTrackObjects'[c] = nCurTrackObjects[c], inited'[c] = inited[c],
         trk'[c] = trk[c], kcf'[c] = kcf[c], nFrame'[c] = nFrame[c],
         dec'[c] \in {"vpp", "sync"} => dec[c] \in {"vpp", "sync"}
  PROVE  FirstIsKey(c)'
<1>1. Trained(c)' <=> Trained(c)
  BY DEF Trained
<1>2. IsKey(c)' <=> IsKey(c)
  BY DEF IsKey
<1> QED
  BY <1>1, <1>2 DEF FirstIsKey

(* Posts and detections go together. *)
LEMMA AnnouncedStep ==
  Types /\ (\A c \in Channels : Announced(c)) /\ [Next]_vars => \A c \in Channels : Announced(c)'
<1> SUFFICES ASSUME Types, \A c \in Channels : Announced(c), [Next]_vars, NEW e \in Channels
             PROVE  Announced(e)'
  OBVIOUS
<1>a. /\ gDetectResultque \in [Channels -> Seq(Channels \X Frames)]
      /\ gDetectResultAvaiable \in [Channels -> Nat]
      /\ \A c \in Channels : Len(gDetectResultque[c]) = gDetectResultAvaiable[c]
  BY DEF Types, InferTypes, Announced
<1>1. ASSUME NEW c \in Channels, TrkDetect(c) PROVE Announced(e)'
  <2>1. gDetectResultAvaiable[c] > 0
        /\ gDetectResultAvaiable' = [gDetectResultAvaiable EXCEPT ![c] = @ - 1]
    BY <1>1 DEF TrkDetect
  <2>2. gDetectResultque[c] # << >>
    <3>1. Len(gDetectResultque[c]) # 0
      BY <2>1, <1>a
    <3> QED
      BY <3>1, EmptySeq
  <2>3. gDetectResultque' = [gDetectResultque EXCEPT ![c] = Tail(@)]
    BY <1>1, <2>2 DEF TrkDetect
  <2>4. Len(Tail(gDetectResultque[c])) = Len(gDetectResultque[c]) - 1
    BY <2>2, <1>a, PopHead
  <2>5. CASE e = c
    BY <2>1, <2>3, <2>4, <2>5, <1>a DEF Announced
  <2>6. CASE e # c
    BY <2>1, <2>3, <2>6, <1>a DEF Announced
  <2> QED
    BY <2>5, <2>6
<1>2. CASE SchedLoad
  <2>1. PICK b \in Seq(Channels \X Frames) :
          \/ Len(b) < BatchSize /\ UNCHANGED detVars
          \/ /\ Len(b) = BatchSize
             /\ gDetectResultque' = [gDetectResultque EXCEPT ![0] = @ \o b]
             /\ gDetectResultAvaiable' = [gDetectResultAvaiable EXCEPT ![0] = @ + BatchSize]
    BY <1>2, Batched
  <2>2. CASE UNCHANGED detVars
    BY <2>2, <1>a DEF Announced, detVars
  <2>3. CASE /\ Len(b) = BatchSize
             /\ gDetectResultque' = [gDetectResultque EXCEPT ![0] = @ \o b]
             /\ gDetectResultAvaiable' = [gDetectResultAvaiable EXCEPT ![0] = @ + BatchSize]
    <3>1. 0 \in Channels /\ BatchSize \in Nat
      BY Sizes
    <3>2. Len(gDetectResultque[0] \o b) = Len(gDetectResultque[0]) + Len(b)
      BY <1>a, <3>1, ConcatProperties
    <3>3. /\ gDetectResultque'[0] = gDetectResultque[0] \o b
          /\ gDetectResultAvaiable'[0] = gDetectResultAvaiable[0] + BatchSize
          /\ e # 0 => /\ gDetectResultque'[e] = gDetectResultque[e]
                      /\ gDetectResultAvaiable'[e] = gDetectResultAvaiable[e]
      BY <2>3, <1>a, <3>1
    <3>4. Len(gDetectResultque'[0]) = gDetectResultAvaiable'[0]
      BY <2>3, <3>1, <3>2, <3>3, <1>a
    <3> QED
      BY <3>3, <3>4, <1>a DEF Announced
  <2> QED
    BY <2>1, <2>2, <2>3
<1>3. CASE MainSemTrack
  <2>1. gDetectResultAvaiable[e] = 0
    BY <1>3 DEF MainSemTrack, Types, Begun
  <2>2. gDetectResultAvaiable'[e] = 0 /\ gDetectResultque' = gDetectResultque
    BY <1>3 DEF MainSemTrack
  <2> QED
    BY <2>1, <2>2, <1>a DEF Announced
<1>4. CASE \/ \E c \in Channels : \/ DecStep(c) \/ DecVppMore(c) \/ SdkRelease(c) \/ TrkWait(c)
                                  \/ TrkLoad(c) \/ TrkUpdate(c) \/ TrkPut(c)
           \/ SchedWait \/ MainCreate \/ MainSemTask \/ UNCHANGED vars
  <2>1. UNCHANGED detVars
    BY <1>4 DEF DecStep, DecMore, DecFrame, DecGetKcf, DecStoreKcf, DecVpp, DecSync, DecVppMore,
                SdkRelease, TrkWait, TrkLoad, TrkUpdate, TrkPut, SchedWait, MainCreate,
                MainSemTask, vars
  <2> QED
    BY <2>1, <1>a DEF Announced, detVars
<1> QED
  BY <1>1, <1>2, <1>3, <1>4 DEF Next, TrkStep, MainStep

(* The first frame of a tracker stays a key frame. *)
LEMMA FirstStep ==
  /\ Types /\ [Next]_vars
  /\ \A c \in Channels : Announced(c) /\ FirstIsKey(c)
  => \A c \in Channels : FirstIsKey(c)'
<1> SUFFICES ASSUME Types, [Next]_vars, NEW e \in Channels, Announced(e), FirstIsKey(e)
             PROVE  FirstIsKey(e)'
  OBVIOUS
<1>a. /\ dec \in [Channels -> {"none", "decode", "kcf", "lock", "vpp", "sync"}]
      /\ trk \in [Channels -> {"none", "wait", "lost", "load", "detect", "update",
                               "unlock", "put"}]
      /\ kcf \in [Channels -> Seq(Stored)] /\ nFrame \in [Channels -> Frames]
  BY DEF Types, DecTypes, TrkTypes
<1>b. /\ nCurTrackObjects \in [Channels -> 0 .. MAX_NUM_TRACK_OBJECT]
      /\ skiptrack \in [Channels -> BOOLEAN]
      /\ inited \in [Channels -> 0 .. MAX_NUM_TRACK_OBJECT]
  BY DEF Types, RoiTypes
<1>0. Trained(e)' => FirstIsKey(e)'
  BY DEF FirstIsKey
<1>1. ASSUME NEW c \in Channels, DecStoreKcf(c) PROVE FirstIsKey(e)'
  <2> DEFINE f == [frame |-> FrameOf(c), key |-> IsKey(c), surf |-> cur[c]]
  <2>1. f \in Stored /\ f.key = IsKey(c)
    BY <1>1, NewFrame DEF DecStoreKcf
  <2>2. kcf' = [kcf EXCEPT ![c] = Append(@, f)] /\ dec[c] = "lock"
    BY <1>1 DEF DecStoreKcf
  <2> HIDE DEF f
  <2>3. UNCHANGED <<skiptrack, nCurTrackObjects, inited, trk>>
    BY <1>1 DEF DecStoreKcf, trkVars, roiVars
  <2>4. CASE e # c
    <3>1. kcf'[e] = kcf[e] /\ nFrame'[e] = nFrame[e] /\ dec'[e] = dec[e]
      BY <1>1, <2>2, <2>4, <1>a DEF DecStoreKcf, DecGoto, NextFrame
    <3> QED
      BY <2>3, <3>1, SameFirst
  <2>5. CASE e = c
    <3>1. /\ kcf'[c] = Append(kcf[c], f) /\ kcf'[c] # << >> /\ Len(kcf[c]) \in Nat
          /\ \A i \in 1 .. Len(kcf[c]) : kcf'[c][i] = kcf[c][i]
          /\ kcf'[c][Len(kcf[c]) + 1] = f
      <4>1. kcf'[c] = Append(kcf[c], f)
        BY <2>2, <1>a
      <4>2. PICK q \in Seq(Stored) : q = kcf[c]
        BY <1>a
      <4>3. /\ Append(q, f) # << >> /\ Len(q) \in Nat
            /\ \A i \in 1 .. Len(q) : Append(q, f)[i] = q[i]
            /\ Append(q, f)[Len(q) + 1] = f
        BY <2>1, PushTail
      <4> QED
        BY <4>1, <4>2, <4>3
    <3>2. ASSUME ~Trained(c), trk[c] # "detect" PROVE kcf'[c][1].key
      <4>1. CASE kcf[c] = << >>
        <5>1. Len(kcf[c]) = 0
          BY <4>1
        <5>2. kcf'[c][1] = f
          BY <5>1, <3>1
        <5> QED
          BY <5>2, <2>1, <2>5, <3>2, <4>1 DEF FirstIsKey
      <4>2. CASE kcf[c] # << >>
        <5>1. 1 \in 1 .. Len(kcf[c])
          BY <3>1, <4>2, <1>a, EmptySeq
        <5>2. kcf'[c][1] = kcf[c][1]
          BY <5>1, <3>1
        <5> QED
          BY <5>2, <2>5, <3>2, <4>2 DEF FirstIsKey
      <4> QED
        BY <4>1, <4>2
    <3>3. Trained(c)' <=> Trained(c)
      BY <2>3 DEF Trained
    <3> QED
      BY <2>3, <2>5, <3>1, <3>2, <3>3 DEF FirstIsKey
  <2> QED
    BY <2>4, <2>5
<1>2. ASSUME NEW c \in Channels, DecVpp(c) \/ DecVppMore(c) \/ DecSync(c) PROVE FirstIsKey(e)'
  <2>1. UNCHANGED <<skiptrack, nCurTrackObjects, inited, trk, kcf>> /\ dec[c] \in {"vpp", "sync"}
    BY <1>2 DEF DecVpp, DecVppMore, DecSync, trkVars, roiVars, kcfVars
  <2>2. CASE e # c
    <3>1. nFrame'[e] = nFrame[e] /\ dec'[e] = dec[e]
      BY <1>2, <2>2, <1>a DEF DecVpp, DecVppMore, DecSync, DecGoto, NextFrame
    <3> QED
      BY <2>1, <3>1, SameFirst
  <2>3. CASE e = c
    <3>1. Trained(c)' <=> Trained(c)
      BY <2>1 DEF Trained
    <3> QED
      BY <2>1, <2>3, <3>1 DEF FirstIsKey
  <2> QED
    BY <2>2, <2>3
<1>3. ASSUME NEW c \in Channels, TrkLoad(c) PROVE FirstIsKey(e)'
  <2>1. UNCHANGED <<skiptrack, nCurTrackObjects, inited, nFrame, dec>>
    BY <1>3 DEF TrkLoad, roiVars, decVars
  <2>2. CASE e # c
    <3>1. kcf'[e] = kcf[e] /\ trk'[e] = trk[e]
      BY <1>3, <2>2, <1>a DEF TrkLoad, TrkGoto
    <3> QED
      BY <2>1, <3>1, SameFirst
  <2>3. CASE e = c
    <3>1. Trained(c)' <=> Trained(c)
      BY <2>1 DEF Trained
    <3>2. trk[c] = "load" /\ kcf[c] # << >>
          /\ trk'[c] = (IF Head(kcf[c]).key THEN "detect" ELSE "update")
      BY <1>3, <1>a DEF TrkLoad, TrkGoto
    <3>3. Head(kcf[c]) = kcf[c][1]
      BY <3>2, <1>a, PopHead
    <3>4. ~Trained(c) => trk'[c] = "detect"
      BY <3>2, <3>3, <2>3 DEF FirstIsKey
    <3> QED
      BY <2>3, <3>1, <3>4 DEF FirstIsKey
  <2> QED
    BY <2>2, <2>3
<1>4. ASSUME NEW c \in Channels, TrkDetect(c) PROVE FirstIsKey(e)'
  <2>1. UNCHANGED <<nFrame, dec, kcf>> /\ gDetectResultAvaiable[c] > 0
    BY <1>4 DEF TrkDetect, decVars, kcfVars
  <2>2. CASE e # c
    <3>1. /\ trk'[e] = trk[e] /\ skiptrack'[e] = skiptrack[e] /\ inited'[e] = inited[e]
          /\ nCurTrackObjects'[e] = nCurTrackObjects[e]
      <4>1. CASE gDetectResultque[c] = << >>
        BY <4>1, <1>4, <2>2, <1>a DEF TrkDetect, TrkGoto, roiVars
      <4>2. CASE gDetectResultque[c] # << >>
        BY <4>2, <1>4, <2>2, <1>a, <1>b, Detected DEF TrkDetect, TrkGoto
      <4> QED
        BY <4>1, <4>2
    <3> QED
      BY <2>1, <3>1, SameFirst
  <2>3. CASE e = c
    <3>1. gDetectResultque[c] # << >>
      <4>1. Len(gDetectResultque[c]) # 0
        BY <2>1, <2>3 DEF Announced, Types, InferTypes
      <4> QED
        BY <4>1, EmptySeq
    <3>2. PICK n \in 0 .. MAX_NUM_TRACK_OBJECT :
            /\ nCurTrackObjects' = [nCurTrackObjects EXCEPT ![c] = n]
            /\ inited' = [inited EXCEPT ![c] = Greatest(inited[c], n)]
            /\ Greatest(inited[c], n) >= n
      BY <1>4, <3>1, Detected
    <3>3. nCurTrackObjects'[c] = n /\ inited'[c] = Greatest(inited[c], n)
      BY <3>2, <1>b
    <3>4. Greatest(inited[c], n) \in Int /\ n \in Int
      BY <1>b DEF Greatest
    <3>5. nCurTrackObjects'[c] <= inited'[c]
      BY <3>2, <3>3, <3>4
    <3> QED
      BY <2>3, <3>5, <1>0 DEF Trained
  <2> QED
    BY <2>2, <2>3
<1>5. ASSUME NEW c \in Channels, TrkWait(c) \/ TrkUpdate(c) \/ TrkPut(c) PROVE FirstIsKey(e)'
  <2>1. UNCHANGED <<skiptrack, nCurTrackObjects, inited, nFrame, dec, kcf>>
    BY <1>5 DEF TrkWait, TrkUpdate, TrkPut, roiVars, decVars, kcfVars
  <2>2. CASE e # c
    <3>1. trk'[e] = trk[e]
      BY <1>5, <2>2, <1>a DEF TrkWait, TrkUpdate, TrkPut, TrkGoto
    <3> QED
      BY <2>1, <3>1, SameFirst
  <2>3. CASE e = c
    <3>1. (Trained(c)' <=> Trained(c)) /\ (IsKey(c)' <=> IsKey(c))
      BY <2>1 DEF Trained, IsKey
    <3>2. \/ trk[c] = "wait" /\ trk'[c] = "load"
          \/ trk[c] \in {"update", "unlock", "put"}
      BY <1>5, <1>a DEF TrkWait, TrkUpdate, TrkPut, TrkGoto
    <3> QED
      BY <2>1, <2>3, <3>1, <3>2 DEF FirstIsKey
  <2> QED
    BY <2>2, <2>3
<1>6. CASE MainCreate \/ MainSemTrack
  <2>1. UNCHANGED <<skiptrack, nCurTrackObjects, inited, nFrame, kcf>>
    BY <1>6 DEF MainCreate, MainSemTrack, roiVars, decVars, kcfVars
  <2>2. /\ trk'[e] = trk[e] \/ trk'[e] \in {"wait", "lost"}
        /\ dec'[e] = dec[e] \/ dec'[e] = "decode"
        /\ trk[e] = "detect" => trk'[e] = "detect"
    <3>1. CASE MainCreate
      <4>1. started \in Nat /\ trk[e] = "detect" => e # started
        BY <3>1 DEF MainCreate, Types, Begun, MainTypes, Channels
      <4>2. started \in Nat
        BY Sizes DEF Types, MainTypes
      <4> QED
        BY <3>1, <4>1, <4>2, <1>a DEF MainCreate, DecGoto, TrkGoto
    <3>2. CASE MainSemTrack
      BY <3>2, <1>a DEF MainSemTrack, decVars
    <3> QED
      BY <1>6, <3>1, <3>2
  <2>3. (Trained(e)' <=> Trained(e)) /\ (IsKey(e)' <=> IsKey(e))
    BY <2>1 DEF Trained, IsKey
  <2> QED
    BY <2>1, <2>2, <2>3 DEF FirstIsKey
<1>7. CASE \/ \E c \in Channels : DecMore(c) \/ DecFrame(c) \/ DecGetKcf(c) \/ SdkRelease(c)
           \/ SchedWait \/ SchedLoad \/ MainSemTask \/ UNCHANGED vars
  <2>1. UNCHANGED <<skiptrack, nCurTrackObjects, inited, nFrame, kcf, trk>>
    BY <1>7 DEF DecMore, DecFrame, DecGetKcf, SdkRelease, SchedWait, SchedLoad, MainSemTask, vars,
                trkVars, roiVars, decVars, kcfVars
  <2>2. dec'[e] \in {"vpp", "sync"} => dec[e] \in {"vpp", "sync"}
    BY <1>7, <1>a DEF DecMore, DecFrame, DecGetKcf, SdkRelease, SchedWait, SchedLoad, MainSemTask,
                vars, decVars, DecGoto
  <2> QED
    BY <2>1, <2>2, SameFirst
<1> QED
  BY <1>1, <1>2, <1>3, <1>4, <1>5, <1>6, <1>7 DEF Next, DecStep, TrkStep, MainStep

(* On every channel, and whatever the detector finds, KCFTracker::update is *)
(* only called on trackers that were initialised, although                  *)
(* nCurTrackObjects starts at its maximum: the first frame of a tracker is  *)
(* a key frame, and its detection is in the queue when it is announced.     *)
THEOREM UpdatesAfterInit == Spec => []UpdatesInitialised
<1> DEFINE Inv == Types /\ \A c \in Channels : Announced(c) /\ FirstIsKey(c)
<1>1. Init => Inv
  <2> SUFFICES ASSUME Init PROVE Inv
    OBVIOUS
  <2>1. Types
    BY TypesInit
  <2>2. ASSUME NEW c \in Channels PROVE Announced(c)
    BY DEF Init, Announced
  <2>3. ASSUME NEW c \in Channels PROVE FirstIsKey(c)
    <3>1. nFrame[c] = 0 /\ dec[c] = "none" /\ trk[c] = "none" /\ kcf[c] = << >>
      BY DEF Init
    <3>2. 0 % KeyInterval = 0
      BY Sizes
    <3> QED
      BY <3>1, <3>2 DEF FirstIsKey, IsKey
  <2> QED
    BY <2>1, <2>2, <2>3
<1>2. Inv /\ [Next]_vars => Inv'
  BY TypesStep, AnnouncedStep, FirstStep
<1>3. Inv => UpdatesInitialised
  BY DEF UpdatesInitialised, FirstIsKey, Trained
<1> HIDE DEF Inv
<1> QED
  BY <1>1, <1>2, <1>3, PTL DEF Spec

-----------------------------------------------------------------------------
(* The counts of one channel: L are the values of Data.Locked, R the        *)
(* references of the SDK, P the surfaces the tracker has yet to read; d, x  *)
(* and r are the decoder's program counter, its surface and the value it    *)
(* has read, t, h and v those of the tracker; rc is set when an update was  *)
(* overwritten.                                                             *)

One(b) == IF b THEN 1 ELSE 0

Weight(R, P, d, x, s) == One(s \in R) + One(s \in P) + One(d = "sync" /\ x = s)

(* Data.Locked counts who needs the surface, or one more for ever after an  *)
(* overwritten decrement of the SDK.                                        *)
Level(L, R, P, d, x, rc, s) ==
  \/ L[s] = Weight(R, P, d, x, s)
  \/ L[s] = Weight(R, P, d, x, s) + 1 /\ rc /\ s \notin R

(* Between load and store the SDK may have given up its reference, once. *)
Counted(L, R, P, d, x, r, t, h, v, rc) ==
  /\ \A s \in Surfaces : Level(L, R, P, d, x, rc, s)
  /\ d \in {"kcf", "lock"} => x \notin P /\ L[x] = One(x \in R)
  /\ d = "lock" => r = L[x] \/ (r = L[x] + 1 /\ x \notin R)
  /\ d # "lock" => r = 0
  /\ t = "put" => /\ h \in P
                  /\ \/ v = L[h]
                     \/ v = L[h] + 1 /\ h \notin R /\ L[h] = Weight(R, P, d, x, h)
  /\ t # "put" => v = 0

(* A weight is a small number. *)
LEMMA Weights ==
  /\ \A b : One(b) \in {0, 1} /\ (b => One(b) = 1) /\ (~b => One(b) = 0)
  /\ \A R, P, d, x, s : Weight(R, P, d, x, s) \in 0 .. 3
<1>1. \A b : One(b) \in {0, 1} /\ (b => One(b) = 1) /\ (~b => One(b) = 0)
  BY DEF One
<1>2. \A a, b, e \in {0, 1} : a + b + e \in 0 .. 3
  OBVIOUS
<1> QED
  BY <1>1, <1>2 DEF Weight

(* The decoder takes a free surface, which the SDK may keep. *)
LEMMA CountFrame ==
  ASSUME NEW L \in [Surfaces -> Int], NEW R, NEW P, NEW d, NEW x, NEW r, NEW t, NEW h, NEW v,
         NEW rc \in BOOLEAN, Counted(L, R, P, d, x, r, t, h, v, rc), d = "decode",
         t = "put" => h \in Surfaces,
         NEW s \in Surfaces, L[s] = 0, NEW M, NEW Q,
         \/ M = L /\ Q = R
         \/ M = [L EXCEPT ![s] = 1] /\ Q = R \cup {s}
  PROVE  Counted(M, Q, P, "kcf", s, r, t, h, v, rc)
<1>1. Weight(R, P, d, x, s) = 0 /\ s \notin R /\ s \notin P
  <2>1. Level(L, R, P, d, x, rc, s)
    BY DEF Counted
  <2>2. Weight(R, P, d, x, s) = 0
    BY <2>1, Weights DEF Level
  <2> QED
    BY <2>2 DEF Weight, One
<1>2. \A u \in Surfaces : u # s => M[u] = L[u] /\ (u \in Q <=> u \in R)
  OBVIOUS
<1>3. M[s] = One(s \in Q)
  BY <1>1 DEF One
<1>4. \A u : u # s => Weight(Q, P, "kcf", s, u) = Weight(R, P, d, x, u)
  BY DEF Weight
<1>5. Weight(Q, P, "kcf", s, s) = One(s \in Q)
  BY <1>1, Weights DEF Weight
<1>6. ASSUME NEW u \in Surfaces PROVE Level(M, Q, P, "kcf", s, rc, u)
  BY <1>2, <1>3, <1>4, <1>5 DEF Counted, Level
<1>7. t = "put" => h # s
  BY <1>1 DEF Counted
<1> QED
  BY <1>1, <1>2, <1>3, <1>4, <1>6, <1>7 DEF Counted

(* The decoder reads Data.Locked. *)
LEMMA CountRead ==
  ASSUME NEW L \in [Surfaces -> Int], NEW R, NEW P, NEW d, NEW x \in Surfaces, NEW r, NEW t,
         NEW h, NEW v, NEW rc \in BOOLEAN, Counted(L, R, P, d, x, r, t, h, v, rc), d = "kcf"
  PROVE  Counted(L, R, P, "lock", x, L[x], t, h, v, rc)
<1>1. \A u : Weight(R, P, "lock", x, u) = Weight(R, P, d, x, u)
  BY DEF Weight
<1> QED
  BY <1>1 DEF Counted, Level

(* That an update was overwritten only allows for more. *)
LEMMA CountRaced ==
  ASSUME NEW L, NEW R, NEW P, NEW d, NEW x, NEW r, NEW t, NEW h, NEW v, NEW rc,
         Counted(L, R, P, d, x, r, t, h, v, rc)
  PROVE  Counted(L, R, P, d, x, r, t, h, v, TRUE)
  BY DEF Counted, Level

(* It writes it back, incremented, and stores the frame. *)
LEMMA CountStore ==
  ASSUME NEW L \in [Surfaces -> Int], NEW R, NEW P, NEW d, NEW x \in Surfaces, NEW r \in Int, NEW t,
         NEW h, NEW v, NEW rc \in BOOLEAN, Counted(L, R, P, d, x, r, t, h, v, rc),
         d = "lock", L[x] # r => rc, NEW d2, d2 \notin {"kcf", "lock", "sync"}, NEW x2,
         t = "put" => h \in Surfaces,
         NEW M, M[x] = r + 1, \A u \in Surfaces : u # x => M[u] = L[u],
         NEW Q, Q = P \cup {x}
  PROVE  Counted(M, R, Q, d2, x2, 0, t, h, v, rc)
<1>1. x \notin P /\ L[x] = One(x \in R) /\ (r = L[x] \/ (r = L[x] + 1 /\ x \notin R))
  BY DEF Counted
<1>2. \A u : u # x => Weight(R, Q, d2, x2, u) = Weight(R, P, d, x, u)
  BY DEF Weight
<1>3. Weight(R, Q, d2, x2, x) = One(x \in R) + 1
  <2>1. One(x \in Q) = 1 /\ One(d2 = "sync" /\ x2 = x) = 0
    BY Weights
  <2> QED
    BY <2>1, Weights DEF Weight
<1>4. M[x] = r + 1 /\ \A u \in Surfaces : u # x => M[u] = L[u]
  OBVIOUS
<1>5. Level(M, R, Q, d2, x2, rc, x)
  <2>1. CASE r = L[x]
    BY <2>1, <1>1, <1>3, <1>4 DEF Level
  <2>2. CASE r = L[x] + 1 /\ x \notin R
    <3>1. L[x] \in Int
      OBVIOUS
    <3>2. r # L[x] /\ M[x] = One(x \in R) + 1 + 1
      BY <2>2, <3>1, <1>1, <1>4
    <3> QED
      BY <2>2, <3>2, <1>3 DEF Level
  <2> QED
    BY <2>1, <2>2, <1>1
<1>6. ASSUME NEW u \in Surfaces, u # x PROVE Level(M, R, Q, d2, x2, rc, u)
  BY <1>2, <1>4, <1>6 DEF Counted, Level
<1>7. t = "put" => h # x /\ h \in Q
  BY <1>1 DEF Counted
<1>8. t = "put" => \/ v = M[h]
                   \/ v = M[h] + 1 /\ h \notin R /\ M[h] = Weight(R, Q, d2, x2, h)
  BY <1>2, <1>4, <1>7 DEF Counted
<1>9. Counted(M, R, Q, d2, x2, 0, t, h, v, rc)
  BY <1>5, <1>6, <1>7, <1>8 DEF Counted
<1> QED
  BY <1>9

(* The VPP locks its input, which the tracker is not about to unlock. *)
LEMMA CountVpp ==
  ASSUME NEW L \in [Surfaces -> Int], NEW R, NEW P, NEW d, NEW x \in Surfaces, NEW r, NEW t,
         NEW h, NEW v, NEW rc \in BOOLEAN, Counted(L, R, P, d, x, r, t, h, v, rc),
         d = "vpp", t = "put" => h # x,
         t = "put" => h \in Surfaces,
         NEW M, M[x] = L[x] + 1, \A u \in Surfaces : u # x => M[u] = L[u]
  PROVE  Counted(M, R, P, "sync", x, r, t, h, v, rc)
<1>1. \A u : u # x => Weight(R, P, "sync", x, u) = Weight(R, P, d, x, u)
  BY DEF Weight
<1>2. Weight(R, P, "sync", x, x) = Weight(R, P, d, x, x) + 1
  <2>1. One("sync" = "sync" /\ x = x) = 1 /\ One(d = "sync" /\ x = x) = 0
    BY Weights
  <2> QED
    BY <2>1, Weights DEF Weight
<1>3. M[x] = L[x] + 1 /\ \A u \in Surfaces : u # x => M[u] = L[u]
  OBVIOUS
<1>4. Level(M, R, P, "sync", x, rc, x)
  <2>1. Level(L, R, P, d, x, rc, x)
    BY DEF Counted
  <2> QED
    BY <2>1, <1>2, <1>3, Weights DEF Level
<1>5. ASSUME NEW u \in Surfaces, u # x PROVE Level(M, R, P, "sync", x, rc, u)
  BY <1>1, <1>3, <1>5 DEF Counted, Level
<1>6. t = "put" => /\ h \in P
                   /\ \/ v = M[h]
                      \/ v = M[h] + 1 /\ h \notin R /\ M[h] = Weight(R, P, "sync", x, h)
  BY <1>1, <1>3 DEF Counted
<1>7. Counted(M, R, P, "sync", x, r, t, h, v, rc)
  BY <1>4, <1>5, <1>6 DEF Counted
<1> QED
  BY <1>7

(* The VPP asks for more data: the decoder goes on. *)
LEMMA CountMore ==
  ASSUME NEW L, NEW R, NEW P, NEW d, NEW x, NEW r, NEW t, NEW h, NEW v, NEW rc,
         Counted(L, R, P, d, x, r, t, h, v, rc), d \in {"vpp", "none"}, NEW x2
  PROVE  Counted(L, R, P, "decode", x2, r, t, h, v, rc)
<1>1. \A u : Weight(R, P, "decode", x2, u) = Weight(R, P, d, x, u)
  BY DEF Weight
<1> QED
  BY <1>1 DEF Counted, Level

(* The VPP is done with its input. *)
LEMMA CountSync ==
  ASSUME NEW L \in [Surfaces -> Int], NEW R, NEW P, NEW d, NEW x \in Surfaces, NEW r, NEW t,
         NEW h, NEW v, NEW rc \in BOOLEAN, Counted(L, R, P, d, x, r, t, h, v, rc),
         d = "sync", t = "put" => h # x, NEW x2,
         t = "put" => h \in Surfaces,
         NEW M, M[x] = L[x] - 1, \A u \in Surfaces : u # x => M[u] = L[u]
  PROVE  Counted(M, R, P, "decode", x2, r, t, h, v, rc)
<1>1. \A u : u # x => Weight(R, P, "decode", x2, u) = Weight(R, P, d, x, u)
  BY DEF Weight
<1>2. Weight(R, P, "decode", x2, x) = Weight(R, P, d, x, x) - 1
  <2>1. One("decode" = "sync" /\ x2 = x) = 0 /\ One(d = "sync" /\ x = x) = 1
    BY Weights
  <2> QED
    BY <2>1, Weights DEF Weight
<1>3. M[x] = L[x] - 1 /\ \A u \in Surfaces : u # x => M[u] = L[u]
  OBVIOUS
<1>4. Level(M, R, P, "decode", x2, rc, x)
  <2>1. Level(L, R, P, d, x, rc, x)
    BY DEF Counted
  <2>2. PICK w \in 0 .. 3 : w = Weight(R, P, d, x, x)
    BY Weights
  <2> QED
    BY <2>1, <2>2, <1>2, <1>3 DEF Level
<1>5. ASSUME NEW u \in Surfaces, u # x PROVE Level(M, R, P, "decode", x2, rc, u)
  BY <1>1, <1>3, <1>5 DEF Counted, Level
<1>6. t = "put" => /\ h \in P
                   /\ \/ v = M[h]
                      \/ v = M[h] + 1 /\ h \notin R /\ M[h] = Weight(R, P, "decode", x2, h)
  BY <1>1, <1>3 DEF Counted
<1>7. Counted(M, R, P, "decode", x2, r, t, h, v, rc)
  BY <1>4, <1>5, <1>6 DEF Counted
<1> QED
  BY <1>7

(* The SDK gives up a reference, perhaps under an update of the program. *)
LEMMA CountRelease ==
  ASSUME NEW L \in [Surfaces -> Int], NEW R, NEW P, NEW d, NEW x, NEW r \in Int, NEW t,
         NEW h, NEW v \in Int, NEW rc \in BOOLEAN,
         Counted(L, R, P, d, x, r, t, h, v, rc), d \in {"kcf", "lock"} => x \in Surfaces,
         NEW s \in Surfaces, s \in R,
         t = "put" => h \in Surfaces,
         NEW M, M[s] = L[s] - 1, \A u \in Surfaces : u # s => M[u] = L[u]
  PROVE  Counted(M, R \ {s}, P, d, x, r, t, h, v, rc)
<1> DEFINE Q == R \ {s}
<1>1. \A u : u # s => Weight(Q, P, d, x, u) = Weight(R, P, d, x, u) /\ (u \in Q <=> u \in R)
  BY DEF Weight
<1>2. Weight(Q, P, d, x, s) = Weight(R, P, d, x, s) - 1 /\ s \notin Q
  <2>1. One(s \in Q) = 0 /\ One(s \in R) = 1
    BY DEF One
  <2> QED
    BY <2>1, Weights DEF Weight
<1>3. M[s] = L[s] - 1 /\ \A u \in Surfaces : u # s => M[u] = L[u]
  OBVIOUS
<1>4. L[s] = Weight(R, P, d, x, s)
  BY DEF Counted, Level
<1> HIDE DEF Q
<1>5. M[s] = Weight(Q, P, d, x, s)
  BY <1>2, <1>3, <1>4
<1>6. ASSUME NEW u \in Surfaces PROVE Level(M, Q, P, d, x, rc, u)
  BY <1>1, <1>3, <1>5 DEF Counted, Level
<1>7. d \in {"kcf", "lock"} => x \notin P /\ M[x] = One(x \in Q)
  <2>1. CASE x = s
    <3>1. One(x \in Q) = 0 /\ One(x \in R) = 1
      BY <2>1, <1>2 DEF One
    <3> QED
      BY <2>1, <3>1, <1>3 DEF Counted
  <2>2. CASE x # s
    BY <2>2, <1>1, <1>3 DEF Counted
  <2> QED
    BY <2>1, <2>2
<1>8. d = "lock" => r = M[x] \/ (r = M[x] + 1 /\ x \notin Q)
  <2>1. CASE x = s
    BY <2>1, <1>2, <1>3 DEF Counted
  <2>2. CASE x # s
    BY <2>2, <1>1, <1>3 DEF Counted
  <2> QED
    BY <2>1, <2>2
<1>9. t = "put" => /\ h \in P
                   /\ \/ v = M[h]
                      \/ v = M[h] + 1 /\ h \notin Q /\ M[h] = Weight(Q, P, d, x, h)
  <2>1. CASE h = s
    BY <2>1, <1>2, <1>3, <1>5 DEF Counted
  <2>2. CASE h # s
    BY <2>2, <1>1, <1>3 DEF Counted
  <2> QED
    BY <2>1, <2>2
<1>10. Counted(M, Q, P, d, x, r, t, h, v, rc)
  BY <1>6, <1>7, <1>8, <1>9 DEF Counted
<1> QED
  BY <1>10 DEF Q

(* The tracker reads Data.Locked. *)
LEMMA CountUpdate ==
  ASSUME NEW L, NEW R, NEW P, NEW d, NEW x, NEW r, NEW t, NEW h \in P, NEW v, NEW rc,
         Counted(L, R, P, d, x, r, t, h, v, rc)
  PROVE  Counted(L, R, P, d, x, r, "put", h, L[h], rc)
  BY DEF Counted

(* The tracker is elsewhere. *)
LEMMA CountElsewhere ==
  ASSUME NEW L, NEW R, NEW P, NEW d, NEW x, NEW r, NEW t, NEW h, NEW v, NEW rc,
         Counted(L, R, P, d, x, r, t, h, v, rc), t # "put", NEW t2, t2 # "put", NEW h2
  PROVE  Counted(L, R, P, d, x, r, t2, h2, v, rc)
  BY DEF Counted

(* It writes Data.Locked back, decremented, and has read the surface. *)
LEMMA CountPut ==
  ASSUME NEW L \in [Surfaces -> Int], NEW R, NEW P, NEW d, NEW x, NEW r, NEW t,
         NEW h \in Surfaces, NEW v \in Int, NEW rc \in BOOLEAN,
         Counted(L, R, P, d, x, r, t, h, v, rc), t = "put",
         L[h] # v => rc, NEW h2,
         d \in {"kcf", "lock"} => x \in Surfaces,
         NEW M, M[h] = v - 1, \A u \in Surfaces : u # h => M[u] = L[u],
         NEW Q, Q = P \ {h}
  PROVE  Counted(M, R, Q, d, x, r, "load", h2, 0, rc)
<1>1. h \in P /\ (v = L[h] \/ (v = L[h] + 1 /\ h \notin R /\ L[h] = Weight(R, P, d, x, h)))
  BY DEF Counted
<1>2. \A u : u # h => Weight(R, Q, d, x, u) = Weight(R, P, d, x, u)
  BY DEF Weight
<1>3. Weight(R, Q, d, x, h) = Weight(R, P, d, x, h) - 1
  <2>1. One(h \in Q) = 0 /\ One(h \in P) = 1
    BY <1>1 DEF One
  <2> QED
    BY <2>1, Weights DEF Weight
<1>4. M[h] = v - 1 /\ \A u \in Surfaces : u # h => M[u] = L[u]
  OBVIOUS
<1>5. d \in {"kcf", "lock"} => x # h
  BY <1>1 DEF Counted
<1>6. d \in {"kcf", "lock"} => x \notin P /\ x \notin Q
  BY DEF Counted
<1>7. Level(M, R, Q, d, x, rc, h)
  <2>1. PICK w \in 0 .. 3 : w = Weight(R, P, d, x, h)
    BY Weights
  <2>2. CASE v = L[h]
    <3>1. Level(L, R, P, d, x, rc, h)
      BY DEF Counted
    <3> QED
      BY <2>1, <2>2, <3>1, <1>3, <1>4 DEF Level
  <2>3. CASE v = L[h] + 1 /\ h \notin R /\ L[h] = Weight(R, P, d, x, h)
    <3>1. M[h] = w /\ v # L[h]
      BY <2>1, <2>3, <1>4
    <3> QED
      BY <2>1, <2>3, <3>1, <1>3 DEF Level
  <2> QED
    BY <2>2, <2>3, <1>1
<1>8. ASSUME NEW u \in Surfaces, u # h PROVE Level(M, R, Q, d, x, rc, u)
  BY <1>2, <1>4, <1>8 DEF Counted, Level
<1>9. d \in {"kcf", "lock"} => L[x] = M[x]
  BY <1>5
<1>10. Counted(M, R, Q, d, x, r, "load", h2, 0, rc)
  BY <1>6, <1>7, <1>8, <1>9 DEF Counted
<1> QED
  BY <1>10

-----------------------------------------------------------------------------
(* The tracker's pipe: its surfaces and its key frames. *)

Queued(q)  == {q[i].surf : i \in 1 .. Len(q)}
OneEach(q) == \A i, j \in 1 .. Len(q) : q[i].surf = q[j].surf => i = j
KeysOf(q)  == {i \in 1 .. Len(q) : q[i].key}
Keys(q)    == Cardinality(KeysOf(q))

Unread(q, t, h) == Queued(q) \cup {s \in {h} : t \in {"detect", "update", "unlock", "put"}}

(* A frame joins the pipe. *)
LEMMA QueueAppend ==
  ASSUME NEW q \in Seq(Stored), NEW f \in Stored
  PROVE  /\ Len(Append(q, f)) = Len(q) + 1 /\ Len(q) \in Nat
         /\ Append(q, f) # << >> /\ Append(q, f)[Len(q) + 1] = f
         /\ Queued(Append(q, f)) = Queued(q) \cup {f.surf}
         /\ OneEach(q) /\ f.surf \notin Queued(q) => OneEach(Append(q, f))
         /\ Keys(q) \in Nat /\ Keys(Append(q, f)) = Keys(q) + One(f.key)
<1> DEFINE n == Len(q) + 1
           a == Append(q, f)
<1>1. /\ a \in Seq(Stored) /\ a # << >> /\ Len(q) \in Nat /\ Len(a) = n
      /\ \A i \in 1 .. Len(q) : a[i] = q[i]
      /\ a[n] = f
  BY PushTail
<1> HIDE DEF a
<1>2. /\ \A i \in 1 .. n : i \in 1 .. Len(q) \/ i = n
      /\ \A i \in 1 .. Len(q) : i \in 1 .. n /\ i # n
      /\ n \in 1 .. n /\ n \notin KeysOf(q)
  BY <1>1 DEF KeysOf
<1>3. Queued(a) = Queued(q) \cup {f.surf}
  BY <1>1, <1>2 DEF Queued
<1>4. OneEach(q) /\ f.surf \notin Queued(q) => OneEach(a)
  BY <1>1, <1>2 DEF OneEach, Queued
<1>5. IsFiniteSet(KeysOf(q)) /\ Keys(q) \in Nat
  <2>1. Len(q) \in Int /\ 1 \in Int
    BY <1>1
  <2>2. IsFiniteSet(1 .. Len(q)) /\ KeysOf(q) \in SUBSET (1 .. Len(q))
    BY <2>1, FS_Interval DEF KeysOf
  <2> QED
    BY <2>2, FS_Subset, FS_CardinalityType DEF Keys
<1>6. f.key \in BOOLEAN
  BY DEF Stored
<1>7. CASE f.key
  <2>1. KeysOf(a) = KeysOf(q) \cup {n}
    BY <1>1, <1>2, <1>7 DEF KeysOf
  <2>2. Keys(a) = Keys(q) + 1
    BY <2>1, <1>2, <1>5, FS_AddElement DEF Keys
  <2>3. One(f.key) = 1
    BY <1>7 DEF One
  <2> QED
    BY <2>2, <2>3, <1>1, <1>3, <1>4, <1>5 DEF a
<1>8. CASE ~f.key
  <2>1. KeysOf(a) = KeysOf(q)
    BY <1>1, <1>2, <1>8 DEF KeysOf
  <2>2. Keys(a) = Keys(q) + 0
    BY <2>1, <1>5 DEF Keys
  <2>3. One(f.key) = 0
    BY <1>8 DEF One
  <2> QED
    BY <2>2, <2>3, <1>1, <1>3, <1>4, <1>5 DEF a
<1> QED
  BY <1>7, <1>8

(* The tracker takes the eldest frame. *)
LEMMA QueueTail ==
  ASSUME NEW q \in Seq(Stored), q # << >>
  PROVE  /\ Head(q) \in Stored /\ Tail(q) \in Seq(Stored)
         /\ Len(Tail(q)) = Len(q) - 1 /\ Len(q) \in Nat \ {0}
         /\ Tail(q) # << >> => Tail(q)[Len(Tail(q))] = q[Len(q)]
         /\ Queued(q) = Queued(Tail(q)) \cup {Head(q).surf}
         /\ OneEach(q) => OneEach(Tail(q)) /\ Head(q).surf \notin Queued(Tail(q))
         /\ Keys(q) \in Nat /\ Keys(Tail(q)) \in Nat
         /\ Keys(q) = Keys(Tail(q)) + One(Head(q).key)
<1> DEFINE t == Tail(q)
           g == [i \in KeysOf(t) |-> i + 1]
           T == KeysOf(q) \ {1}
<1>1. /\ Len(q) \in Nat \ {0} /\ t \in Seq(Stored) /\ Len(t) = Len(q) - 1 /\ Head(q) = q[1]
      /\ Head(q) \in Stored /\ \A i \in 1 .. Len(q) - 1 : t[i] = q[i + 1]
  BY PopHead
<1> HIDE DEF t
<1>2. t # << >> => t[Len(t)] = q[Len(q)]
  <2>1. t # << >> => Len(t) # 0
    BY <1>1, EmptySeq
  <2> QED
    BY <2>1, <1>1
<1>3. \A i \in 1 .. Len(t) : i + 1 \in 1 .. Len(q) /\ t[i] = q[i + 1] /\ i + 1 # 1
  BY <1>1
<1>4. \A j \in 1 .. Len(q) : j = 1 \/ \E i \in 1 .. Len(t) : j = i + 1
  <2>1. SUFFICES ASSUME NEW j \in 1 .. Len(q), j # 1 PROVE \E i \in 1 .. Len(t) : j = i + 1
    OBVIOUS
  <2>2. j - 1 \in 1 .. Len(t) /\ j = (j - 1) + 1
    BY <1>1, <2>1
  <2> QED
    BY <2>2
<1>5. 1 \in 1 .. Len(q)
  BY <1>1
<1>6. Queued(q) = Queued(t) \cup {Head(q).surf}
  <2>1. ASSUME NEW j \in 1 .. Len(q) PROVE q[j].surf \in Queued(t) \cup {Head(q).surf}
    <3>1. CASE j = 1
      BY <3>1, <1>1
    <3>2. CASE j # 1
      <4>1. PICK i \in 1 .. Len(t) : j = i + 1
        BY <3>2, <1>4
      <4>2. q[j] = t[i]
        BY <4>1, <1>3
      <4> QED
        BY <4>2 DEF Queued
    <3> QED
      BY <3>1, <3>2
  <2>2. ASSUME NEW i \in 1 .. Len(t) PROVE t[i].surf \in Queued(q)
    BY <1>3 DEF Queued
  <2>3. Head(q).surf \in Queued(q)
    BY <1>1, <1>5 DEF Queued
  <2> QED
    BY <2>1, <2>2, <2>3 DEF Queued
<1>7. ASSUME OneEach(q) PROVE OneEach(t) /\ Head(q).surf \notin Queued(t)
  <2>1. ASSUME NEW i \in 1 .. Len(t), NEW j \in 1 .. Len(t), t[i].surf = t[j].surf PROVE i = j
    <3>1. i + 1 = j + 1
      BY <1>3, <1>7, <2>1 DEF OneEach
    <3> QED
      BY <3>1, <1>1
  <2>2. ASSUME NEW i \in 1 .. Len(t) PROVE t[i].surf # Head(q).surf
    BY <1>1, <1>3, <1>5, <1>7 DEF OneEach
  <2> QED
    BY <2>1, <2>2 DEF OneEach, Queued
<1>8. IsFiniteSet(KeysOf(t)) /\ Keys(t) \in Nat
  <2>1. Len(t) \in Int /\ 1 \in Int
    BY <1>1
  <2>2. IsFiniteSet(1 .. Len(t)) /\ KeysOf(t) \in SUBSET (1 .. Len(t))
    BY <2>1, FS_Interval DEF KeysOf
  <2> QED
    BY <2>2, FS_Subset, FS_CardinalityType DEF Keys
<1>9. g \in Bijection(KeysOf(t), T)
  <2>1. \A i \in KeysOf(t) : i \in Nat /\ i + 1 \in T
    BY <1>1, <1>3 DEF KeysOf
  <2>2. g \in [KeysOf(t) -> T]
    BY <2>1
  <2>3. \A i, j \in KeysOf(t) : g[i] = g[j] => i = j
    BY <2>1
  <2>4. \A j \in T : \E i \in KeysOf(t) : g[i] = j
    <3>1. SUFFICES ASSUME NEW j \in T PROVE \E i \in KeysOf(t) : g[i] = j
      OBVIOUS
    <3>2. PICK i \in 1 .. Len(t) : j = i + 1
      BY <1>4 DEF KeysOf
    <3>3. i \in KeysOf(t)
      BY <3>2, <1>3 DEF KeysOf
    <3> QED
      BY <3>2, <3>3
  <2> HIDE DEF g, T
  <2> QED
    BY <2>2, <2>3, <2>4 DEF Bijection, Injection, Surjection, IsInjective
<1>10. IsFiniteSet(T) /\ Cardinality(T) = Keys(t)
  BY <1>8, <1>9, FS_Bijection DEF ExistsBijection, Keys
<1>11. Keys(q) = Keys(t) + One(Head(q).key)
  <2>1. Head(q).key \in BOOLEAN
    BY <1>1 DEF Stored
  <2>2. CASE Head(q).key
    <3>1. KeysOf(q) = T \cup {1} /\ 1 \notin T
      BY <1>1, <1>5, <2>2 DEF KeysOf
    <3> HIDE DEF T
    <3>2. Keys(q) = Keys(t) + 1
      BY <3>1, <1>10, FS_AddElement DEF Keys
    <3> QED
      BY <3>2, <2>2 DEF One
  <2>3. CASE ~Head(q).key
    <3>1. KeysOf(q) = T
      BY <1>1, <1>5, <2>3 DEF KeysOf
    <3> HIDE DEF T
    <3>2. Keys(q) = Keys(t) + 0
      BY <3>1, <1>8, <1>10 DEF Keys
    <3> QED
      BY <3>2, <2>3 DEF One
  <2> QED
    BY <2>1, <2>2, <2>3
<1>12. Keys(q) \in Nat
  BY <1>8, <1>11, Weights
<1> QED
  BY <1>1, <1>2, <1>6, <1>7, <1>8, <1>11, <1>12 DEF t

(* A pipe has as many frames as surfaces when no surface is queued twice. *)
LEMMA QueueSize ==
  ASSUME NEW q \in Seq(Stored), OneEach(q)
  PROVE  /\ Cardinality(Queued(q)) = Len(q) /\ IsFiniteSet(Queued(q)) /\ Len(q) \in Nat
         /\ Queued(q) \subseteq Surfaces
<1> DEFINE g == [i \in 1 .. Len(q) |-> q[i].surf]
<1>1. Len(q) \in Nat /\ \A i \in 1 .. Len(q) : q[i] \in Stored
  BY LenProperties, ElementOfSeq
<1>2. Queued(q) \subseteq Surfaces
  BY <1>1 DEF Queued, Stored
<1>3. g \in [1 .. Len(q) -> Queued(q)] /\ \A i, j \in 1 .. Len(q) : g[i] = g[j] => i = j
  BY DEF Queued, OneEach
<1>4. \A s \in Queued(q) : \E i \in 1 .. Len(q) : g[i] = s
  BY DEF Queued
<1>5. IsFiniteSet(1 .. Len(q)) /\ Cardinality(1 .. Len(q)) = Len(q)
  <2>1. Len(q) \in Int /\ 1 \in Int
    BY <1>1
  <2> QED
    BY SMTT(60), <2>1, <1>1, FS_Interval
<1> HIDE DEF g
<1>6. g \in Surjection(1 .. Len(q), Queued(q)) /\ g \in Injection(1 .. Len(q), Queued(q))
  BY <1>3, <1>4 DEF Surjection, Injection, IsInjective
<1> QED
  BY <1>1, <1>2, <1>5, <1>6, FS_Surjection

Holding(t) == t \in {"detect", "update", "unlock", "put"}
Hand(t)    == IF Holding(t) THEN 1 ELSE 0

(* What the tracker has yet to read, before and after it holds a frame. *)
LEMMA ToRead ==
  ASSUME NEW q \in Seq(Stored), NEW t, NEW h
  PROVE  /\ \A f \in Stored : Unread(Append(q, f), t, h) = Unread(q, t, h) \cup {f.surf}
         /\ ~Holding(t) => Unread(q, t, h) = Queued(q)
         /\ Holding(t) => Unread(q, t, h) = Queued(q) \cup {h}
         /\ q # << >> /\ Holding(t) => Unread(Tail(q), t, Head(q).surf) = Queued(q)
<1>1. ASSUME NEW f \in Stored PROVE Unread(Append(q, f), t, h) = Unread(q, t, h) \cup {f.surf}
  <2>1. Queued(Append(q, f)) = Queued(q) \cup {f.surf}
    BY QueueAppend
  <2> QED
    BY <2>1 DEF Unread
<1>2. ~Holding(t) => Unread(q, t, h) = Queued(q)
  BY DEF Unread, Holding
<1>3. Holding(t) => Unread(q, t, h) = Queued(q) \cup {h}
  BY DEF Unread, Holding
<1>4. ASSUME q # << >>, Holding(t) PROVE Unread(Tail(q), t, Head(q).surf) = Queued(q)
  <2>1. Queued(q) = Queued(Tail(q)) \cup {Head(q).surf}
    BY <1>4, QueueTail
  <2> QED
    BY <2>1, <1>4 DEF Unread, Holding
<1> QED
  BY <1>1, <1>2, <1>3, <1>4

(* The surfaces lent to the tracker: none twice, no more than the pipe has  *)
(* buffers, and the one the VPP reads was the last.                         *)
Lent(q, t, h, d, x) ==
  /\ OneEach(q)
  /\ Holding(t) => h \notin Queued(q)
  /\ Len(q) + Hand(t) <= KcfBuffers
  /\ d = "lock" => Len(q) + Hand(t) < KcfBuffers
  /\ d \in {"vpp", "sync"} /\ q # << >> => q[Len(q)].surf = x

(* The decoder lends one. *)
LEMMA LentStore ==
  ASSUME NEW q \in Seq(Stored), NEW t, NEW h, NEW d, NEW x, Lent(q, t, h, d, x),
         d = "lock", NEW f \in Stored, f.surf = x, x \notin Unread(q, t, h),
         NEW d2, NEW x2, d2 \in {"vpp", "sync"} => x2 = x, d2 # "lock"
  PROVE  Lent(Append(q, f), t, h, d2, x2)
<1> DEFINE a == Append(q, f)
<1>1. /\ Len(a) = Len(q) + 1 /\ Len(q) \in Nat /\ a # << >> /\ a[Len(q) + 1] = f
      /\ Queued(a) = Queued(q) \cup {f.surf}
      /\ OneEach(q) /\ f.surf \notin Queued(q) => OneEach(a)
  BY QueueAppend
<1> HIDE DEF a
<1>2. x \notin Queued(q) /\ (Holding(t) => h # x)
  <2>1. Unread(q, t, h) = Queued(q) \/ Unread(q, t, h) = Queued(q) \cup {h}
    BY ToRead
  <2>2. Holding(t) => Unread(q, t, h) = Queued(q) \cup {h}
    BY ToRead
  <2> QED
    BY <2>1, <2>2
<1>3. OneEach(a) /\ (Holding(t) => h \notin Queued(a))
  BY <1>1, <1>2 DEF Lent
<1>4. Hand(t) \in {0, 1}
  BY DEF Hand
<1>5. Len(q) + Hand(t) < KcfBuffers
  BY DEF Lent
<1>6. Len(a) + Hand(t) <= KcfBuffers
  BY <1>1, <1>4, <1>5, Sizes
<1>7. d2 \in {"vpp", "sync"} /\ a # << >> => a[Len(a)].surf = x2
  BY <1>1
<1> QED
  BY <1>3, <1>6, <1>7 DEF Lent, a

(* The tracker takes one in hand, *)
LEMMA LentLoad ==
  ASSUME NEW q \in Seq(Stored), q # << >>, NEW t, NEW h, NEW d, NEW x, Lent(q, t, h, d, x),
         ~Holding(t), NEW t2, Holding(t2)
  PROVE  Lent(Tail(q), t2, Head(q).surf, d, x)
<1>1. /\ Len(Tail(q)) = Len(q) - 1 /\ Len(q) \in Nat \ {0}
      /\ Tail(q) # << >> => Tail(q)[Len(Tail(q))] = q[Len(q)]
      /\ OneEach(q) => OneEach(Tail(q)) /\ Head(q).surf \notin Queued(Tail(q))
  BY QueueTail
<1>2. Hand(t) = 0 /\ Hand(t2) = 1
  BY DEF Hand
<1>3. Len(Tail(q)) + Hand(t2) = Len(q) + Hand(t)
  BY <1>1, <1>2
<1> QED
  BY <1>1, <1>3 DEF Lent

(* and gives it back. *)
LEMMA LentPut ==
  ASSUME NEW q \in Seq(Stored), NEW t, NEW h, NEW d, NEW x, Lent(q, t, h, d, x),
         Holding(t), NEW t2, ~Holding(t2), NEW h2
  PROVE  Lent(q, t2, h2, d, x)
<1>1. Hand(t) = 1 /\ Hand(t2) = 0
  BY DEF Hand
<1>2. Len(q) \in Nat
  BY LenProperties
<1>3. Len(q) + Hand(t2) < Len(q) + Hand(t)
  BY <1>1, <1>2
<1>4. Len(q) + Hand(t) <= KcfBuffers
  BY DEF Lent
<1>5. Len(q) + Hand(t2) < KcfBuffers
  BY <1>1, <1>2, <1>3, <1>4, Sizes
<1>6. Len(q) + Hand(t2) <= KcfBuffers
  BY <1>1, <1>2, <1>5, Sizes
<1> QED
  BY <1>5, <1>6 DEF Lent

(* Neither side hands over a surface. *)
LEMMA LentSame ==
  ASSUME NEW q, NEW t, NEW h, NEW d, NEW x, Lent(q, t, h, d, x),
         NEW t2, Holding(t2) <=> Holding(t), NEW d2, NEW x2,
         \/ d2 = d /\ x2 = x
         \/ d2 \notin {"lock", "vpp", "sync"}
         \/ d2 = "lock" /\ Len(q) + Hand(t) < KcfBuffers
         \/ d2 = "sync" /\ d = "vpp" /\ x2 = x
  PROVE  Lent(q, t2, h, d2, x2)
<1>1. Hand(t2) = Hand(t)
  BY DEF Hand
<1> QED
  BY <1>1 DEF Lent

(* Detections that are announced, collected, queued or on their way have a  *)
(* key frame that the tracker has not been given yet or waits with.         *)
Asks(t)  == IF t = "detect" THEN 1 ELSE 0
Sends(d) == IF d \in {"vpp", "sync"} THEN 1 ELSE 0

Owed(q, t, d, n) == Keys(q) + Asks(t) >= n + Sends(d)

(* So many key frames have none. *)
Unserved(q, t, d, n, k) == Keys(q) + Asks(t) = n + Sends(d) + k

(* The surface the VPP reads is not the one the tracker unlocks. *)
LEMMA NotUnlocked ==
  ASSUME NEW q \in Seq(Stored), NEW t, NEW h, NEW d, NEW x, NEW n \in Nat,
         Lent(q, t, h, d, x), Owed(q, t, d, n), d \in {"vpp", "sync"},
         t \in {"update", "unlock", "put"}
  PROVE  h # x
<1>1. Asks(t) = 0 /\ Sends(d) = 1
  BY DEF Asks, Sends
<1>2. Keys(q) + 0 >= n + 1
  BY <1>1 DEF Owed
<1>3. q # << >>
  <2>1. SUFFICES ASSUME q = << >> PROVE FALSE
    OBVIOUS
  <2>2. KeysOf(q) = {}
    BY <2>1 DEF KeysOf
  <2>3. Keys(q) = 0
    BY <2>2, FS_EmptySet DEF Keys
  <2> QED
    BY <2>3, <1>2
<1>4. Len(q) \in Nat \ {0}
  BY <1>3, QueueTail
<1>5. q[Len(q)].surf \in Queued(q)
  BY <1>4 DEF Queued
<1>6. q[Len(q)].surf = x /\ h \notin Queued(q)
  BY <1>3 DEF Lent, Holding
<1> QED
  BY <1>5, <1>6

-----------------------------------------------------------------------------
(* The same of the state, with one channel. *)

Due    == gDetectResultAvaiable[0] + Len(imgs) + Len(infer[0])
Counts == Counted(Locked[0], sdkref[0], Unread(kcf[0], trk[0], held[0].surf), dec[0], cur[0],
                  rd[0], trk[0], held[0].surf, trd[0], raced)
Loans  == Lent(kcf[0], trk[0], held[0].surf, dec[0], cur[0])
Debts  == Owed(kcf[0], trk[0], dec[0], Due)

(* k key frames are in the tracker's pipe or with the tracker that waits,   *)
(* and no detection of them is made, announced or on its way.               *)
WithoutAnswer(k) == Unserved(kcf[0], trk[0], dec[0], Due, k)

(* The types of the channel's state. *)
LEMMA OneChannel ==
  ASSUME NumChannels = 1, Types
  PROVE  /\ Channels = {0} /\ schedCh = 0
         /\ main = "create" => started = 0 /\ dec[0] = "none" /\ trk[0] = "none"
         /\ Locked[0] \in [Surfaces -> Int] /\ sdkref[0] \in SUBSET Surfaces
         /\ kcf[0] \in Seq(Stored) /\ rd[0] \in Int /\ trd[0] \in Int /\ raced \in BOOLEAN
         /\ gDetectResultAvaiable[0] \in Nat /\ Len(imgs) \in Nat /\ Len(infer[0]) \in Nat
         /\ Due \in Nat
<1>1. Channels = {0}
  BY Sizes DEF Channels
<1>2. schedCh = 0
  BY <1>1 DEF Types, MainTypes
<1>3. main = "create" => started = 0
  BY Sizes DEF Types, Begun, MainTypes
<1>4. main = "create" => dec[0] = "none" /\ trk[0] = "none"
  BY <1>1, <1>3 DEF Types, Begun
<1>5. Locked[0] \in [Surfaces -> Int] /\ sdkref[0] \in SUBSET Surfaces
  BY <1>1 DEF Types, SurfTypes
<1>6. kcf[0] \in Seq(Stored) /\ rd[0] \in Int /\ trd[0] \in Int
  BY <1>1 DEF Types, TrkTypes, DecTypes
<1>7. raced \in BOOLEAN
  BY DEF Types, MainTypes
<1>8. gDetectResultAvaiable[0] \in Nat /\ Len(imgs) \in Nat /\ Len(infer[0]) \in Nat
  <2>1. imgs \in Seq(Channels \X Frames) /\ infer[0] \in Seq(Frames)
    BY <1>1 DEF Types, InferTypes
  <2>2. gDetectResultAvaiable[0] \in Nat
    BY <1>1 DEF Types, InferTypes
  <2> QED
    BY <2>1, <2>2, LenProperties
<1>9. Due \in Nat
  BY <1>8 DEF Due
<1> QED
  BY <1>1, <1>2, <1>3, <1>4, <1>5, <1>6, <1>7, <1>8, <1>9

(* Of the next state as well. *)
LEMMA NextChannelTypes ==
  ASSUME NumChannels = 1, Types'
  PROVE  kcf'[0] \in Seq(Stored) /\ Due' \in Nat
<1>1. Channels = {0}
  BY Sizes DEF Channels
<1>2. kcf'[0] \in Seq(Stored)
  BY <1>1 DEF Types, TrkTypes
<1>3. imgs' \in Seq(Channels \X Frames) /\ infer'[0] \in Seq(Frames)
  BY <1>1 DEF Types, InferTypes
<1>4. gDetectResultAvaiable'[0] \in Nat
  BY <1>1 DEF Types, InferTypes
<1>5. Len(imgs') \in Nat /\ Len(infer'[0]) \in Nat
  BY <1>3, LenProperties
<1> QED
  BY <1>2, <1>4, <1>5 DEF Due

LEMMA KeysNumber == \A q \in Seq(Stored) : IsFiniteSet(KeysOf(q)) /\ Keys(q) \in Nat
<1> SUFFICES ASSUME NEW q \in Seq(Stored) PROVE IsFiniteSet(KeysOf(q)) /\ Keys(q) \in Nat
  OBVIOUS
<1>1. Len(q) \in Nat
  BY LenProperties
<1>2. IsFiniteSet(1 .. Len(q)) /\ KeysOf(q) \in SUBSET (1 .. Len(q))
  BY <1>1, FS_Interval DEF KeysOf
<1> QED
  BY <1>2, FS_Subset, FS_CardinalityType DEF Keys

(* What is due, when the scheduler works. *)
LEMMA DueLoad ==
  ASSUME NumChannels = 1, Types, SchedLoad
  PROVE  Due' = Due
<1>1. /\ schedCh = 0 /\ Channels = {0} /\ gDetectResultAvaiable[0] \in Nat
      /\ Len(imgs) \in Nat /\ Len(infer[0]) \in Nat
  BY OneChannel
<1>2. infer \in [Channels -> Seq(Frames)] /\ gDetectResultAvaiable \in [Channels -> Nat]
  BY DEF Types, InferTypes
<1>3. infer[0] # << >> /\ infer'[0] = Tail(infer[0])
  BY <1>1, <1>2 DEF SchedLoad
<1>4. Len(infer'[0]) = Len(infer[0]) - 1
  BY <1>1, <1>2, <1>3, PopHead
<1>5. \/ Len(imgs') = Len(imgs) + 1 /\ gDetectResultAvaiable' = gDetectResultAvaiable
      \/ /\ Len(imgs) + 1 = BatchSize /\ imgs' = << >>
         /\ gDetectResultAvaiable' = [gDetectResultAvaiable EXCEPT ![0] = @ + BatchSize]
  BY Batched DEF detVars
<1>6. gDetectResultAvaiable'[0] + Len(imgs') = gDetectResultAvaiable[0] + Len(imgs) + 1
  <2>1. CASE Len(imgs') = Len(imgs) + 1 /\ gDetectResultAvaiable' = gDetectResultAvaiable
    BY <2>1, <1>1
  <2>2. CASE /\ Len(imgs) + 1 = BatchSize /\ imgs' = << >>
             /\ gDetectResultAvaiable' = [gDetectResultAvaiable EXCEPT ![0] = @ + BatchSize]
    <3>1. gDetectResultAvaiable'[0] = gDetectResultAvaiable[0] + BatchSize /\ Len(imgs') = 0
      BY <2>2, <1>1, <1>2
    <3> QED
      BY <3>1, <2>2, <1>1
  <2> QED
    BY <2>1, <2>2, <1>5
<1>7. gDetectResultAvaiable'[0] \in Nat /\ Len(imgs') \in Nat
  <2>1. Types'
    BY TypesStep DEF Next
  <2>2. imgs' \in Seq(Channels \X Frames) /\ gDetectResultAvaiable' \in [Channels -> Nat]
    BY <2>1 DEF Types, InferTypes
  <2> QED
    BY <2>2, <1>1, LenProperties
<1> QED
  BY <1>1, <1>4, <1>6, <1>7 DEF Due

(* The number of key frames without a detection only grows when the VPP     *)
(* asks for more data.                                                      *)
LEMMA UnservedStep ==
  ASSUME NumChannels = 1, Types, NEW k \in Int, WithoutAnswer(k), [Next]_vars
  PROVE  WithoutAnswer(k)' \/ (DecVppMore(0) /\ WithoutAnswer(k + 1)')
<1>0. /\ Channels = {0} /\ schedCh = 0
      /\ main = "create" => started = 0 /\ dec[0] = "none" /\ trk[0] = "none"
      /\ gDetectResultAvaiable[0] \in Nat /\ Len(imgs) \in Nat /\ Len(infer[0]) \in Nat
  BY OneChannel
<1>a. PICK q \in Seq(Stored) : q = kcf[0]
  BY OneChannel
<1>b. PICK t : t = trk[0]
  OBVIOUS
<1>c. PICK d : d = dec[0]
  OBVIOUS
<1>d. PICK n \in Nat : n = Due
  BY OneChannel
<1>e. Unserved(q, t, d, n, k)
  BY <1>a, <1>b, <1>c, <1>d DEF WithoutAnswer
<1>f. Keys(q) \in Nat
  <2>1. [frame |-> 0, key |-> FALSE, surf |-> 1] \in Stored
    BY Sizes DEF Stored, Surfaces
  <2> QED
    BY <2>1, QueueAppend
<1>g. /\ dec \in [Channels -> {"none", "decode", "kcf", "lock", "vpp", "sync"}]
      /\ trk \in [Channels -> {"none", "wait", "lost", "load", "detect", "update",
                               "unlock", "put"}]
      /\ kcf \in [Channels -> Seq(Stored)] /\ infer \in [Channels -> Seq(Frames)]
      /\ gDetectResultAvaiable \in [Channels -> Nat]
  BY DEF Types, DecTypes, TrkTypes, InferTypes
<1>h. \A y : Asks(y) \in {0, 1} /\ Sends(y) \in {0, 1}
  BY DEF Asks, Sends
<1>i. ASSUME NEW p, NEW u, NEW e, NEW m, NEW j,
             kcf'[0] = p, trk'[0] = u, dec'[0] = e, Due' = m, Unserved(p, u, e, m, j)
      PROVE  WithoutAnswer(j)'
  BY <1>i DEF WithoutAnswer
<1>1. CASE DecStoreKcf(0)
  <2> DEFINE f == [frame |-> FrameOf(0), key |-> IsKey(0), surf |-> cur[0]]
  <2>1. d = "lock" /\ f \in Stored /\ f.key = IsKey(0)
    BY <1>0, <1>1, <1>c, NewFrame DEF DecStoreKcf
  <2>2. kcf'[0] = Append(q, f) /\ trk'[0] = t /\ Due' = n
    BY <1>0, <1>1, <1>a, <1>b, <1>d, <1>g
       DEF DecStoreKcf, trkVars, inferVars, schedVars, detVars, Due
  <2>3. dec'[0] = IF IsKey(0) THEN "vpp" ELSE "decode"
    BY <1>0, <1>1, <1>g DEF DecStoreKcf, DecGoto
  <2> HIDE DEF f
  <2>4. Keys(Append(q, f)) = Keys(q) + One(f.key)
    BY <2>1, QueueAppend
  <2>5. One(f.key) = Sends(dec'[0]) /\ Sends(d) = 0
    BY <2>1, <2>3 DEF One, Sends
  <2>6. Unserved(Append(q, f), t, dec'[0], n, k)
    <3>1. PICK j \in {0, 1} : j = One(f.key)
      BY <2>5, <1>h
    <3>2. Keys(q) + Asks(t) = n + 0 + k
      BY <1>e, <2>5 DEF Unserved
    <3>3. (Keys(q) + j) + Asks(t) = n + j + k
      BY <3>2, <1>f, <1>h
    <3> QED
      BY <3>1, <3>3, <2>4, <2>5 DEF Unserved
  <2> QED
    BY <2>2, <2>6, <1>i
<1>2. CASE DecVpp(0)
  <2>1. d = "vpp" /\ kcf'[0] = q /\ trk'[0] = t /\ dec'[0] = "sync" /\ Due' = n
    BY <1>0, <1>2, <1>a, <1>b, <1>c, <1>d, <1>g
       DEF DecVpp, DecGoto, kcfVars, trkVars, inferVars, schedVars, detVars, Due
  <2>2. Unserved(q, t, "sync", n, k)
    BY <1>e, <2>1 DEF Unserved, Sends
  <2> QED
    BY <2>1, <2>2, <1>i
<1>3. CASE DecVppMore(0)
  <2>1. d = "vpp" /\ kcf'[0] = q /\ trk'[0] = t /\ dec'[0] = "decode" /\ Due' = n
    BY <1>0, <1>3, <1>a, <1>b, <1>c, <1>d, <1>g
       DEF DecVppMore, DecGoto, kcfVars, trkVars, inferVars, schedVars, detVars, Due
  <2>2. Sends(d) = 1 /\ Sends("decode") = 0
    BY <2>1 DEF Sends
  <2>3. Unserved(q, t, "decode", n, k + 1)
    BY <1>e, <1>f, <1>h, <2>2 DEF Unserved
  <2> QED
    BY <1>3, <2>1, <2>3, <1>i
<1>4. CASE DecSync(0)
  <2>1. d = "sync" /\ kcf'[0] = q /\ trk'[0] = t /\ dec'[0] = "decode"
    BY <1>0, <1>4, <1>a, <1>b, <1>c, <1>g DEF DecSync, DecGoto, kcfVars, trkVars
  <2>2. FrameOf(0) \in Frames
    BY <1>0, Sizes DEF Types, DecTypes, FrameOf
  <2>3. infer'[0] = Append(infer[0], FrameOf(0)) /\ UNCHANGED <<gDetectResultAvaiable, imgs>>
    BY <1>0, <1>4, <1>g DEF DecSync, schedVars, detVars
  <2>4. Len(infer'[0]) = Len(infer[0]) + 1
    BY <2>2, <2>3, <1>0, <1>g, PushTail
  <2>5. Due' = n + 1
    <3>1. PICK m \in Nat, i \in Nat, j \in Nat :
            m = gDetectResultAvaiable[0] /\ i = Len(imgs) /\ j = Len(infer[0])
      BY <1>0
    <3>2. gDetectResultAvaiable'[0] = m /\ Len(imgs') = i /\ Len(infer'[0]) = j + 1
      BY <3>1, <2>3, <2>4
    <3>3. n = m + i + j
      BY <3>1, <1>d DEF Due
    <3> QED
      BY <3>2, <3>3 DEF Due
  <2>6. Sends(d) = 1 /\ Sends("decode") = 0
    BY <2>1 DEF Sends
  <2>7. Unserved(q, t, "decode", n + 1, k)
    BY <1>e, <1>f, <1>h, <2>6 DEF Unserved
  <2> QED
    BY <2>1, <2>5, <2>7, <1>i
<1>5. CASE TrkLoad(0)
  <2>1. t = "load" /\ q # << >> /\ kcf'[0] = Tail(q) /\ dec'[0] = d /\ Due' = n
    BY <1>0, <1>5, <1>a, <1>b, <1>c, <1>d, <1>g
       DEF TrkLoad, decVars, inferVars, schedVars, detVars, Due
  <2>2. trk'[0] = IF Head(q).key THEN "detect" ELSE "update"
    BY <1>0, <1>5, <1>a, <1>g DEF TrkLoad, TrkGoto
  <2>3. Keys(q) = Keys(Tail(q)) + One(Head(q).key) /\ Keys(Tail(q)) \in Nat
    BY <2>1, QueueTail
  <2>4. One(Head(q).key) = Asks(trk'[0]) /\ Asks(t) = 0
    BY <2>1, <2>2 DEF One, Asks
  <2>5. Keys(q) + 0 = n + Sends(d) + k
    BY <1>e, <2>4 DEF Unserved
  <2>6. Unserved(Tail(q), trk'[0], d, n, k)
    BY <2>3, <2>4, <2>5, <1>h DEF Unserved
  <2> QED
    BY <2>1, <2>6, <1>i
<1>6. CASE TrkDetect(0)
  <2>1. t = "detect" /\ kcf'[0] = q /\ trk'[0] = "unlock" /\ dec'[0] = d
    BY <1>0, <1>6, <1>a, <1>b, <1>c, <1>g DEF TrkDetect, TrkGoto, decVars, kcfVars
  <2>2. /\ gDetectResultAvaiable[0] > 0 /\ UNCHANGED <<imgs, infer>>
        /\ gDetectResultAvaiable'[0] = gDetectResultAvaiable[0] - 1
    BY <1>0, <1>6, <1>g DEF TrkDetect, inferVars, schedVars
  <2>3. Due' = n - 1
    BY <2>2, <1>0, <1>d DEF Due
  <2>4. Asks(t) = 1 /\ Asks("unlock") = 0
    BY <2>1 DEF Asks
  <2>5. Unserved(q, "unlock", d, n - 1, k)
    BY <1>e, <1>f, <1>h, <2>4 DEF Unserved
  <2> QED
    BY <2>1, <2>3, <2>5, <1>i
<1>7. CASE SchedLoad
  <2>1. kcf'[0] = q /\ trk'[0] = t /\ dec'[0] = d
    BY <1>7, <1>a, <1>b, <1>c DEF SchedLoad, decVars, kcfVars, trkVars
  <2>2. Due' = n
    BY <1>7, <1>d, DueLoad
  <2> QED
    BY <2>1, <2>2, <1>e, <1>i
<1>8. CASE MainSemTrack
  <2>1. kcf'[0] = q /\ dec'[0] = d /\ UNCHANGED <<imgs, infer>> /\ gDetectResultAvaiable'[0] = 0
    BY <1>0, <1>8, <1>a, <1>c DEF MainSemTrack, decVars, inferVars, schedVars
  <2>4. gDetectResultAvaiable[0] = 0
    BY <1>0, <1>8 DEF MainSemTrack, Types, Begun
  <2>2. Asks(trk'[0]) = Asks(t)
    BY <1>0, <1>8, <1>b, <1>g DEF MainSemTrack, Asks
  <2>3. Due' = n
    BY <2>1, <2>4, <1>d DEF Due
  <2>5. Unserved(q, trk'[0], d, n, k)
    BY <2>2, <1>e DEF Unserved
  <2> QED
    BY <2>1, <2>3, <2>5, <1>i
<1>9. CASE \/ DecMore(0) \/ DecFrame(0) \/ DecGetKcf(0) \/ SdkRelease(0) \/ TrkWait(0)
           \/ TrkUpdate(0) \/ TrkPut(0) \/ SchedWait \/ MainCreate \/ MainSemTask
           \/ UNCHANGED vars
  <2>1. kcf'[0] = q /\ UNCHANGED <<imgs, infer, gDetectResultAvaiable>>
    BY <1>9, <1>a DEF DecMore, DecFrame, DecGetKcf, SdkRelease, TrkWait, TrkUpdate, TrkPut,
                SchedWait, MainCreate, MainSemTask, vars, kcfVars, inferVars, schedVars, detVars
  <2>2. Asks(trk'[0]) = Asks(t)
    BY <1>0, <1>9, <1>b, <1>g
       DEF DecMore, DecFrame, DecGetKcf, SdkRelease, TrkWait, TrkUpdate, TrkPut, SchedWait,
           MainCreate, MainSemTask, vars, trkVars, TrkGoto, Asks
  <2>3. Sends(dec'[0]) = Sends(d)
    BY <1>0, <1>9, <1>c, <1>g
       DEF DecMore, DecFrame, DecGetKcf, SdkRelease, TrkWait, TrkUpdate, TrkPut, SchedWait,
           MainCreate, MainSemTask, vars, decVars, DecGoto, Sends
  <2>4. Due' = n
    BY <2>1, <1>d DEF Due
  <2>5. Unserved(q, trk'[0], dec'[0], n, k)
    BY <2>2, <2>3, <1>e DEF Unserved
  <2> QED
    BY <2>1, <2>4, <2>5, <1>i
<1> QED
  BY <1>0, <1>1, <1>2, <1>3, <1>4, <1>5, <1>6, <1>7, <1>8, <1>9
     DEF Next, DecStep, TrkStep, MainStep

(* Detections are owed for key frames only. *)
LEMMA DebtsStep ==
  ASSUME NumChannels = 1, Types, Debts, [Next]_vars
  PROVE  Debts'
<1>1. PICK k \in Nat : WithoutAnswer(k)
  <2>1. Keys(kcf[0]) \in Nat /\ Due \in Nat
    BY OneChannel, KeysNumber
  <2>2. Asks(trk[0]) \in Nat /\ Sends(dec[0]) \in Nat
    BY DEF Asks, Sends
  <2>3. PICK a \in Nat, b \in Nat : a = Keys(kcf[0]) + Asks(trk[0]) /\ b = Due + Sends(dec[0])
    BY <2>1, <2>2
  <2>4. a >= b
    BY <2>3 DEF Debts, Owed
  <2>5. a - b \in Nat /\ a = b + (a - b)
    BY <2>4
  <2>6. WithoutAnswer(a - b)
    BY <2>3, <2>5 DEF WithoutAnswer, Unserved
  <2> QED
    BY <2>5, <2>6
<1>2. PICK j \in Nat : WithoutAnswer(j)'
  <2>1. k + 1 \in Nat /\ k \in Int
    OBVIOUS
  <2> QED
    BY <1>1, <2>1, UnservedStep
<1>3. Types'
  BY TypesStep
<1>4. Keys(kcf'[0]) \in Nat /\ Due' \in Nat
  BY <1>3, NextChannelTypes, KeysNumber
<1>5. PICK a, b : a = Keys(kcf'[0]) + Asks(trk'[0]) /\ b = Due' + Sends(dec'[0])
  OBVIOUS
<1>6. b \in Nat
  <2>1. PICK e \in Nat : e = Due'
    BY <1>4
  <2>2. PICK g \in Nat : g = Sends(dec'[0])
    BY DEF Sends
  <2> QED
    BY <2>1, <2>2, <1>5
<1>7. a = b + j
  BY <1>2, <1>5 DEF WithoutAnswer, Unserved
<1>8. a >= b
  BY <1>6, <1>7
<1> QED
  BY <1>5, <1>8 DEF Debts, Owed

(* The surfaces lent to the tracker. *)
LEMMA LoansStep ==
  ASSUME NumChannels = 1, Types, Counts, Loans, [Next]_vars
  PROVE  Loans'
<1>0. /\ Channels = {0}
      /\ main = "create" => started = 0 /\ dec[0] = "none" /\ trk[0] = "none"
  BY OneChannel
<1>a. PICK q \in Seq(Stored) : q = kcf[0]
  BY OneChannel
<1>b. PICK t, h : t = trk[0] /\ h = held[0].surf
  OBVIOUS
<1>c. PICK d, x : d = dec[0] /\ x = cur[0]
  OBVIOUS
<1>d. Lent(q, t, h, d, x)
  BY <1>a, <1>b, <1>c DEF Loans
<1>e. /\ dec \in [Channels -> {"none", "decode", "kcf", "lock", "vpp", "sync"}]
      /\ trk \in [Channels -> {"none", "wait", "lost", "load", "detect", "update",
                               "unlock", "put"}]
      /\ kcf \in [Channels -> Seq(Stored)] /\ held \in [Channels -> Stored \cup {Null}]
      /\ cur \in [Channels -> Surfaces \cup {Own}]
  BY DEF Types, DecTypes, TrkTypes
<1>f. ASSUME NEW p, NEW u, NEW g, NEW e, NEW y, kcf'[0] = p, trk'[0] = u, held'[0].surf = g,
             dec'[0] = e, cur'[0] = y, Lent(p, u, g, e, y)
      PROVE  Loans'
  BY <1>f DEF Loans
<1>1. CASE DecGetKcf(0)
  <2>1. kcf'[0] = q /\ trk'[0] = t /\ held'[0].surf = h /\ dec'[0] = "lock" /\ cur'[0] = x
    BY <1>0, <1>1, <1>a, <1>b, <1>c, <1>e DEF DecGetKcf, DecGoto, kcfVars, trkVars
  <2>2. Len(q) + Hand(t) < KcfBuffers
    BY <1>1, <1>a, <1>b DEF DecGetKcf, TrackerHolds, Hand, Holding
  <2>3. Lent(q, t, h, "lock", x)
    BY <2>2, <1>d, LentSame
  <2> QED
    BY <2>1, <2>3, <1>f
<1>2. CASE DecStoreKcf(0)
  <2> DEFINE f == [frame |-> FrameOf(0), key |-> IsKey(0), surf |-> cur[0]]
  <2>1. d = "lock" /\ f \in Stored /\ f.surf = x
    BY <1>0, <1>2, <1>c, NewFrame DEF DecStoreKcf
  <2>2. kcf'[0] = Append(q, f) /\ trk'[0] = t /\ held'[0].surf = h
    BY <1>0, <1>2, <1>a, <1>b, <1>e DEF DecStoreKcf, trkVars
  <2>3. \/ dec'[0] = "vpp" /\ cur'[0] = x
        \/ dec'[0] = "decode"
    BY <1>0, <1>2, <1>c, <1>e DEF DecStoreKcf, DecGoto
  <2> HIDE DEF f
  <2>4. x \notin Unread(q, t, h)
    BY <2>1, <1>a, <1>b, <1>c DEF Counts, Counted
  <2>5. PICK e, y : e = dec'[0] /\ y = cur'[0]
    OBVIOUS
  <2>6. e \in {"vpp", "decode"} /\ (e = "vpp" => y = x)
    BY <2>3, <2>5
  <2>7. Lent(Append(q, f), t, h, e, y)
    BY <2>1, <2>4, <2>6, <1>d, LentStore
  <2> QED
    BY <2>2, <2>5, <2>7, <1>f
<1>3. CASE TrkLoad(0)
  <2>1. t = "load" /\ q # << >> /\ kcf'[0] = Tail(q) /\ dec'[0] = d /\ cur'[0] = x
    BY <1>0, <1>3, <1>a, <1>b, <1>c, <1>e DEF TrkLoad, decVars
  <2>2. trk'[0] \in {"detect", "update"} /\ held'[0].surf = Head(q).surf
    BY <1>0, <1>3, <1>a, <1>e DEF TrkLoad, TrkGoto
  <2>3. PICK u : u = trk'[0]
    OBVIOUS
  <2>4. ~Holding(t) /\ Holding(u)
    BY <2>1, <2>2, <2>3 DEF Holding
  <2>5. Lent(Tail(q), u, Head(q).surf, d, x)
    BY <2>1, <2>4, <1>d, LentLoad
  <2> QED
    BY <2>1, <2>2, <2>3, <2>5, <1>f
<1>4. CASE TrkPut(0)
  <2>1. t = "put" /\ trk'[0] = "load" /\ kcf'[0] = q /\ dec'[0] = d /\ cur'[0] = x
    BY <1>0, <1>4, <1>a, <1>b, <1>c, <1>e DEF TrkPut, TrkGoto, kcfVars, decVars
  <2>2. Holding(t) /\ ~Holding("load")
    BY <2>1 DEF Holding
  <2>3. PICK g : g = held'[0].surf
    OBVIOUS
  <2>4. Lent(q, "load", g, d, x)
    BY <2>2, <1>d, LentPut
  <2> QED
    BY <2>1, <2>3, <2>4, <1>f
<1>5. CASE \/ DecMore(0) \/ DecFrame(0) \/ DecVpp(0) \/ DecSync(0) \/ DecVppMore(0)
           \/ SdkRelease(0) \/ TrkWait(0) \/ TrkDetect(0) \/ TrkUpdate(0) \/ SchedWait
           \/ SchedLoad \/ MainStep \/ UNCHANGED vars
  <2>1. kcf'[0] = q /\ held'[0].surf = h
    BY <1>5, <1>a, <1>b
       DEF DecMore, DecFrame, DecVpp, DecSync, DecVppMore, SdkRelease, TrkWait, TrkDetect,
           TrkUpdate, SchedWait, SchedLoad, MainStep, MainCreate, MainSemTrack, MainSemTask, vars,
           kcfVars, trkVars
  <2>2. PICK u, e, y : u = trk'[0] /\ e = dec'[0] /\ y = cur'[0]
    OBVIOUS
  <2>3. Holding(u) <=> Holding(t)
    BY <1>0, <1>5, <1>b, <1>e, <2>2
       DEF DecMore, DecFrame, DecVpp, DecSync, DecVppMore, SdkRelease, TrkWait, TrkDetect,
           TrkUpdate, SchedWait, SchedLoad, MainStep, MainCreate, MainSemTrack, MainSemTask, vars,
           trkVars, TrkGoto, Holding
  <2>4. \/ e = d /\ y = x
        \/ e \notin {"lock", "vpp", "sync"}
        \/ e = "sync" /\ d = "vpp" /\ y = x
    BY <1>0, <1>5, <1>c, <1>e, <2>2
       DEF DecMore, DecFrame, DecVpp, DecSync, DecVppMore, SdkRelease, TrkWait, TrkDetect,
           TrkUpdate, SchedWait, SchedLoad, MainStep, MainCreate, MainSemTrack, MainSemTask, vars,
           decVars, DecGoto
  <2>5. Lent(q, u, h, e, y)
    BY <2>3, <2>4, <1>d, LentSame
  <2> QED
    BY <2>1, <2>2, <2>5, <1>f
<1> QED
  BY <1>0, <1>1, <1>2, <1>3, <1>4, <1>5 DEF Next, DecStep, TrkStep

(* The counts, under every update of Data.Locked. *)
LEMMA CountsStep ==
  ASSUME NumChannels = 1, Types, Counts, Loans, Debts, [Next]_vars
  PROVE  Counts'
<1>0. /\ Channels = {0}
      /\ main = "create" => started = 0 /\ dec[0] = "none" /\ trk[0] = "none"
  BY OneChannel
<1>a. PICK q \in Seq(Stored) : q = kcf[0]
  BY OneChannel
<1>b. PICK L \in [Surfaces -> Int], R \in SUBSET Surfaces : L = Locked[0] /\ R = sdkref[0]
  BY OneChannel
<1>c. PICK d, x, r : d = dec[0] /\ x = cur[0] /\ r = rd[0] /\ r \in Int
  BY OneChannel
<1>d. PICK t, h, v : t = trk[0] /\ h = held[0].surf /\ v = trd[0] /\ v \in Int
  BY OneChannel
<1>e. PICK rc \in BOOLEAN : rc = raced
  BY OneChannel
<1>m. PICK P : P = Unread(q, t, h)
  OBVIOUS
<1>f. Counted(L, R, P, d, x, r, t, h, v, rc)
  BY <1>a, <1>b, <1>c, <1>d, <1>e, <1>m DEF Counts
<1>g. d \in {"kcf", "lock", "vpp", "sync"} => x \in Surfaces
  BY <1>0, <1>c DEF Types, Hands
<1>h. Holding(t) => h \in Surfaces
  <2>1. Holding(t) => held[0] \in Stored
    BY <1>0, <1>d DEF Types, Hands, TrackerHolds, Holding
  <2> QED
    BY <2>1, <1>d DEF Stored
<1>i. d \in {"vpp", "sync"} /\ t = "put" => h # x
  <2>1. PICK n \in Nat : n = Due
    BY OneChannel
  <2>2. Lent(q, t, h, d, x) /\ Owed(q, t, d, n)
    BY <2>1, <1>a, <1>c, <1>d DEF Loans, Debts
  <2> QED
    BY <2>2, NotUnlocked
<1>j. /\ dec \in [Channels -> {"none", "decode", "kcf", "lock", "vpp", "sync"}]
      /\ trk \in [Channels -> {"none", "wait", "lost", "load", "detect", "update",
                               "unlock", "put"}]
      /\ kcf \in [Channels -> Seq(Stored)] /\ held \in [Channels -> Stored \cup {Null}]
      /\ cur \in [Channels -> Surfaces \cup {Own}]
      /\ rd \in [Channels -> Int] /\ trd \in [Channels -> Int]
      /\ Locked \in [Channels -> [Surfaces -> Int]] /\ sdkref \in [Channels -> SUBSET Surfaces]
  BY DEF Types, DecTypes, TrkTypes, SurfTypes
<1>k. t = "put" => h \in Surfaces
  BY <1>h DEF Holding
<1>l. ASSUME NEW M, NEW Q, NEW p, NEW e, NEW y, NEW a, NEW u, NEW g, NEW w, NEW rc2,
             Locked'[0] = M, sdkref'[0] = Q, kcf'[0] = p, dec'[0] = e, cur'[0] = y, rd'[0] = a,
             trk'[0] = u, held'[0].surf = g, trd'[0] = w, raced' = rc2,
             Counted(M, Q, Unread(p, u, g), e, y, a, u, g, w, rc2)
      PROVE  Counts'
  BY <1>l DEF Counts
<1>1. CASE DecFrame(0)
  <2>1. PICK s : s = GetFreeSurfaceIndex(FreeSurfaces(0))
    OBVIOUS
  <2>2. s \in Surfaces /\ L[s] = 0
    <3>1. DecTypes /\ CanDecode(0) /\ 0 \in Channels
      BY <1>0, <1>1 DEF Types, DecFrame
    <3> QED
      BY <3>1, <2>1, <1>b, Free
  <2>3. d = "decode" /\ dec'[0] = "kcf" /\ cur'[0] = s /\ rd'[0] = r
    BY <1>0, <1>1, <1>c, <1>j, <2>1 DEF DecFrame, DecGoto
  <2>4. kcf'[0] = q /\ trk'[0] = t /\ held'[0].surf = h /\ trd'[0] = v /\ raced' = rc
    BY <1>1, <1>a, <1>d, <1>e DEF DecFrame, kcfVars, trkVars
  <2>5. PICK M, Q : M = Locked'[0] /\ Q = sdkref'[0]
    OBVIOUS
  <2>6. \/ M = L /\ Q = R
        \/ M = [L EXCEPT ![s] = 1] /\ Q = R \cup {s}
    BY <1>0, <1>1, <1>b, <1>j, <2>1, <2>5 DEF DecFrame
  <2>7. Counted(M, Q, P, "kcf", s, r, t, h, v, rc)
    BY <2>2, <2>3, <2>6, <1>f, <1>k, CountFrame
  <2> QED
    BY <2>3, <2>4, <2>5, <2>7, <1>m, <1>l
<1>2. CASE DecGetKcf(0)
  <2>1. d = "kcf" /\ dec'[0] = "lock" /\ cur'[0] = x /\ rd'[0] = L[x]
    BY <1>0, <1>2, <1>b, <1>c, <1>j DEF DecGetKcf, DecGoto
  <2>2. /\ Locked'[0] = L /\ sdkref'[0] = R /\ raced' = rc /\ kcf'[0] = q
        /\ trk'[0] = t /\ held'[0].surf = h /\ trd'[0] = v
    BY <1>2, <1>a, <1>b, <1>d, <1>e DEF DecGetKcf, surfVars, kcfVars, trkVars
  <2>3. x \in Surfaces
    BY <2>1, <1>g
  <2>4. Counted(L, R, P, "lock", x, L[x], t, h, v, rc)
    BY <2>1, <2>3, <1>f, CountRead
  <2> QED
    BY <2>1, <2>2, <2>4, <1>m, <1>l
<1>3. CASE DecStoreKcf(0)
  <2>a. PICK M : M = Locked'[0]
    OBVIOUS
  <2>b. M[x] = r + 1 /\ \A u \in Surfaces : u # x => M[u] = L[u]
    <3>1. x \in Surfaces
      BY <1>3, <1>c, <1>g DEF DecStoreKcf
    <3>2. Locked'[0] = [L EXCEPT ![x] = r + 1]
      BY <1>0, <1>3, <1>b, <1>c, <1>j DEF DecStoreKcf
    <3> QED
      BY <2>a, <3>1, <3>2
  <2> DEFINE f == [frame |-> FrameOf(0), key |-> IsKey(0), surf |-> cur[0]]
  <2>1. d = "lock" /\ f \in Stored /\ f.surf = x
    BY <1>0, <1>3, <1>c, NewFrame DEF DecStoreKcf
  <2>2. kcf'[0] = Append(q, f) /\ trk'[0] = t /\ held'[0].surf = h /\ trd'[0] = v
    BY <1>0, <1>3, <1>a, <1>d, <1>j DEF DecStoreKcf, trkVars
  <2>3. sdkref'[0] = R /\ rd'[0] = 0
    BY <1>0, <1>3, <1>b, <1>c, <1>j DEF DecStoreKcf
  <2>4. dec'[0] \in {"vpp", "decode"}
    BY <1>0, <1>3, <1>j DEF DecStoreKcf, DecGoto
  <2> HIDE DEF f
  <2>5. PICK e, y : e = dec'[0] /\ y = cur'[0]
    OBVIOUS
  <2>f. d = "lock" /\ e \notin {"kcf", "lock", "sync"}
    BY <2>1, <2>4, <2>5
  <2>c. PICK rc2 \in BOOLEAN : rc2 = raced'
    BY <1>3 DEF DecStoreKcf
  <2>e. rc2 \in {rc, TRUE} /\ (L[x] # r => rc2)
    BY <1>3, <1>b, <1>c, <1>e, <2>c DEF DecStoreKcf
  <2>6. Counted(L, R, P, d, x, r, t, h, v, rc2)
    BY <2>e, <1>f, CountRaced
  <2>7. x \in Surfaces
    BY <2>1, <1>g
  <2>d. PICK Q : Q = P \cup {x}
    OBVIOUS
  <2>8. Counted(M, R, Q, e, y, 0, t, h, v, rc2)
    BY <2>6, <2>7, <2>b, <2>d, <2>e, <2>f, <1>c, <1>k, CountStore
  <2>9. Unread(Append(q, f), t, h) = Q
    BY <2>1, <2>d, <1>m, ToRead
  <2> QED
    BY <2>a, <2>c, <2>2, <2>3, <2>5, <2>8, <2>9, <1>m, <1>l
<1>4. CASE DecVpp(0)
  <2>a. PICK M : M = Locked'[0]
    OBVIOUS
  <2>b. M[x] = L[x] + 1 /\ \A u \in Surfaces : u # x => M[u] = L[u]
    <3>1. x \in Surfaces
      BY <1>4, <1>c, <1>g DEF DecVpp
    <3>2. Locked'[0] = [L EXCEPT ![x] = @ + 1]
      BY <1>0, <1>4, <1>b, <1>c, <1>j, <3>1 DEF DecVpp
    <3> QED
      BY <2>a, <3>1, <3>2
  <2>1. d = "vpp" /\ dec'[0] = "sync" /\ cur'[0] = x /\ rd'[0] = r
    BY <1>0, <1>4, <1>c, <1>j DEF DecVpp, DecGoto
  <2>2. x \in Surfaces
    BY <2>1, <1>g
  <2>4. /\ sdkref'[0] = R /\ raced' = rc /\ kcf'[0] = q
        /\ trk'[0] = t /\ held'[0].surf = h /\ trd'[0] = v
    BY <1>4, <1>a, <1>b, <1>d, <1>e DEF DecVpp, kcfVars, trkVars
  <2>5. Counted(M, R, P, "sync", x, r, t, h, v, rc)
    BY <2>1, <2>2, <2>b, <1>f, <1>i, <1>k, CountVpp
  <2> QED
    BY <2>a, <2>1, <2>4, <2>5, <1>m, <1>l
<1>5. CASE DecSync(0)
  <2>a. PICK M : M = Locked'[0]
    OBVIOUS
  <2>b. M[x] = L[x] - 1 /\ \A u \in Surfaces : u # x => M[u] = L[u]
    <3>1. x \in Surfaces
      BY <1>5, <1>c, <1>g DEF DecSync
    <3>2. Locked'[0] = [L EXCEPT ![x] = @ - 1]
      BY <1>0, <1>5, <1>b, <1>c, <1>j, <3>1 DEF DecSync
    <3> QED
      BY <2>a, <3>1, <3>2
  <2>1. d = "sync" /\ dec'[0] = "decode" /\ rd'[0] = r
    BY <1>0, <1>5, <1>c, <1>j DEF DecSync, DecGoto
  <2>2. x \in Surfaces
    BY <2>1, <1>g
  <2>4. /\ sdkref'[0] = R /\ raced' = rc /\ kcf'[0] = q
        /\ trk'[0] = t /\ held'[0].surf = h /\ trd'[0] = v
    BY <1>5, <1>a, <1>b, <1>d, <1>e DEF DecSync, kcfVars, trkVars
  <2>5. PICK y : y = cur'[0]
    OBVIOUS
  <2>6. Counted(M, R, P, "decode", y, r, t, h, v, rc)
    BY <2>1, <2>2, <2>b, <1>f, <1>i, <1>k, CountSync
  <2> QED
    BY <2>a, <2>1, <2>4, <2>5, <2>6, <1>m, <1>l
<1>6. CASE DecVppMore(0)
  <2>1. d = "vpp" /\ dec'[0] = "decode" /\ rd'[0] = r
    BY <1>0, <1>6, <1>c, <1>j DEF DecVppMore, DecGoto
  <2>2. /\ Locked'[0] = L /\ sdkref'[0] = R /\ raced' = rc /\ kcf'[0] = q
        /\ trk'[0] = t /\ held'[0].surf = h /\ trd'[0] = v
    BY <1>6, <1>a, <1>b, <1>d, <1>e DEF DecVppMore, surfVars, kcfVars, trkVars
  <2>3. PICK y : y = cur'[0]
    OBVIOUS
  <2>4. Counted(L, R, P, "decode", y, r, t, h, v, rc)
    BY <2>1, <1>f, CountMore
  <2> QED
    BY <2>1, <2>2, <2>3, <2>4, <1>m, <1>l
<1>7. CASE SdkRelease(0)
  <2>1. PICK s \in R : /\ sdkref' = [sdkref EXCEPT ![0] = @ \ {s}]
                       /\ Locked' = [Locked EXCEPT ![0][s] = @ - 1]
    BY <1>7, <1>b DEF SdkRelease
  <2>2. s \in Surfaces
    OBVIOUS
  <2>a. PICK M : M = Locked'[0]
    OBVIOUS
  <2>b. M[s] = L[s] - 1 /\ \A u \in Surfaces : u # s => M[u] = L[u]
    <3>1. Locked'[0] = [L EXCEPT ![s] = @ - 1]
      BY <1>0, <1>b, <1>j, <2>1, <2>2
    <3> QED
      BY <2>a, <2>2, <3>1
  <2>3. sdkref'[0] = R \ {s}
    BY <1>0, <1>b, <1>j, <2>1
  <2>4. /\ dec'[0] = d /\ cur'[0] = x /\ rd'[0] = r /\ raced' = rc /\ kcf'[0] = q
        /\ trk'[0] = t /\ held'[0].surf = h /\ trd'[0] = v
    BY <1>7, <1>a, <1>c, <1>d, <1>e DEF SdkRelease, decVars, kcfVars, trkVars
  <2>5. d \in {"kcf", "lock"} => x \in Surfaces
    BY <1>g
  <2>6. Counted(M, R \ {s}, P, d, x, r, t, h, v, rc)
    BY SMTT(60), <2>2, <2>5, <2>b, <1>c, <1>d, <1>f, <1>k, CountRelease
  <2> QED
    BY <2>a, <2>3, <2>4, <2>6, <1>m, <1>l
<1>8. CASE TrkLoad(0)
  <2>1. /\ t = "load" /\ q # << >> /\ kcf'[0] = Tail(q)
        /\ dec'[0] = d /\ cur'[0] = x /\ rd'[0] = r
    BY <1>0, <1>8, <1>a, <1>c, <1>d, <1>j DEF TrkLoad, decVars
  <2>2. Locked'[0] = L /\ sdkref'[0] = R /\ raced' = rc /\ trd'[0] = v
    BY <1>8, <1>b, <1>d, <1>e DEF TrkLoad, surfVars
  <2>3. trk'[0] \in {"detect", "update"} /\ held'[0].surf = Head(q).surf
    BY <1>0, <1>8, <1>a, <1>j DEF TrkLoad, TrkGoto
  <2>4. PICK u : u = trk'[0]
    OBVIOUS
  <2>5. ~Holding(t) /\ Holding(u) /\ u # "put" /\ t # "put"
    BY <2>1, <2>3, <2>4 DEF Holding
  <2>6. Unread(Tail(q), u, Head(q).surf) = P
    BY <2>1, <2>5, <1>m, ToRead
  <2>7. Counted(L, R, P, d, x, r, u, Head(q).surf, v, rc)
    BY <2>5, <1>f, CountElsewhere
  <2> QED
    BY <2>1, <2>2, <2>3, <2>4, <2>6, <2>7, <1>m, <1>l
<1>9. CASE TrkUpdate(0)
  <2>1. t \in {"update", "unlock"} /\ trk'[0] = "put" /\ trd'[0] = L[h]
    BY <1>0, <1>9, <1>b, <1>d, <1>j DEF TrkUpdate, TrkGoto
  <2>2. /\ Locked'[0] = L /\ sdkref'[0] = R /\ raced' = rc /\ kcf'[0] = q /\ held'[0].surf = h
        /\ dec'[0] = d /\ cur'[0] = x /\ rd'[0] = r
    BY <1>9, <1>a, <1>b, <1>c, <1>d, <1>e DEF TrkUpdate, surfVars, kcfVars, decVars
  <2>3. Unread(q, "put", h) = P /\ h \in P
    BY <2>1, <1>m DEF Unread
  <2>4. Counted(L, R, P, d, x, r, "put", h, L[h], rc)
    BY <2>3, <1>f, CountUpdate
  <2> QED
    BY <2>1, <2>2, <2>3, <2>4, <1>m, <1>l
<1>10. CASE TrkPut(0)
  <2>a. PICK M : M = Locked'[0]
    OBVIOUS
  <2>b. M[h] = v - 1 /\ \A u \in Surfaces : u # h => M[u] = L[u]
    <3>1. h \in Surfaces
      BY <1>10, <1>d, <1>k DEF TrkPut
    <3>2. Locked'[0] = [L EXCEPT ![h] = v - 1]
      BY <1>0, <1>10, <1>b, <1>d, <1>j DEF TrkPut
    <3> QED
      BY <2>a, <3>1, <3>2
  <2>1. t = "put" /\ trk'[0] = "load" /\ trd'[0] = 0
    BY <1>0, <1>10, <1>b, <1>d, <1>j DEF TrkPut, TrkGoto
  <2>2. /\ sdkref'[0] = R /\ kcf'[0] = q /\ dec'[0] = d /\ cur'[0] = x /\ rd'[0] = r
    BY <1>10, <1>a, <1>b, <1>c DEF TrkPut, kcfVars, decVars
  <2>3. PICK g : g = held'[0].surf
    OBVIOUS
  <2>c. PICK rc2 \in BOOLEAN : rc2 = raced'
    BY <1>10 DEF TrkPut
  <2>e. rc2 \in {rc, TRUE} /\ (L[h] # v => rc2)
    BY <1>10, <1>b, <1>d, <1>e, <2>c DEF TrkPut
  <2>4. Counted(L, R, P, d, x, r, t, h, v, rc2)
    BY <2>e, <1>f, CountRaced
  <2>5. h \in Surfaces
    BY <2>1, <1>k
  <2>d. PICK Q : Q = P \ {h}
    OBVIOUS
  <2>6. Counted(M, R, Q, d, x, r, "load", g, 0, rc2)
    BY <2>1, <2>4, <2>5, <2>b, <2>d, <2>e, <1>d, <1>g, CountPut
  <2>7. Q = Unread(q, "load", g)
    <3>1. Holding(t) /\ ~Holding("load")
      BY <2>1 DEF Holding
    <3>2. h \notin Queued(q)
      BY <3>1, <1>a, <1>d DEF Loans, Lent
    <3>3. P = Queued(q) \cup {h} /\ Unread(q, "load", g) = Queued(q)
      BY <3>1, <1>m, ToRead
    <3> QED
      BY <2>d, <3>2, <3>3
  <2> QED
    BY <2>a, <2>c, <2>1, <2>2, <2>3, <2>6, <2>7, <1>m, <1>l
<1>11. CASE MainCreate
  <2>1. d = "none" /\ t = "none" /\ dec'[0] = "decode" /\ trk'[0] = "wait"
    BY <1>0, <1>11, <1>c, <1>d, <1>j DEF MainCreate, DecGoto, TrkGoto
  <2>2. /\ Locked'[0] = L /\ sdkref'[0] = R /\ raced' = rc /\ kcf'[0] = q
        /\ cur'[0] = x /\ rd'[0] = r /\ held'[0].surf = h /\ trd'[0] = v
    BY <1>11, <1>a, <1>b, <1>c, <1>d, <1>e DEF MainCreate, surfVars, kcfVars
  <2>3. Unread(q, "wait", h) = P
    BY <2>1, <1>m DEF Unread
  <2>4. Counted(L, R, P, "decode", x, r, t, h, v, rc)
    BY <2>1, <1>f, CountMore
  <2>5. Counted(L, R, P, "decode", x, r, "wait", h, v, rc)
    BY <2>1, <2>4, CountElsewhere
  <2> QED
    BY <2>1, <2>2, <2>3, <2>5, <1>m, <1>l
<1>12. CASE TrkWait(0) \/ TrkDetect(0) \/ MainSemTrack
  <2>1. /\ Locked'[0] = L /\ sdkref'[0] = R /\ raced' = rc /\ kcf'[0] = q /\ held'[0].surf = h
        /\ dec'[0] = d /\ cur'[0] = x /\ rd'[0] = r /\ trd'[0] = v
    BY <1>12, <1>a, <1>b, <1>c, <1>d, <1>e
       DEF TrkWait, TrkDetect, MainSemTrack, surfVars, kcfVars, decVars
  <2>2. PICK u : u = trk'[0]
    OBVIOUS
  <2>3. (Holding(u) <=> Holding(t)) /\ (u = t \/ (u # "put" /\ t # "put"))
    BY <1>0, <1>12, <1>d, <1>j, <2>2 DEF TrkWait, TrkDetect, MainSemTrack, TrkGoto, Holding
  <2>4. Unread(q, u, h) = P
    BY <2>3, <1>m DEF Unread, Holding
  <2>5. Counted(L, R, P, d, x, r, u, h, v, rc)
    BY <2>3, <1>f, CountElsewhere
  <2> QED
    BY <2>1, <2>2, <2>4, <2>5, <1>m, <1>l
<1>13. CASE DecMore(0) \/ SchedWait \/ SchedLoad \/ MainSemTask \/ UNCHANGED vars
  <2>1. /\ Locked'[0] = L /\ sdkref'[0] = R /\ raced' = rc /\ kcf'[0] = q /\ held'[0].surf = h
        /\ dec'[0] = d /\ cur'[0] = x /\ rd'[0] = r /\ trd'[0] = v /\ trk'[0] = t
    BY <1>13, <1>a, <1>b, <1>c, <1>d, <1>e
       DEF DecMore, SchedWait, SchedLoad, MainSemTask, vars, surfVars, kcfVars, decVars, trkVars
  <2> QED
    BY <2>1, <1>f, <1>m, <1>l
<1> QED
  BY <1>0, <1>1, <1>2, <1>3, <1>4, <1>5, <1>6, <1>7, <1>8, <1>9, <1>10, <1>11, <1>12, <1>13
     DEF Next, DecStep, TrkStep, MainStep

(* The numbers that the counts allow. *)
LEMMA CountBounds ==
  ASSUME NEW L \in [Surfaces -> Int], NEW R, NEW P, NEW d, NEW x, NEW r, NEW t, NEW h, NEW v,
         NEW rc, Counted(L, R, P, d, x, r, t, h, v, rc),
         d = "lock" => x \in Surfaces, t = "put" => h \in Surfaces
  PROVE  /\ L \in [Surfaces -> 0 .. 3] /\ r \in 0 .. 2 /\ v \in 0 .. 3
         /\ \A s \in Surfaces : s \in P => L[s] > 0
<1>1. ASSUME NEW s \in Surfaces PROVE /\ L[s] \in 0 .. 3 /\ (s \in P => L[s] > 0)
                                      /\ s \notin R => Weight(R, P, d, x, s) \in 0 .. 2
  <2>1. Level(L, R, P, d, x, rc, s)
    BY DEF Counted
  <2>2. One(s \in R) \in {0, 1} /\ One(s \in P) \in {0, 1} /\ One(d = "sync" /\ x = s) \in {0, 1}
    BY DEF One
  <2>3. PICK i \in {0, 1}, j \in {0, 1}, k \in {0, 1} :
          i = One(s \in R) /\ j = One(s \in P) /\ k = One(d = "sync" /\ x = s)
    BY <2>2
  <2>4. Weight(R, P, d, x, s) = i + j + k /\ (s \notin R => i = 0) /\ (s \in P => j = 1)
    BY <2>3 DEF Weight, One
  <2>5. L[s] = i + j + k \/ (L[s] = i + j + k + 1 /\ i = 0)
    BY <2>1, <2>4 DEF Level
  <2> QED
    BY <2>4, <2>5
<1>2. L \in [Surfaces -> 0 .. 3]
  BY <1>1
<1>3. r \in 0 .. 2
  <2>1. CASE d # "lock"
    BY <2>1 DEF Counted
  <2>2. CASE d = "lock"
    <3>1. PICK i \in {0, 1} : i = One(x \in R)
      BY DEF One
    <3>2. r = i \/ r = i + 1
      BY <2>2, <3>1 DEF Counted
    <3> QED
      BY <3>2
  <2> QED
    BY <2>1, <2>2
<1>4. v \in 0 .. 3
  <2>1. CASE t # "put"
    BY <2>1 DEF Counted
  <2>2. CASE t = "put"
    <3>1. v = L[h] \/ (v = L[h] + 1 /\ h \notin R /\ L[h] = Weight(R, P, d, x, h))
      BY <2>2 DEF Counted
    <3>2. L[h] \in 0 .. 3 /\ (h \notin R => Weight(R, P, d, x, h) \in 0 .. 2)
      BY <2>2, <1>1
    <3> QED
      BY <3>1, <3>2
  <2> QED
    BY <2>1, <2>2
<1> QED
  BY <1>1, <1>2, <1>3, <1>4

(* The surfaces the tracker has yet to read are as many as the frames. *)
LEMMA PendingSize ==
  ASSUME NumChannels = 1, Types, Loans
  PROVE  /\ Pending(0) = Unread(kcf[0], trk[0], held[0].surf) /\ Pending(0) \subseteq Surfaces
         /\ Cardinality(Pending(0)) = Len(kcf[0]) + Hand(trk[0])
         /\ TrackerHolds(0) <=> Holding(trk[0])
<1>a. PICK q \in Seq(Stored) : q = kcf[0]
  BY OneChannel
<1>b. PICK t, h : t = trk[0] /\ h = held[0].surf
  OBVIOUS
<1>c. Lent(q, t, h, dec[0], cur[0])
  BY <1>a, <1>b DEF Loans
<1>1. TrackerHolds(0) <=> Holding(t)
  BY <1>b DEF TrackerHolds, Holding
<1>2. Holding(t) => h \in Surfaces
  <2>1. Holding(t) => held[0] \in Stored
    BY <1>1, OneChannel DEF Types, Hands
  <2> QED
    BY <2>1, <1>b DEF Stored
<1>3. {e.surf : e \in Elems(q)} = Queued(q)
  <2>1. DOMAIN q = 1 .. Len(q)
    BY LenProperties
  <2> QED
    BY <2>1 DEF Elems, Queued
<1>4. /\ Cardinality(Queued(q)) = Len(q) /\ IsFiniteSet(Queued(q)) /\ Len(q) \in Nat
      /\ Queued(q) \subseteq Surfaces
  BY <1>c, QueueSize DEF Lent
<1>5. CASE Holding(t)
  <2>1. Pending(0) = Queued(q) \cup {h}
    BY <1>1, <1>3, <1>5, <1>a, <1>b DEF Pending
  <2>2. Unread(q, t, h) = Queued(q) \cup {h}
    BY <1>5, ToRead
  <2>3. h \notin Queued(q) /\ Hand(t) = 1
    BY <1>5, <1>c DEF Lent, Hand
  <2>4. Cardinality(Queued(q) \cup {h}) = Len(q) + 1
    BY <2>3, <1>4, FS_AddElement
  <2> QED
    BY <2>1, <2>2, <2>3, <2>4, <1>1, <1>2, <1>4, <1>5, <1>a, <1>b
<1>6. CASE ~Holding(t)
  <2>1. Pending(0) = Queued(q)
    BY <1>1, <1>3, <1>6, <1>a, <1>b DEF Pending
  <2>2. Unread(q, t, h) = Queued(q)
    BY <1>6, ToRead
  <2>3. Hand(t) = 0
    BY <1>6 DEF Hand
  <2> QED
    BY <2>1, <2>2, <2>3, <1>1, <1>4, <1>6, <1>a, <1>b
<1> QED
  BY <1>5, <1>6

(* What the counts say about the state. *)
LEMMA CountsCorrect ==
  ASSUME NumChannels = 1, Types, Counts, Loans
  PROVE  SurfacesCounted
<1>0. Channels = {0} /\ Locked[0] \in [Surfaces -> Int] /\ kcf[0] \in Seq(Stored)
  BY OneChannel
<1>1. /\ dec[0] = "lock" => cur[0] \in Surfaces
      /\ trk[0] = "put" => held[0].surf \in Surfaces
  <2>1. trk[0] = "put" => held[0] \in Stored
    BY <1>0 DEF Types, Hands, TrackerHolds
  <2> QED
    BY <2>1, <1>0 DEF Types, Hands, Stored
<1>2. /\ Locked[0] \in [Surfaces -> 0 .. 3] /\ rd[0] \in 0 .. 2 /\ trd[0] \in 0 .. 3
      /\ \A s \in Surfaces : s \in Unread(kcf[0], trk[0], held[0].surf) => Locked[0][s] > 0
  BY <1>0, <1>1, CountBounds DEF Counts
<1>3. /\ Pending(0) = Unread(kcf[0], trk[0], held[0].surf) /\ Pending(0) \subseteq Surfaces
      /\ Cardinality(Pending(0)) = Len(kcf[0]) + Hand(trk[0])
      /\ TrackerHolds(0) <=> Holding(trk[0])
  BY PendingSize
<1>4. TypeOK
  <2>1. Len(kcf[0]) <= KcfBuffers
    <3>1. Len(kcf[0]) + Hand(trk[0]) <= KcfBuffers
      BY DEF Loans, Lent
    <3>2. Hand(trk[0]) \in {0, 1} /\ Len(kcf[0]) \in Nat
      BY <1>0, LenProperties DEF Hand
    <3> QED
      BY <3>1, <3>2, Sizes
  <2>2. Locked \in [Channels -> [Surfaces -> 0 .. 3]]
    BY <1>0, <1>2 DEF Types, SurfTypes
  <2>3. rd \in [Channels -> 0 .. 2] /\ trd \in [Channels -> 0 .. 3]
    BY <1>0, <1>2 DEF Types, DecTypes, TrkTypes
  <2>4. \A c \in Channels : Len(kcf[c]) <= KcfBuffers
    BY <1>0, <2>1
  <2>5. /\ main \in {"create", "sem_track", "sem_task", "run"} /\ started \in 0 .. NumChannels
        /\ sched \in {"none", "wait", "load"} /\ schedCh \in Channels
        /\ raced \in BOOLEAN /\ skipped \in BOOLEAN /\ lost \in BOOLEAN
    BY DEF Types, MainTypes
  <2> QED
    BY <2>2, <2>3, <2>4, <2>5
       DEF TypeOK, Types, DecTypes, SurfTypes, TrkTypes, RoiTypes, InferTypes
<1>5. SurfaceKept
  <2>1. \A s \in Pending(0) : Locked[0][s] > 0
    BY <1>2, <1>3
  <2>2. Cardinality(Pending(0)) = Len(kcf[0]) + (IF TrackerHolds(0) THEN 1 ELSE 0)
    BY <1>3 DEF Hand
  <2> QED
    BY <2>1, <2>2, <1>0 DEF SurfaceKept
<1>6. NoSurfaceLeaks
  <2>1. SUFFICES ASSUME ~raced, NEW s \in Surfaces
                 PROVE  Locked[0][s] = (IF s \in sdkref[0] THEN 1 ELSE 0)
                                       + (IF s \in Pending(0) THEN 1 ELSE 0)
                                       + (IF dec[0] = "sync" /\ cur[0] = s THEN 1 ELSE 0)
    BY <1>0 DEF NoSurfaceLeaks
  <2>2. Locked[0][s] = Weight(sdkref[0], Pending(0), dec[0], cur[0], s)
    BY <2>1, <1>3 DEF Counts, Counted, Level
  <2> QED
    BY <2>2 DEF Weight, One
<1> QED
  BY <1>4, <1>5, <1>6 DEF SurfacesCounted

(* With one channel, whatever the SDK keeps and releases and however far    *)
(* decoder, tracker and detector are apart: although Data.Locked is counted *)
(* by three parties without a lock, a surface that the tracker has yet to   *)
(* read is locked and queued once, and a surface nobody needs is free,      *)
(* unless an update was overwritten.  The two non-atomic updates of the     *)
(* program never meet the VPP's, because a detection is owed for the frame  *)
(* the VPP reads, so that the tracker has not come to unlock it.            *)
THEOREM SurfacesProtected ==
  ASSUME NumChannels = 1
  PROVE  Spec => []SurfacesCounted
<1> DEFINE Inv == Types /\ Counts /\ Loans /\ Debts
<1>1. Init => Inv
  <2> SUFFICES ASSUME Init PROVE Inv
    OBVIOUS
  <2>1. Types
    BY TypesInit
  <2>2. 0 \in Channels
    BY Sizes
  <2>3. /\ kcf[0] = << >> /\ trk[0] = "none" /\ dec[0] = "none" /\ rd[0] = 0 /\ trd[0] = 0
        /\ sdkref[0] = {} /\ cur[0] = Own /\ Locked[0] = [s \in Surfaces |-> 0]
    BY <2>2 DEF Init
  <2>4. infer[0] = << >> /\ imgs = << >> /\ gDetectResultAvaiable[0] = 0
    BY <2>2 DEF Init
  <2>5. Len(<< >>) = 0 /\ Queued(<< >>) = {} /\ OneEach(<< >>) /\ KeysOf(<< >>) = {}
    BY DEF Queued, OneEach, KeysOf
  <2>6. Keys(<< >>) = 0
    BY <2>5, FS_EmptySet DEF Keys
  <2>7. Hand("none") = 0 /\ Asks("none") = 0 /\ Sends("none") = 0
    BY DEF Hand, Holding, Asks, Sends
  <2>8. Counts
    <3>1. Unread(<< >>, "none", held[0].surf) = {}
      BY <2>5 DEF Unread
    <3>2. \A s : Weight({}, {}, "none", Own, s) = 0
      BY DEF Weight, One
    <3> QED
      BY <2>3, <3>1, <3>2 DEF Counts, Counted, Level
  <2>9. Loans
    BY <2>3, <2>5, <2>7, Sizes DEF Loans, Lent, Holding
  <2>10. Debts
    BY <2>3, <2>4, <2>5, <2>6, <2>7 DEF Debts, Owed, Due
  <2> QED
    BY <2>1, <2>8, <2>9, <2>10
<1>2. Inv /\ [Next]_vars => Inv'
  BY TypesStep, CountsStep, LoansStep, DebtsStep
<1>3. Inv => SurfacesCounted
  BY CountsCorrect
<1> HIDE DEF Inv
<1> QED
  BY <1>1, <1>2, <1>3, PTL DEF Spec

-----------------------------------------------------------------------------
(* Frame numbers and key frames. *)

(* Division with rest is unique. *)
LEMMA RestOf ==
  ASSUME NEW K \in Nat \ {0}, NEW q \in Int, NEW r \in 0 .. K - 1, NEW n \in Int, n = K * q + r
  PROVE  n % K = r
<1>1. PICK a \in Int : a = n \div K
  OBVIOUS
<1>2. PICK b \in 0 .. K - 1 : b = n % K
  OBVIOUS
<1>3. n = K * a + b
  BY <1>1, <1>2
<1>4. K * (q - a) = b - r
  BY <1>3
<1>5. CASE q - a >= 1
  <2>1. K * (q - a) >= K
    BY <1>5
  <2> QED
    BY <2>1, <1>4
<1>6. CASE q - a <= -1
  <2>1. K * (q - a) <= -K
    BY <1>6
  <2> QED
    BY <2>1, <1>4
<1>7. CASE q - a = 0
  BY <1>7, <1>4, <1>2
<1> QED
  BY <1>5, <1>6, <1>7

(* Counting modulo L, multiples of K, the one below n and the one from n on. *)
Plus(n, k, L)  == (n + k) % L
Multiple(n, K) == n % K = 0
Floor(n, K)   == n - (n % K)
Ceil(n, K, L) == IF n % K = 0 THEN n ELSE (n + (K - (n % K))) % L

(* From a frame to the next, counted modulo L with a key frame every K. *)
LEMMA KeyFrames ==
  ASSUME NEW K \in Nat \ {0}, NEW L \in Nat \ {0}, Multiple(L, K), NEW n \in 0 .. L - 1
  PROVE  /\ Plus(n, 1, L) \in 0 .. L - 1 /\ Plus(n, K, L) \in 0 .. L - 1
         /\ Ceil(n, K, L) \in 0 .. L - 1
         /\ Plus(Plus(n, 1, L), L - 1, L) = n
         /\ Multiple(n, K) => /\ Ceil(Plus(n, 1, L), K, L) = Plus(n, K, L)
                              /\ Floor(n, K) = n /\ Ceil(n, K, L) = n
         /\ ~Multiple(n, K) => Ceil(Plus(n, 1, L), K, L) = Ceil(n, K, L)
         /\ ~Multiple(Plus(n, 1, L), K) => Floor(Plus(n, 1, L), K) = Floor(n, K)
<1>0. L % K = 0
  BY DEF Multiple
<1>10. Plus(Plus(n, 1, L), L - 1, L) = n
  <2>1. CASE n + 1 = L
    <3>1. (n + 1) % L = 0
      BY <2>1
    <3> QED
      BY <3>1, <2>1 DEF Plus
  <2>2. CASE n + 1 < L
    <3>1. (n + 1) % L = n + 1
      BY <2>2
    <3>2. PICK s \in 0 .. L - 1, u \in Int, v \in Int : s = n /\ u = 1 /\ v = (n + 1) + (L - 1)
      OBVIOUS
    <3>3. v = L * u + s
      BY <3>2
    <3>4. v % L = s
      BY <3>3, RestOf
    <3> QED
      BY <3>1, <3>2, <3>4 DEF Plus
  <2> QED
    BY <2>1, <2>2
<1>11. /\ (n + 1) % L \in 0 .. L - 1 /\ (n + K) % L \in 0 .. L - 1
       /\ Ceil(n, K, L) \in 0 .. L - 1
       /\ n % K = 0 => /\ Ceil((n + 1) % L, K, L) = (n + K) % L
                       /\ Floor(n, K) = n /\ Ceil(n, K, L) = n
       /\ n % K # 0 => Ceil((n + 1) % L, K, L) = Ceil(n, K, L)
       /\ ((n + 1) % L) % K # 0 => Floor((n + 1) % L, K) = Floor(n, K)
  <2>1. PICK r \in 0 .. K - 1 :
             /\ n % K = r
             /\ n + (K - r) <= L
             /\ r < K - 1 => n + 1 < L /\ (n + 1) % K = r + 1
             /\ r = K - 1 => (n + 1) % K = 0
             /\ (n + (K - r)) % K = 0
    <3>1. PICK q \in Int, r \in 0 .. K - 1 : n = K * q + r /\ r = n % K
      <4>1. n = (K * (n \div K)) + (n % K) /\ n \div K \in Int /\ n % K \in 0 .. K - 1
        OBVIOUS
      <4> QED
        BY <4>1
    <3>0. n = K * q + r
      BY <3>1
    <3>2. PICK m \in Int : L = K * m
      <4>1. L = (K * (L \div K)) + (L % K) /\ L \div K \in Int
        OBVIOUS
      <4> QED
        BY <4>1, <1>0
    <3>3. q < m
      <4>1. SUFFICES ASSUME q >= m PROVE FALSE
        BY <3>1, <3>2
      <4>2. K * q >= K * m
        BY <4>1
      <4> QED
        BY <4>2, <3>1, <3>2
    <3>4. K * (q + 1) <= K * m
      BY <3>3
    <3>5. K * (q + 1) = K * q + K
      OBVIOUS
    <3>6. n + (K - r) <= L
      BY <3>1, <3>2, <3>4, <3>5
    <3>7. r < K - 1 => n + 1 < L /\ (n + 1) % K = r + 1
      <4>1. SUFFICES ASSUME r < K - 1 PROVE n + 1 < L /\ (n + 1) % K = r + 1
        OBVIOUS
      <4>2. PICK p \in Int, s \in 0 .. K - 1 : p = n + 1 /\ s = r + 1
        BY <4>1
      <4>3. p = K * q + s
        BY <4>2, <3>0
      <4>4. p % K = s
        BY <4>3, RestOf
      <4> QED
        BY <4>1, <4>2, <4>4, <3>6
    <3>8. (n + (K - r)) % K = 0
      <4>1. PICK p \in Int, s \in 0 .. K - 1, u \in Int : p = n + (K - r) /\ s = 0 /\ u = q + 1
        OBVIOUS
      <4>2. p = K * u + s
        BY <4>1, <3>1, <3>5
      <4>3. p % K = s
        BY <4>2, RestOf
      <4> QED
        BY <4>1, <4>3
    <3>9. r = K - 1 => (n + 1) % K = 0
      <4>1. r = K - 1 => n + (K - r) = n + 1
        OBVIOUS
      <4> QED
        BY <4>1, <3>8
    <3> QED
      BY <3>1, <3>6, <3>7, <3>8, <3>9
  <2>2. (n + 1) % L = IF n + 1 = L THEN 0 ELSE n + 1
    OBVIOUS
  <2>3. 0 % K = 0 /\ 0 % L = 0 /\ L % L = 0
    OBVIOUS
  <2>4. (n + 1) % L \in 0 .. L - 1 /\ (n + K) % L \in 0 .. L - 1 /\ Ceil(n, K, L) \in 0 .. L - 1
    BY <2>1 DEF Ceil
  <2>5. CASE r = K - 1
    <3>1. ((n + 1) % L) % K = 0
      BY <2>1, <2>2, <2>3, <2>5
    <3>2. Ceil((n + 1) % L, K, L) = (n + 1) % L
      BY <3>1 DEF Ceil
    <3>3. r = 0 => n + K = n + 1
      BY <2>5
    <3>4. r # 0 => Ceil(n, K, L) = (n + 1) % L
      BY <2>1, <2>5 DEF Ceil
    <3> QED
      BY <2>1, <2>4, <3>1, <3>2, <3>3, <3>4 DEF Floor, Ceil
  <2>6. CASE r < K - 1
    <3>1. (n + 1) % L = n + 1 /\ (n + 1) % K = r + 1 /\ r + 1 # 0
      BY <2>1, <2>2, <2>6
    <3>2. Ceil(n + 1, K, L) = (n + 1 + (K - (r + 1))) % L
      BY <3>1 DEF Ceil
    <3>3. n + 1 + (K - (r + 1)) = n + (K - r)
      OBVIOUS
    <3>4. Ceil(n + 1, K, L) = (n + (K - r)) % L
      BY <3>2, <3>3
    <3>5. r # 0 => Ceil(n, K, L) = (n + (K - r)) % L
      BY <2>1 DEF Ceil
    <3>6. r = 0 => n + (K - r) = n + K
      OBVIOUS
    <3>7. Floor(n + 1, K) = Floor(n, K)
      BY <2>1, <3>1 DEF Floor
    <3>8. r = 0 => Floor(n, K) = n /\ Ceil(n, K, L) = n
      BY <2>1 DEF Floor, Ceil
    <3> QED
      BY <2>1, <2>4, <3>1, <3>4, <3>5, <3>6, <3>7, <3>8
  <2> QED
    BY <2>1, <2>5, <2>6
<1> QED
  BY <1>10, <1>11 DEF Plus, Multiple

-----------------------------------------------------------------------------
(* Numbers that follow each other. *)

(* The first n values of f follow each other by J, from a on, and b is next. *)
Run(J, a, n, f, b) ==
  /\ n = 0 => a = b
  /\ n > 0 => f[1] = a /\ J[f[n]] = b
  /\ \A i \in 1 .. n - 1 : f[i + 1] = J[f[i]]

(* The same values. *)
LEMMA RunSame ==
  ASSUME NEW J, NEW a, NEW b, NEW n \in Nat, NEW f, NEW g, Run(J, a, n, f, b),
         \A i \in 1 .. n : g[i] = f[i]
  PROVE  Run(J, a, n, g, b)
<1>1. n > 0 => 1 \in 1 .. n /\ n \in 1 .. n
  OBVIOUS
<1>2. \A i \in 1 .. n - 1 : i \in 1 .. n /\ i + 1 \in 1 .. n
  OBVIOUS
<1> QED
  BY <1>1, <1>2 DEF Run

(* The next value joins. *)
LEMMA RunPush ==
  ASSUME NEW J, NEW a, NEW b, NEW n \in Nat, NEW f, NEW g, Run(J, a, n, f, b),
         \A i \in 1 .. n : g[i] = f[i], g[n + 1] = b
  PROVE  Run(J, a, n + 1, g, J[b])
<1>1. Run(J, a, n, g, b)
  BY RunSame
<1>2. g[1] = a
  <2>1. CASE n = 0
    BY <2>1, <1>1 DEF Run
  <2>2. CASE n > 0
    BY <2>2, <1>1 DEF Run
  <2> QED
    BY <2>1, <2>2
<1>3. ASSUME NEW i \in 1 .. n PROVE g[i + 1] = J[g[i]]
  <2>1. CASE i = n
    BY <2>1, <1>1 DEF Run
  <2>2. CASE i # n
    <3>1. i \in 1 .. n - 1
      BY <2>2
    <3> QED
      BY <3>1, <1>1 DEF Run
  <2> QED
    BY <2>1, <2>2
<1>4. n + 1 # 0 /\ (n + 1) - 1 = n
  OBVIOUS
<1> QED
  BY <1>2, <1>3, <1>4 DEF Run

(* The first value leaves. *)
LEMMA RunPop ==
  ASSUME NEW J, NEW a, NEW b, NEW n \in Nat, NEW f, NEW g, Run(J, a, n + 1, f, b),
         \A i \in 1 .. n : g[i] = f[i + 1]
  PROVE  f[1] = a /\ Run(J, J[a], n, g, b)
<1>0. n + 1 > 0 /\ (n + 1) - 1 = n
  OBVIOUS
<1>1. f[1] = a /\ J[f[n + 1]] = b /\ \A i \in 1 .. n : f[i + 1] = J[f[i]]
  BY <1>0 DEF Run
<1>2. CASE n = 0
  BY <1>1, <1>2 DEF Run
<1>3. CASE n > 0
  <2>1. 1 \in 1 .. n /\ n \in 1 .. n
    BY <1>3
  <2>2. g[1] = J[a] /\ g[n] = f[n + 1]
    BY <2>1, <1>1
  <2>3. ASSUME NEW i \in 1 .. n - 1 PROVE g[i + 1] = J[g[i]]
    <3>1. i \in 1 .. n /\ i + 1 \in 1 .. n
      OBVIOUS
    <3> QED
      BY <3>1, <1>1
  <2> QED
    BY <1>1, <1>3, <2>2, <2>3 DEF Run
<1> QED
  BY <1>2, <1>3

(* One run behind the other. *)
LEMMA RunJoin ==
  ASSUME NEW J, NEW a, NEW b, NEW c, NEW n \in Nat, NEW m \in Nat, NEW f, NEW g, NEW h,
         Run(J, a, n, f, b), Run(J, b, m, g, c),
         \A i \in 1 .. n : h[i] = f[i], \A i \in 1 .. m : h[n + i] = g[i]
  PROVE  Run(J, a, n + m, h, c)
<1>1. Run(J, a, n, h, b)
  BY RunSame
<1>2. CASE m = 0
  <2>1. b = c /\ n + m = n
    BY <1>2 DEF Run
  <2> QED
    BY <2>1, <1>1
<1>3. CASE m > 0
  <2>1. 1 \in 1 .. m /\ m \in 1 .. m /\ n + m > 0 /\ n + m # 0
    BY <1>3
  <2>2. h[n + 1] = b /\ h[n + m] = g[m] /\ J[g[m]] = c
    BY <2>1 DEF Run
  <2>3. h[1] = a
    <3>1. CASE n = 0
      BY <3>1, <2>2, <1>1 DEF Run
    <3>2. CASE n > 0
      BY <3>2, <1>1 DEF Run
    <3> QED
      BY <3>1, <3>2
  <2>4. ASSUME NEW i \in 1 .. (n + m) - 1 PROVE h[i + 1] = J[h[i]]
    <3>1. CASE i <= n - 1
      <4>1. i \in 1 .. n - 1
        BY <3>1
      <4> QED
        BY <4>1, <1>1 DEF Run
    <3>2. CASE i = n
      BY <3>2, <2>2, <1>1 DEF Run
    <3>3. CASE i > n
      <4>1. PICK k \in 1 .. m - 1 : i = n + k
        BY <3>3
      <4>2. k \in 1 .. m /\ k + 1 \in 1 .. m /\ i + 1 = n + (k + 1)
        BY <4>1
      <4>3. h[i] = g[k] /\ h[i + 1] = g[k + 1]
        BY <4>1, <4>2
      <4>4. g[k + 1] = J[g[k]]
        BY DEF Run
      <4> QED
        BY <4>3, <4>4
    <3> QED
      BY <3>1, <3>2, <3>3
  <2> QED
    BY <2>1, <2>2, <2>3, <2>4 DEF Run
<1> QED
  BY <1>2, <1>3

-----------------------------------------------------------------------------
(* The frames on their way through the tracker's pipe, and the key frames   *)
(* on their way through the detector.                                       *)

Key(f)       == Multiple(f, KeyInterval)
KeyBefore(f) == Floor(f, KeyInterval)
KeyFrom(f)   == Ceil(f, KeyInterval, Labels)

Succ    == [f \in Frames |-> Plus(f, 1, Labels)]
NextKey == [f \in Frames |-> Plus(f, KeyInterval, Labels)]

FramesOf(q) == [i \in 1 .. Len(q) |-> q[i].frame]
ImagesOf(s) == [i \in 1 .. Len(s) |-> s[i][2]]

(* All that is needed of the arithmetic. *)
LEMMA FrameFacts ==
  /\ 0 \in Frames /\ Key(0)
  /\ \A f \in Frames :
       /\ Succ[f] \in Frames /\ NextKey[f] \in Frames /\ KeyFrom(f) \in Frames
       /\ Succ[f] = Plus(f, 1, Labels) /\ Plus(Succ[f], Labels - 1, Labels) = f
       /\ Key(f) => KeyFrom(Succ[f]) = NextKey[f] /\ KeyBefore(f) = f /\ KeyFrom(f) = f
       /\ ~Key(f) => KeyFrom(Succ[f]) = KeyFrom(f)
       /\ ~Key(Succ[f]) => KeyBefore(Succ[f]) = KeyBefore(f)
<1>1. 0 \in Frames /\ Key(0)
  BY Sizes DEF Key, Multiple
<1>2. /\ Frames = 0 .. Labels - 1 /\ KeyInterval \in Nat \ {0} /\ Labels \in Nat \ {0}
      /\ Multiple(Labels, KeyInterval)
  BY Sizes DEF Frames, Multiple
<1>3. ASSUME NEW f \in Frames
      PROVE  /\ Succ[f] \in Frames /\ NextKey[f] \in Frames /\ KeyFrom(f) \in Frames
             /\ Succ[f] = Plus(f, 1, Labels) /\ Plus(Succ[f], Labels - 1, Labels) = f
             /\ Key(f) => KeyFrom(Succ[f]) = NextKey[f] /\ KeyBefore(f) = f /\ KeyFrom(f) = f
             /\ ~Key(f) => KeyFrom(Succ[f]) = KeyFrom(f)
             /\ ~Key(Succ[f]) => KeyBefore(Succ[f]) = KeyBefore(f)
  <2>1. Succ[f] = Plus(f, 1, Labels) /\ NextKey[f] = Plus(f, KeyInterval, Labels)
    BY DEF Succ, NextKey
  <2>2. f \in 0 .. Labels - 1
    BY <1>2
  <2>3. PICK K \in Nat \ {0}, L \in Nat \ {0} : K = KeyInterval /\ L = Labels
    BY <1>2
  <2>4. PICK n \in 0 .. L - 1 : n = f
    BY <2>2, <2>3
  <2>5. Multiple(L, K)
    BY <1>2, <2>3
  <2>6. /\ Plus(n, 1, L) \in 0 .. L - 1 /\ Plus(n, K, L) \in 0 .. L - 1
        /\ Ceil(n, K, L) \in 0 .. L - 1
        /\ Plus(Plus(n, 1, L), L - 1, L) = n
        /\ Multiple(n, K) => /\ Ceil(Plus(n, 1, L), K, L) = Plus(n, K, L)
                             /\ Floor(n, K) = n /\ Ceil(n, K, L) = n
        /\ ~Multiple(n, K) => Ceil(Plus(n, 1, L), K, L) = Ceil(n, K, L)
        /\ ~Multiple(Plus(n, 1, L), K) => Floor(Plus(n, 1, L), K) = Floor(n, K)
    BY <2>5, KeyFrames
  <2> QED
    BY <1>2, <2>1, <2>3, <2>4, <2>6 DEF Key, KeyFrom, KeyBefore
<1> QED
  BY <1>1, <1>3

(* The tracker is before frame p: the one it has in hand precedes it, and   *)
(* the regions r come from the key frame of the last one.                   *)
Follows(t, h, r, p) ==
  /\ t \in {"detect", "update", "unlock", "put"} => h \in Frames /\ Succ[h] = p
  /\ t = "detect" => Key(h)
  /\ t \in {"update", "unlock", "put"} => r = <<0, KeyBefore(h)>>
  /\ t = "load" /\ ~Key(p) => r = <<0, KeyBefore(p)>>
  /\ t \in {"none", "wait", "lost"} => p = 0

(* The pipe q has the frames from p on, up to the one stored next. *)
Tracked(q, s, t, h, r, p) == Run(Succ, p, Len(q), FramesOf(q), s) /\ Follows(t, h, r, p)

(* The key frame whose detection the tracker needs next. *)
Wanted(t, h, p) == IF t = "detect" THEN h ELSE KeyFrom(p)

(* The detections queued, those of the batch and the images stored for the  *)
(* scheduler are of the key frames from w on, up to the one sent next.      *)
Returning(w, q, m, n, y) ==
  \E a, b \in Frames : /\ Run(NextKey, w, Len(q), ImagesOf(q), a)
                       /\ Run(NextKey, a, Len(m), ImagesOf(m), b)
                       /\ Run(NextKey, b, Len(n), n, y)

Detections == {0} \X Frames

(* The decoder sends a key frame. *)
LEMMA ReturnSend ==
  ASSUME NEW w, NEW q, NEW m, NEW n \in Seq(Frames), NEW y \in Frames,
         Returning(w, q, m, n, y)
  PROVE  Returning(w, q, m, Append(n, y), NextKey[y])
<1>1. PICK a \in Frames, b \in Frames :
        /\ Run(NextKey, w, Len(q), ImagesOf(q), a)
        /\ Run(NextKey, a, Len(m), ImagesOf(m), b)
        /\ Run(NextKey, b, Len(n), n, y)
  BY DEF Returning
<1>2. PICK g : g = Append(n, y)
  OBVIOUS
<1>3. /\ Len(n) \in Nat /\ Len(g) = Len(n) + 1
      /\ \A i \in 1 .. Len(n) : g[i] = n[i]
      /\ g[Len(n) + 1] = y
  BY <1>2, PushTail
<1>4. PICK k \in Nat : k = Len(n)
  BY <1>3
<1>5. Run(NextKey, b, k + 1, g, NextKey[y])
  BY <1>1, <1>3, <1>4, RunPush
<1>6. Run(NextKey, b, Len(g), g, NextKey[y])
  BY <1>3, <1>4, <1>5
<1> QED
  BY <1>1, <1>2, <1>6 DEF Returning

(* The scheduler takes an image into its batch. *)
LEMMA ReturnBatch ==
  ASSUME NEW w, NEW q, NEW m \in Seq(Detections), NEW n \in Seq(Frames), n # << >>, NEW y,
         Returning(w, q, m, n, y)
  PROVE  Returning(w, q, Append(m, <<0, Head(n)>>), Tail(n), y)
<1>1. PICK a \in Frames, b \in Frames :
        /\ Run(NextKey, w, Len(q), ImagesOf(q), a)
        /\ Run(NextKey, a, Len(m), ImagesOf(m), b)
        /\ Run(NextKey, b, Len(n), n, y)
  BY DEF Returning
<1>2. PICK g, x : g = Tail(n) /\ x = Head(n)
  OBVIOUS
<1>3. /\ x \in Frames /\ Len(n) \in Nat \ {0} /\ Len(g) = Len(n) - 1 /\ x = n[1]
      /\ \A i \in 1 .. Len(n) - 1 : g[i] = n[i + 1]
  BY <1>2, PopHead
<1>4. PICK k \in Nat : k + 1 = Len(n)
  BY <1>3
<1>5. n[1] = b /\ Run(NextKey, NextKey[b], k, g, y)
  <2>1. Run(NextKey, b, k + 1, n, y) /\ \A i \in 1 .. k : g[i] = n[i + 1]
    BY <1>1, <1>3, <1>4
  <2> QED
    BY <2>1, RunPop
<1>6. x = b /\ Run(NextKey, NextKey[b], Len(g), g, y) /\ NextKey[b] \in Frames
  BY <1>3, <1>4, <1>5, FrameFacts
<1>7. PICK e \in Detections : e = <<0, x>> /\ e[2] = b
  <2>1. <<0, x>> \in Detections /\ <<0, x>>[2] = x
    BY <1>3 DEF Detections
  <2> QED
    BY <2>1, <1>6
<1>8. PICK s : s = Append(m, e)
  OBVIOUS
<1>9. /\ Len(m) \in Nat /\ Len(s) = Len(m) + 1
      /\ \A i \in 1 .. Len(m) : s[i] = m[i]
      /\ s[Len(m) + 1] = e
  BY <1>8, PushTail
<1>10. PICK j \in Nat : j = Len(m)
  BY <1>9
<1>11. /\ \A i \in 1 .. j : ImagesOf(s)[i] = ImagesOf(m)[i]
       /\ ImagesOf(s)[j + 1] = b
  BY <1>7, <1>9, <1>10 DEF ImagesOf
<1>12. Run(NextKey, a, j + 1, ImagesOf(s), NextKey[b])
  BY <1>1, <1>10, <1>11, RunPush
<1>13. Run(NextKey, a, Len(s), ImagesOf(s), NextKey[b])
  BY <1>9, <1>10, <1>12
<1> QED
  BY <1>1, <1>2, <1>6, <1>7, <1>8, <1>13 DEF Returning

(* A full batch is reported. *)
LEMMA ReturnReport ==
  ASSUME NEW w, NEW q \in Seq(Detections), NEW m \in Seq(Detections), NEW n, NEW y,
         Returning(w, q, m, n, y)
  PROVE  Returning(w, q \o m, << >>, n, y)
<1>1. PICK a \in Frames, b \in Frames :
        /\ Run(NextKey, w, Len(q), ImagesOf(q), a)
        /\ Run(NextKey, a, Len(m), ImagesOf(m), b)
        /\ Run(NextKey, b, Len(n), n, y)
  BY DEF Returning
<1>2. PICK s : s = q \o m
  OBVIOUS
<1>3. /\ Len(q) \in Nat /\ Len(m) \in Nat /\ Len(s) = Len(q) + Len(m)
      /\ \A i \in 1 .. Len(s) : s[i] = IF i <= Len(q) THEN q[i] ELSE m[i - Len(q)]
  BY <1>2, ConcatProperties, LenProperties
<1>4. PICK j \in Nat, k \in Nat : j = Len(q) /\ k = Len(m)
  BY <1>3
<1>5. \A i \in 1 .. j : s[i] = q[i]
  BY <1>3, <1>4
<1>6. \A i \in 1 .. k : j + i \in 1 .. Len(s) /\ s[j + i] = m[i]
  <2>1. \A i \in 1 .. k : /\ j + i \in 1 .. Len(s) /\ ~(j + i <= j) /\ (j + i) - j = i
    BY <1>3, <1>4
  <2> QED
    BY <2>1, <1>3, <1>4
<1>7. \A i \in 1 .. j : i \in 1 .. Len(s)
  BY <1>3, <1>4
<1>8. /\ \A i \in 1 .. j : ImagesOf(s)[i] = ImagesOf(q)[i]
      /\ \A i \in 1 .. k : ImagesOf(s)[j + i] = ImagesOf(m)[i]
  BY <1>4, <1>5, <1>6, <1>7 DEF ImagesOf
<1>9. Run(NextKey, w, j + k, ImagesOf(s), b)
  BY <1>1, <1>4, <1>8, RunJoin
<1>10. Run(NextKey, w, Len(s), ImagesOf(s), b)
  BY <1>3, <1>4, <1>9
<1>11. Run(NextKey, b, Len(<< >>), ImagesOf(<< >>), b)
  BY DEF Run
<1> QED
  BY <1>1, <1>2, <1>10, <1>11 DEF Returning

(* The tracker takes the first detection. *)
LEMMA ReturnTake ==
  ASSUME NEW w, NEW q \in Seq(Detections), q # << >>, NEW m, NEW n, NEW y,
         Returning(w, q, m, n, y)
  PROVE  Head(q) = <<0, w>> /\ Returning(NextKey[w], Tail(q), m, n, y)
<1>1. PICK a \in Frames, b \in Frames :
        /\ Run(NextKey, w, Len(q), ImagesOf(q), a)
        /\ Run(NextKey, a, Len(m), ImagesOf(m), b)
        /\ Run(NextKey, b, Len(n), n, y)
  BY DEF Returning
<1>2. PICK g, x : g = Tail(q) /\ x = Head(q)
  OBVIOUS
<1>3. /\ x \in Detections /\ Len(q) \in Nat \ {0} /\ Len(g) = Len(q) - 1 /\ x = q[1]
      /\ \A i \in 1 .. Len(q) - 1 : g[i] = q[i + 1]
  BY <1>2, PopHead
<1>4. PICK k \in Nat : k + 1 = Len(q)
  BY <1>3
<1>5. /\ \A i \in 1 .. k : ImagesOf(g)[i] = ImagesOf(q)[i + 1]
      /\ ImagesOf(q)[1] = x[2]
  <2>1. \A i \in 1 .. k : i + 1 \in 1 .. k + 1
    OBVIOUS
  <2> QED
    BY <1>3, <1>4, <2>1 DEF ImagesOf
<1>6. ImagesOf(q)[1] = w /\ Run(NextKey, NextKey[w], k, ImagesOf(g), a)
  <2>1. Run(NextKey, w, k + 1, ImagesOf(q), a)
    BY <1>1, <1>4
  <2> QED
    BY <2>1, <1>5, RunPop
<1>7. Run(NextKey, NextKey[w], Len(g), ImagesOf(g), a)
  BY <1>3, <1>4, <1>6
<1>8. x = <<0, w>>
  <2>1. \A e \in Detections : e = <<0, e[2]>>
    BY DEF Detections
  <2> QED
    BY <2>1, <1>3, <1>5, <1>6
<1> QED
  BY <1>1, <1>2, <1>7, <1>8 DEF Returning

(* The decoder stores the next frame. *)
LEMMA TrackStore ==
  ASSUME NEW q \in Seq(Stored), NEW e \in Stored, NEW t, NEW h, NEW r, NEW p, NEW s,
         e.frame = s, Tracked(q, s, t, h, r, p)
  PROVE  Tracked(Append(q, e), Succ[s], t, h, r, p)
<1>1. Run(Succ, p, Len(q), FramesOf(q), s) /\ Follows(t, h, r, p)
  BY DEF Tracked
<1>2. PICK g : g = Append(q, e)
  OBVIOUS
<1>3. /\ Len(q) \in Nat /\ Len(g) = Len(q) + 1
      /\ \A i \in 1 .. Len(q) : g[i] = q[i]
      /\ g[Len(q) + 1] = e
  BY <1>2, PushTail
<1>4. PICK k \in Nat : k = Len(q)
  BY <1>3
<1>5. /\ \A i \in 1 .. k : FramesOf(g)[i] = FramesOf(q)[i]
      /\ FramesOf(g)[k + 1] = s
  BY <1>3, <1>4 DEF FramesOf
<1>6. Run(Succ, p, k + 1, FramesOf(g), Succ[s])
  BY <1>1, <1>4, <1>5, RunPush
<1> QED
  BY <1>1, <1>2, <1>3, <1>4, <1>6 DEF Tracked

(* The tracker takes the next frame, and asks for a detection if it is one  *)
(* of the key frames.                                                       *)
LEMMA TrackLoad ==
  ASSUME NEW q \in Seq(Stored), q # << >>, NEW h, NEW r, NEW p \in Frames, NEW s,
         Tracked(q, s, "load", h, r, p), NEW t, t = IF Key(p) THEN "detect" ELSE "update"
  PROVE  /\ Head(q).frame = p
         /\ Tracked(Tail(q), s, t, p, r, Succ[p])
         /\ Wanted(t, p, Succ[p]) = Wanted("load", h, p)
<1>1. Run(Succ, p, Len(q), FramesOf(q), s) /\ Follows("load", h, r, p)
  BY DEF Tracked
<1>2. PICK g, x : g = Tail(q) /\ x = Head(q)
  OBVIOUS
<1>3. /\ Len(q) \in Nat \ {0} /\ Len(g) = Len(q) - 1 /\ x = q[1]
      /\ \A i \in 1 .. Len(q) - 1 : g[i] = q[i + 1]
  BY <1>2, PopHead
<1>4. PICK k \in Nat : k + 1 = Len(q)
  BY <1>3
<1>5. /\ \A i \in 1 .. k : FramesOf(g)[i] = FramesOf(q)[i + 1]
      /\ FramesOf(q)[1] = x.frame
  <2>1. \A i \in 1 .. k : i + 1 \in 1 .. k + 1
    OBVIOUS
  <2> QED
    BY <1>3, <1>4, <2>1 DEF FramesOf
<1>6. x.frame = p /\ Run(Succ, Succ[p], k, FramesOf(g), s)
  <2>1. Run(Succ, p, k + 1, FramesOf(q), s)
    BY <1>1, <1>4
  <2> QED
    BY <2>1, <1>5, RunPop
<1>7. Run(Succ, Succ[p], Len(g), FramesOf(g), s)
  BY <1>3, <1>4, <1>6
<1>8. Follows(t, p, r, Succ[p]) /\ Wanted(t, p, Succ[p]) = KeyFrom(p)
  <2>1. CASE Key(p)
    <3>1. t = "detect"
      BY <2>1
    <3> QED
      BY <2>1, <3>1, FrameFacts DEF Follows, Wanted
  <2>2. CASE ~Key(p)
    <3>1. t = "update" /\ r = <<0, KeyBefore(p)>>
      BY <2>2, <1>1 DEF Follows
    <3> QED
      BY <2>2, <3>1, FrameFacts DEF Follows, Wanted
  <2> QED
    BY <2>1, <2>2
<1>9. Wanted("load", h, p) = KeyFrom(p)
  BY DEF Wanted
<1> QED
  BY <1>2, <1>6, <1>7, <1>8, <1>9 DEF Tracked

-----------------------------------------------------------------------------
(* The same of the state, with one channel and a VPP that asks for no more  *)
(* data.                                                                    *)

(* nFrame and nFrameProcessed count the same frames. *)
Numbered ==
  /\ dec[0] \in {"none", "decode"} => nDecoded[0] = nFrame[0]
  /\ dec[0] \notin {"none", "decode"} => nDecoded[0] = Succ[nFrame[0]]
  /\ dec[0] \in {"vpp", "sync"} => Key(nFrame[0])

(* Frames are marked as key frames by their number. *)
Marked == \A i \in 1 .. Len(kcf[0]) : kcf[0][i].key <=> Key(kcf[0][i].frame)

NextStored == IF dec[0] \in {"vpp", "sync"} THEN Succ[nFrame[0]] ELSE nFrame[0]

InOrder ==
  /\ Numbered /\ Marked
  /\ \E p \in Frames :
       /\ Tracked(kcf[0], NextStored, trk[0], held[0].frame, roi[0], p)
       /\ Returning(Wanted(trk[0], held[0].frame, p), gDetectResultque[0], imgs, infer[0],
                    KeyFrom(nFrame[0]))

(* The types of what the frames pass. *)
LEMMA OneLine ==
  ASSUME NumChannels = 1, Types
  PROVE  /\ Channels = {0} /\ schedCh = 0
         /\ main = "create" => started = 0 /\ dec[0] = "none" /\ trk[0] = "none"
         /\ dec \in [Channels -> {"none", "decode", "kcf", "lock", "vpp", "sync"}]
         /\ trk \in [Channels -> {"none", "wait", "lost", "load", "detect", "update",
                                  "unlock", "put"}]
         /\ held \in [Channels -> Stored \cup {Null}]
         /\ nFrame \in [Channels -> Frames] /\ nDecoded \in [Channels -> Frames]
         /\ kcf \in [Channels -> Seq(Stored)] /\ infer \in [Channels -> Seq(Frames)]
         /\ roi \in [Channels -> Channels \X Frames]
         /\ Channels \X Frames = Detections
         /\ imgs \in Seq(Detections) /\ gDetectResultque \in [Channels -> Seq(Detections)]
<1>1. /\ Channels = {0} /\ schedCh = 0
      /\ main = "create" => started = 0 /\ dec[0] = "none" /\ trk[0] = "none"
  BY OneChannel
<1>2. Channels \X Frames = Detections
  BY <1>1 DEF Detections
<1>3. /\ dec \in [Channels -> {"none", "decode", "kcf", "lock", "vpp", "sync"}]
      /\ nFrame \in [Channels -> Frames] /\ nDecoded \in [Channels -> Frames]
  BY DEF Types, DecTypes
<1>4. /\ trk \in [Channels -> {"none", "wait", "lost", "load", "detect", "update",
                               "unlock", "put"}]
      /\ held \in [Channels -> Stored \cup {Null}] /\ kcf \in [Channels -> Seq(Stored)]
  BY DEF Types, TrkTypes
<1>5. /\ infer \in [Channels -> Seq(Frames)]
      /\ imgs \in Seq(Channels \X Frames)
      /\ gDetectResultque \in [Channels -> Seq(Channels \X Frames)]
  BY DEF Types, InferTypes
<1>6. roi \in [Channels -> Channels \X Frames]
  BY DEF Types, RoiTypes
<1> QED
  BY <1>1, <1>2, <1>3, <1>4, <1>5, <1>6

(* Steps that do not count frames. *)
LEMMA UncountedSteps ==
  ASSUME NumChannels = 1, Types,
         \/ DecMore(0) \/ DecGetKcf(0) \/ DecVpp(0) \/ SdkRelease(0)
         \/ TrkStep(0) \/ SchedWait \/ SchedLoad \/ MainStep \/ UNCHANGED vars
  PROVE  /\ UNCHANGED <<nFrame, nDecoded>>
         /\ dec'[0] \in {"none", "decode"} <=> dec[0] \in {"none", "decode"}
         /\ dec'[0] \in {"vpp", "sync"} <=> dec[0] \in {"vpp", "sync"}
<1>0. /\ Channels = {0}
      /\ main = "create" => started = 0 /\ dec[0] = "none"
      /\ dec \in [Channels -> {"none", "decode", "kcf", "lock", "vpp", "sync"}]
  BY OneLine
<1>1. CASE DecGetKcf(0) \/ DecVpp(0)
  BY <1>0, <1>1 DEF DecGetKcf, DecVpp, DecGoto
<1>2. CASE MainCreate
  BY <1>0, <1>2 DEF MainCreate, DecGoto
<1>3. CASE \/ DecMore(0) \/ SdkRelease(0) \/ TrkStep(0) \/ SchedWait \/ SchedLoad
           \/ MainSemTrack \/ MainSemTask \/ UNCHANGED vars
  BY <1>3 DEF DecMore, SdkRelease, TrkStep, TrkWait, TrkLoad, TrkDetect, TrkUpdate, TrkPut,
              SchedWait, SchedLoad, MainSemTrack, MainSemTask, vars, decVars
<1> QED
  BY <1>1, <1>2, <1>3 DEF MainStep

(* The decoder counts a frame twice, when it is decoded and when it has been *)
(* passed on.                                                                *)
LEMMA NumberedStep ==
  ASSUME NumChannels = 1, Types, Numbered, [Next]_vars, ~skipped'
  PROVE  Numbered'
<1>0. /\ Channels = {0}
      /\ dec \in [Channels -> {"none", "decode", "kcf", "lock", "vpp", "sync"}]
      /\ nFrame \in [Channels -> Frames] /\ nDecoded \in [Channels -> Frames]
  BY OneLine
<1>a. \A f \in Frames : Succ[f] = (f + 1) % Labels
  BY FrameFacts DEF Plus
<1>1. CASE DecFrame(0)
  <2>1. dec[0] = "decode" /\ dec'[0] = "kcf" /\ nFrame' = nFrame
    BY <1>0, <1>1 DEF DecFrame, DecGoto
  <2>2. nDecoded'[0] = (nDecoded[0] + 1) % Labels
    BY <1>0, <1>1 DEF DecFrame
  <2>3. nDecoded'[0] = Succ[nFrame'[0]]
    BY <1>0, <1>a, <2>1, <2>2 DEF Numbered
  <2> QED
    BY <2>1, <2>3 DEF Numbered
<1>2. CASE DecStoreKcf(0) /\ IsKey(0)
  <2>1. dec[0] = "lock" /\ dec'[0] = "vpp" /\ UNCHANGED <<nFrame, nDecoded>>
    BY <1>0, <1>2 DEF DecStoreKcf, DecGoto
  <2>2. Key(nFrame[0])
    BY <1>2 DEF IsKey, Key, Multiple
  <2> QED
    BY <2>1, <2>2 DEF Numbered
<1>3. CASE (DecStoreKcf(0) /\ ~IsKey(0)) \/ DecSync(0)
  <2>1. dec[0] \in {"lock", "sync"} /\ dec'[0] = "decode" /\ nDecoded' = nDecoded
    BY <1>0, <1>3 DEF DecStoreKcf, DecSync, DecGoto
  <2>2. nFrame'[0] = (nFrame[0] + 1) % Labels
    BY <1>0, <1>3 DEF DecStoreKcf, DecSync, NextFrame
  <2>3. nFrame'[0] = nDecoded'[0]
    BY <1>0, <1>a, <2>1, <2>2 DEF Numbered
  <2> QED
    BY <2>1, <2>3 DEF Numbered
<1>4. CASE DecVppMore(0)
  BY <1>4 DEF DecVppMore
<1>5. CASE \/ DecMore(0) \/ DecGetKcf(0) \/ DecVpp(0) \/ SdkRelease(0)
           \/ TrkStep(0) \/ SchedWait \/ SchedLoad \/ MainStep \/ UNCHANGED vars
  BY <1>5, UncountedSteps DEF Numbered
<1> QED
  BY <1>0, <1>1, <1>2, <1>3, <1>4, <1>5 DEF Next, DecStep

(* The frame the decoder stores has the number nFrame. *)
LEMMA StoredNumber ==
  ASSUME NumChannels = 1, Types, Numbered, dec[0] \notin {"none", "decode"}
  PROVE  FrameOf(0) = nFrame[0]
<1>1. nFrame[0] \in Frames
  BY OneLine
<1>2. FrameOf(0) = Plus(Succ[nFrame[0]], Labels - 1, Labels)
  <2>1. nDecoded[0] = Succ[nFrame[0]]
    BY DEF Numbered
  <2>2. nDecoded[0] \in Int /\ Labels \in Int
    BY <2>1, <1>1, FrameFacts, Sizes DEF Frames
  <2>3. nDecoded[0] + Labels - 1 = nDecoded[0] + (Labels - 1)
    BY <2>2
  <2> QED
    BY <2>1, <2>3 DEF FrameOf, Plus
<1> QED
  BY <1>1, <1>2, FrameFacts

(* The decoder marks what it stores by the number. *)
LEMMA MarkedStep ==
  ASSUME NumChannels = 1, Types, Numbered, Marked, [Next]_vars
  PROVE  Marked'
<1>0. Channels = {0} /\ kcf \in [Channels -> Seq(Stored)]
  BY OneLine
<1>a. PICK q \in Seq(Stored) : q = kcf[0]
  BY <1>0
<1>b. \A i \in 1 .. Len(q) : q[i].key <=> Key(q[i].frame)
  BY <1>a DEF Marked
<1>1. CASE DecStoreKcf(0)
  <2>1. PICK e \in Stored : e = [frame |-> FrameOf(0), key |-> IsKey(0), surf |-> cur[0]]
    BY <1>0, <1>1, NewFrame DEF DecStoreKcf
  <2>2. kcf'[0] = Append(q, e)
    BY <1>0, <1>1, <1>a, <2>1 DEF DecStoreKcf
  <2>3. e.key <=> Key(e.frame)
    <3>1. e.frame = nFrame[0]
      BY <1>1, <2>1, StoredNumber DEF DecStoreKcf
    <3>2. e.key <=> Key(nFrame[0])
      BY <2>1 DEF IsKey, Key, Multiple
    <3> QED
      BY <3>1, <3>2
  <2>4. PICK g : g = Append(q, e)
    OBVIOUS
  <2>5. /\ Len(q) \in Nat /\ Len(g) = Len(q) + 1 /\ g[Len(q) + 1] = e
        /\ \A i \in 1 .. Len(q) : g[i] = q[i]
    BY <2>4, PushTail
  <2>6. \A i \in 1 .. Len(g) : i \in 1 .. Len(q) \/ i = Len(q) + 1
    BY <2>5
  <2>7. \A i \in 1 .. Len(g) : g[i].key <=> Key(g[i].frame)
    BY <1>b, <2>3, <2>5, <2>6
  <2> QED
    BY <2>2, <2>4, <2>7 DEF Marked
<1>2. CASE TrkLoad(0)
  <2>1. q # << >> /\ kcf'[0] = Tail(q)
    BY <1>0, <1>2, <1>a DEF TrkLoad
  <2>2. PICK g : g = Tail(q)
    OBVIOUS
  <2>3. /\ Len(q) \in Nat \ {0} /\ Len(g) = Len(q) - 1
        /\ \A i \in 1 .. Len(q) - 1 : g[i] = q[i + 1]
    BY <2>1, <2>2, PopHead
  <2>4. \A i \in 1 .. Len(g) : i \in 1 .. Len(q) - 1 /\ i + 1 \in 1 .. Len(q)
    BY <2>3
  <2>5. \A i \in 1 .. Len(g) : g[i].key <=> Key(g[i].frame)
    BY <1>b, <2>3, <2>4
  <2> QED
    BY <2>1, <2>2, <2>5 DEF Marked
<1>3. CASE \/ DecMore(0) \/ DecFrame(0) \/ DecGetKcf(0) \/ DecVpp(0) \/ DecSync(0)
           \/ DecVppMore(0) \/ SdkRelease(0) \/ TrkWait(0) \/ TrkDetect(0) \/ TrkUpdate(0)
           \/ TrkPut(0) \/ SchedWait \/ SchedLoad \/ MainStep \/ UNCHANGED vars
  <2>1. kcf' = kcf
    BY <1>3 DEF DecMore, DecFrame, DecGetKcf, DecVpp, DecSync, DecVppMore, SdkRelease,
                TrkWait, TrkDetect, TrkUpdate, TrkPut, SchedWait, SchedLoad, MainStep,
                MainCreate, MainSemTrack, MainSemTask, vars, kcfVars
  <2> QED
    BY <2>1 DEF Marked
<1> QED
  BY <1>0, <1>1, <1>2, <1>3 DEF Next, DecStep, TrkStep

(* What the tracker follows, step by step. *)
LEMMA FollowsSteps ==
  ASSUME NEW h, NEW r, NEW p \in Frames
  PROVE  /\ \A t, u \in {"none", "wait", "lost"} : Follows(t, h, r, p) => Follows(u, h, r, p)
         /\ Follows("wait", h, r, p) => Follows("load", h, r, p)
         /\ Follows("detect", h, r, p) => Follows("unlock", h, <<0, h>>, p)
         /\ \A t \in {"update", "unlock"} : Follows(t, h, r, p) => Follows("put", h, r, p)
         /\ \A k : Follows("put", h, r, p) => Follows("load", k, r, p)
<1>1. \A t, u \in {"none", "wait", "lost"} : Follows(t, h, r, p) => Follows(u, h, r, p)
  BY DEF Follows
<1>2. Follows("wait", h, r, p) => Follows("load", h, r, p)
  BY FrameFacts DEF Follows
<1>3. Follows("detect", h, r, p) => Follows("unlock", h, <<0, h>>, p)
  BY FrameFacts DEF Follows
<1>4. \A t \in {"update", "unlock"} : Follows(t, h, r, p) => Follows("put", h, r, p)
  BY DEF Follows
<1>5. ASSUME NEW k, Follows("put", h, r, p) PROVE Follows("load", k, r, p)
  <2>1. h \in Frames /\ Succ[h] = p /\ r = <<0, KeyBefore(h)>>
    BY <1>5 DEF Follows
  <2>2. ~Key(p) => r = <<0, KeyBefore(p)>>
    BY <2>1, FrameFacts
  <2> QED
    BY <2>2 DEF Follows
<1> QED
  BY <1>1, <1>2, <1>3, <1>4, <1>5

(* Every step keeps the frames and the detections in their order. *)
LEMMA InOrderStep ==
  ASSUME NumChannels = 1, Types, \A c \in Channels : Announced(c), InOrder, [Next]_vars,
         ~skipped'
  PROVE  InOrder'
<1>0. /\ Channels = {0} /\ schedCh = 0
      /\ main = "create" => started = 0 /\ dec[0] = "none" /\ trk[0] = "none"
      /\ dec \in [Channels -> {"none", "decode", "kcf", "lock", "vpp", "sync"}]
      /\ trk \in [Channels -> {"none", "wait", "lost", "load", "detect", "update",
                               "unlock", "put"}]
      /\ held \in [Channels -> Stored \cup {Null}]
      /\ nFrame \in [Channels -> Frames]
      /\ kcf \in [Channels -> Seq(Stored)] /\ infer \in [Channels -> Seq(Frames)]
      /\ roi \in [Channels -> Channels \X Frames]
      /\ imgs \in Seq(Detections) /\ gDetectResultque \in [Channels -> Seq(Detections)]
  BY OneLine
<1>a. PICK p \in Frames :
        /\ Tracked(kcf[0], NextStored, trk[0], held[0].frame, roi[0], p)
        /\ Returning(Wanted(trk[0], held[0].frame, p), gDetectResultque[0], imgs, infer[0],
                     KeyFrom(nFrame[0]))
  BY DEF InOrder
<1>b. PICK k \in Seq(Stored), q \in Seq(Detections), m \in Seq(Detections), n \in Seq(Frames),
           f \in Frames :
        k = kcf[0] /\ q = gDetectResultque[0] /\ m = imgs /\ n = infer[0] /\ f = nFrame[0]
  BY <1>0
<1>c. PICK s, t, h, r, d : /\ s = NextStored /\ t = trk[0] /\ h = held[0].frame /\ r = roi[0]
                           /\ d = dec[0]
  OBVIOUS
<1>d. Tracked(k, s, t, h, r, p) /\ Returning(Wanted(t, h, p), q, m, n, KeyFrom(f))
  BY <1>a, <1>b, <1>c
<1>e. Numbered' /\ Marked' /\ Numbered /\ Marked
  BY NumberedStep, MarkedStep DEF InOrder
<1>f. ASSUME NEW p1 \in Frames, NEW k1, NEW s1, NEW t1, NEW h1, NEW r1, NEW q1, NEW m1, NEW n1,
             NEW y1, kcf'[0] = k1, NextStored' = s1, trk'[0] = t1, held'[0].frame = h1,
             roi'[0] = r1, gDetectResultque'[0] = q1, imgs' = m1, infer'[0] = n1,
             KeyFrom(nFrame'[0]) = y1,
             Tracked(k1, s1, t1, h1, r1, p1), Returning(Wanted(t1, h1, p1), q1, m1, n1, y1)
      PROVE  InOrder'
  BY <1>e, <1>f DEF InOrder
<1>g. NextStored = IF d \in {"vpp", "sync"} THEN Succ[f] ELSE f
  BY <1>b, <1>c DEF NextStored
<1>h. Succ[f] = (f + 1) % Labels /\ Succ[f] \in Frames
  BY FrameFacts DEF Plus
<1>1. CASE DecStoreKcf(0)
  <2>1. PICK e \in Stored : e = [frame |-> FrameOf(0), key |-> IsKey(0), surf |-> cur[0]]
    BY <1>0, <1>1, NewFrame DEF DecStoreKcf
  <2>2. d = "lock" /\ kcf'[0] = Append(k, e)
    BY <1>0, <1>1, <1>b, <1>c, <2>1 DEF DecStoreKcf
  <2>3. e.frame = f
    BY <1>b, <1>c, <1>e, <2>1, <2>2, StoredNumber
  <2>4. /\ trk'[0] = t /\ held'[0].frame = h /\ roi'[0] = r /\ gDetectResultque'[0] = q
        /\ imgs' = m /\ infer'[0] = n
    BY <1>1, <1>b, <1>c DEF DecStoreKcf, trkVars, roiVars, detVars, schedVars, inferVars
  <2>5. IsKey(0) <=> Key(f)
    BY <1>b DEF IsKey, Key, Multiple
  <2>6. NextStored' = Succ[f] /\ KeyFrom(nFrame'[0]) = KeyFrom(f)
    <3>1. CASE IsKey(0)
      <4>1. dec'[0] = "vpp" /\ nFrame'[0] = f
        BY <1>0, <1>1, <1>b, <3>1 DEF DecStoreKcf, DecGoto
      <4> QED
        BY <4>1 DEF NextStored
    <3>2. CASE ~IsKey(0)
      <4>1. dec'[0] = "decode" /\ nFrame'[0] = Succ[f]
        BY <1>0, <1>1, <1>b, <1>h, <3>2 DEF DecStoreKcf, DecGoto, NextFrame
      <4> QED
        BY <4>1, <3>2, <2>5, FrameFacts DEF NextStored
    <3> QED
      BY <3>1, <3>2
  <2>7. s = f
    BY <1>c, <1>g, <2>2
  <2>8. Tracked(Append(k, e), Succ[f], t, h, r, p)
    BY <1>d, <2>3, <2>7, TrackStore
  <2> QED
    BY <1>d, <1>f, <2>2, <2>4, <2>6, <2>8
<1>2. CASE DecSync(0)
  <2>1. d = "sync" /\ dec'[0] = "decode" /\ nFrame'[0] = Succ[f]
    BY <1>0, <1>2, <1>b, <1>c, <1>h DEF DecSync, DecGoto, NextFrame
  <2>2. Key(f) /\ FrameOf(0) = f
    BY <1>b, <1>c, <1>e, <2>1, StoredNumber DEF Numbered
  <2>3. /\ kcf'[0] = k /\ trk'[0] = t /\ held'[0].frame = h /\ roi'[0] = r
        /\ gDetectResultque'[0] = q /\ imgs' = m
    BY <1>2, <1>b, <1>c DEF DecSync, kcfVars, trkVars, roiVars, detVars, schedVars
  <2>4. infer'[0] = Append(n, f)
    BY <1>0, <1>2, <1>b, <2>2 DEF DecSync
  <2>5. NextStored' = s
    BY <1>c, <1>g, <2>1 DEF NextStored
  <2>6. KeyFrom(f) = f /\ KeyFrom(nFrame'[0]) = NextKey[f]
    BY <2>1, <2>2, FrameFacts
  <2>7. Returning(Wanted(t, h, p), q, m, Append(n, f), NextKey[f])
    BY <1>d, <2>6, ReturnSend
  <2> QED
    BY <1>d, <1>f, <2>3, <2>4, <2>5, <2>6, <2>7
<1>3. ASSUME \/ DecMore(0) \/ DecGetKcf(0) \/ DecVpp(0) \/ SdkRelease(0)
             \/ TrkStep(0) \/ SchedWait \/ SchedLoad \/ MainStep \/ UNCHANGED vars
      PROVE  NextStored' = s /\ KeyFrom(nFrame'[0]) = KeyFrom(f)
  BY <1>3, <1>b, <1>c, UncountedSteps DEF NextStored
<1>4. CASE TrkLoad(0)
  <2>1. t = "load" /\ k # << >> /\ kcf'[0] = Tail(k) /\ held'[0] = Head(k)
    BY <1>0, <1>4, <1>b, <1>c DEF TrkLoad
  <2>2. roi'[0] = r /\ gDetectResultque'[0] = q /\ imgs' = m /\ infer'[0] = n
    BY <1>4, <1>b, <1>c DEF TrkLoad, roiVars, detVars, schedVars, inferVars
  <2>3. PICK u : u = IF Key(p) THEN "detect" ELSE "update"
    OBVIOUS
  <2>4. /\ Head(k).frame = p /\ Tracked(Tail(k), s, u, p, r, Succ[p])
        /\ Wanted(u, p, Succ[p]) = Wanted("load", h, p)
    BY <1>d, <2>1, <2>3, TrackLoad
  <2>5. Head(k).key <=> Key(p)
    <3>1. 1 \in 1 .. Len(k) /\ Head(k) = k[1]
      BY <2>1, PopHead
    <3>2. k[1].key <=> Key(k[1].frame)
      BY <3>1, <1>b, <1>e DEF Marked
    <3> QED
      BY <3>1, <3>2, <2>4
  <2>6. trk'[0] = u
    BY <1>0, <1>4, <1>b, <2>3, <2>5 DEF TrkLoad, TrkGoto
  <2>7. NextStored' = s /\ KeyFrom(nFrame'[0]) = KeyFrom(f)
    BY <1>3, <1>4 DEF TrkStep
  <2>8. Succ[p] \in Frames /\ Returning(Wanted(u, p, Succ[p]), q, m, n, KeyFrom(f))
    BY <1>d, <2>1, <2>4, FrameFacts
  <2>9. held'[0].frame = p
    BY <2>1, <2>4
  <2> QED
    BY <1>f, <2>1, <2>2, <2>4, <2>6, <2>7, <2>8, <2>9
<1>5. CASE TrkDetect(0)
  <2>1. t = "detect" /\ gDetectResultAvaiable[0] > 0 /\ trk'[0] = "unlock"
    BY <1>0, <1>5, <1>c DEF TrkDetect, TrkGoto
  <2>2. q # << >>
    <3>1. Len(q) = gDetectResultAvaiable[0]
      BY <1>0, <1>b DEF Announced
    <3> QED
      BY <3>1, <2>1
  <2>3. gDetectResultque'[0] = Tail(q) /\ roi'[0] = Head(q)
    BY <1>0, <1>5, <1>b, <2>2 DEF TrkDetect
  <2>4. kcf'[0] = k /\ held'[0].frame = h /\ imgs' = m /\ infer'[0] = n
    BY <1>5, <1>b, <1>c DEF TrkDetect, kcfVars, inferVars, schedVars
  <2>5. Run(Succ, p, Len(k), FramesOf(k), s) /\ Follows(t, h, r, p)
    BY <1>d DEF Tracked
  <2>6. Wanted(t, h, p) = h
    BY <2>1 DEF Wanted
  <2>7. Head(q) = <<0, h>> /\ Returning(NextKey[h], Tail(q), m, n, KeyFrom(f))
    BY <1>d, <2>2, <2>6, ReturnTake
  <2>8. Tracked(k, s, "unlock", h, <<0, h>>, p)
    BY <2>1, <2>5, FollowsSteps DEF Tracked
  <2>9. Wanted("unlock", h, p) = NextKey[h]
    BY <2>1, <2>5, FrameFacts DEF Wanted, Follows
  <2>10. NextStored' = s /\ KeyFrom(nFrame'[0]) = KeyFrom(f)
    BY <1>3, <1>5 DEF TrkStep
  <2> QED
    BY <1>f, <2>1, <2>3, <2>4, <2>7, <2>8, <2>9, <2>10
<1>6. CASE SchedLoad
  <2>1. n # << >> /\ infer'[0] = Tail(n)
    BY <1>0, <1>6, <1>b DEF SchedLoad
  <2>2. kcf'[0] = k /\ trk'[0] = t /\ held'[0].frame = h /\ roi'[0] = r
    BY <1>6, <1>b, <1>c DEF SchedLoad, kcfVars, trkVars, roiVars
  <2>3. PICK b \in Seq(Detections) :
          /\ b = Append(m, <<0, Head(n)>>)
          /\ \/ imgs' = b /\ gDetectResultque' = gDetectResultque
             \/ /\ imgs' = << >>
                /\ gDetectResultque' = [gDetectResultque EXCEPT ![0] = @ \o b]
    BY <1>0, <1>6, <1>b, Batched, OneLine DEF detVars
  <2>4. Returning(Wanted(t, h, p), q, b, Tail(n), KeyFrom(f))
    BY <1>d, <2>1, <2>3, ReturnBatch
  <2>5. NextStored' = s /\ KeyFrom(nFrame'[0]) = KeyFrom(f)
    BY <1>3, <1>6
  <2>6. CASE imgs' = b /\ gDetectResultque' = gDetectResultque
    BY <1>b, <1>d, <1>f, <2>1, <2>2, <2>4, <2>5, <2>6
  <2>7. CASE imgs' = << >> /\ gDetectResultque' = [gDetectResultque EXCEPT ![0] = @ \o b]
    <3>1. gDetectResultque'[0] = q \o b
      BY <1>0, <1>b, <2>7
    <3>2. Returning(Wanted(t, h, p), q \o b, << >>, Tail(n), KeyFrom(f))
      BY <2>4, ReturnReport
    <3> QED
      BY <1>d, <1>f, <2>1, <2>2, <2>5, <2>7, <3>1, <3>2
  <2> QED
    BY <2>3, <2>6, <2>7
<1>7. CASE TrkWait(0) \/ TrkUpdate(0) \/ TrkPut(0) \/ MainCreate \/ MainSemTrack
  <2>1. /\ kcf'[0] = k /\ roi'[0] = r /\ gDetectResultque'[0] = q /\ imgs' = m /\ infer'[0] = n
    BY <1>7, <1>b, <1>c DEF TrkWait, TrkUpdate, TrkPut, MainCreate, MainSemTrack, kcfVars,
                            roiVars, detVars, inferVars, schedVars
  <2>2. PICK u, g : u = trk'[0] /\ g = held'[0].frame
    OBVIOUS
  <2>3. \/ t \in {"none", "wait", "lost"} /\ u \in {"none", "wait", "lost"} /\ g = h
        \/ t = u /\ g = h
        \/ t = "wait" /\ u = "load" /\ g = h
        \/ t \in {"update", "unlock"} /\ u = "put" /\ g = h
        \/ t = "put" /\ u = "load"
    BY <1>0, <1>7, <1>c, <2>2
       DEF TrkWait, TrkUpdate, TrkPut, MainCreate, MainSemTrack, TrkGoto
  <2>4. Run(Succ, p, Len(k), FramesOf(k), s) /\ Follows(t, h, r, p)
    BY <1>d DEF Tracked
  <2>5. Follows(u, g, r, p)
    BY <2>3, <2>4, FollowsSteps
  <2>6. Tracked(k, s, u, g, r, p)
    BY <2>4, <2>5 DEF Tracked
  <2>7. Wanted(u, g, p) = Wanted(t, h, p)
    BY <2>3 DEF Wanted
  <2>8. NextStored' = s /\ KeyFrom(nFrame'[0]) = KeyFrom(f)
    BY <1>3, <1>7 DEF TrkStep, MainStep
  <2> QED
    BY <1>d, <1>f, <2>1, <2>2, <2>6, <2>7, <2>8
<1>8. CASE \/ DecMore(0) \/ DecGetKcf(0) \/ DecVpp(0) \/ SdkRelease(0) \/ SchedWait
           \/ MainSemTask \/ UNCHANGED vars
  <2>1. /\ kcf'[0] = k /\ trk'[0] = t /\ held'[0].frame = h /\ roi'[0] = r
        /\ gDetectResultque'[0] = q /\ imgs' = m /\ infer'[0] = n
    BY <1>8, <1>b, <1>c DEF DecMore, DecGetKcf, DecVpp, SdkRelease, SchedWait, MainSemTask,
                 vars, kcfVars, trkVars, roiVars, detVars, inferVars, schedVars
  <2>2. NextStored' = s /\ KeyFrom(nFrame'[0]) = KeyFrom(f)
    BY <1>3, <1>8 DEF MainStep
  <2> QED
    BY <1>d, <1>f, <2>1, <2>2
<1>9. CASE DecFrame(0)
  <2>1. /\ kcf'[0] = k /\ trk'[0] = t /\ held'[0].frame = h /\ roi'[0] = r
        /\ gDetectResultque'[0] = q /\ imgs' = m /\ infer'[0] = n /\ nFrame'[0] = f
    BY <1>9, <1>b, <1>c DEF DecFrame, kcfVars, trkVars, roiVars, detVars, inferVars, schedVars
  <2>2. dec[0] = "decode" /\ dec'[0] = "kcf"
    BY <1>0, <1>9 DEF DecFrame, DecGoto
  <2>3. NextStored' = s
    BY <1>c, <1>g, <2>1, <2>2 DEF NextStored
  <2> QED
    BY <1>d, <1>f, <2>1, <2>3
<1>10. CASE DecVppMore(0)
  BY <1>10 DEF DecVppMore
<1> QED
  BY <1>0, <1>1, <1>2, <1>4, <1>5, <1>6, <1>7, <1>8, <1>9, <1>10
     DEF Next, DecStep, TrkStep, MainStep

(* That the VPP asked for more data is not forgotten. *)
LEMMA SkippedStays ==
  ASSUME NumChannels = 1, Types, skipped, [Next]_vars
  PROVE  skipped'
<1>1. DecVppMore(0) => skipped'
  BY DEF DecVppMore
<1>2. Channels = {0}
  BY OneLine
<1>3. skipped' = skipped \/ DecVppMore(0)
  BY <1>2 DEF Next, DecStep, DecMore, DecFrame, DecGetKcf, DecStoreKcf, DecVpp, DecSync,
              SdkRelease, TrkStep, TrkWait, TrkLoad, TrkDetect, TrkUpdate, TrkPut,
              SchedWait, SchedLoad, MainStep, MainCreate, MainSemTrack, MainSemTask,
              vars, decVars
<1> QED
  BY <1>1, <1>3

(* The frames and the detections stay in order until then. *)
LEMMA OrderInductive ==
  Spec => [](Types /\ (NumChannels = 1 => skipped \/ InOrder))
<1> DEFINE Inv == /\ Types /\ \A c \in Channels : Announced(c)
                  /\ NumChannels = 1 => skipped \/ InOrder
<1>1. Init => Inv
  <2> SUFFICES ASSUME Init PROVE Inv
    OBVIOUS
  <2>1. Types
    BY TypesInit
  <2>2. ASSUME NEW c \in Channels PROVE Announced(c)
    BY DEF Init, Announced
  <2>3. 0 \in Channels
    BY Sizes
  <2>4. /\ kcf[0] = << >> /\ trk[0] = "none" /\ dec[0] = "none"
        /\ nFrame[0] = 0 /\ nDecoded[0] = 0
        /\ infer[0] = << >> /\ imgs = << >> /\ gDetectResultque[0] = << >>
    BY <2>3 DEF Init
  <2>5. Numbered /\ Marked /\ NextStored = 0
    BY <2>4 DEF Numbered, Marked, NextStored
  <2>6. KeyFrom(0) = 0 /\ 0 \in Frames
    BY FrameFacts
  <2>7. \A x : Tracked(<< >>, 0, "none", x, roi[0], 0)
    BY DEF Tracked, Run, Follows
  <2>8. \A x : Wanted("none", x, 0) = 0
    BY <2>6 DEF Wanted
  <2>9. Returning(0, << >>, << >>, << >>, 0)
    <3>1. /\ Run(NextKey, 0, Len(<< >>), ImagesOf(<< >>), 0)
          /\ Run(NextKey, 0, Len(<< >>), << >>, 0)
      BY DEF Run
    <3> QED
      BY <3>1, <2>6 DEF Returning
  <2>10. InOrder
    BY <2>4, <2>5, <2>6, <2>7, <2>8, <2>9 DEF InOrder
  <2> QED
    BY <2>1, <2>2, <2>10
<1>2. Inv /\ [Next]_vars => Inv'
  <2> SUFFICES ASSUME Inv, [Next]_vars PROVE Inv'
    OBVIOUS
  <2>1. Types' /\ \A c \in Channels : Announced(c)'
    BY TypesStep, AnnouncedStep
  <2>2. ASSUME NumChannels = 1, ~skipped' PROVE InOrder'
    <3>1. ~skipped
      BY <2>2, SkippedStays
    <3> QED
      BY <2>2, <3>1, InOrderStep
  <2> QED
    BY <2>1, <2>2
<1> HIDE DEF Inv
<1>3. Spec => []Inv
  BY <1>1, <1>2, PTL DEF Spec
<1>4. Inv => Types /\ (NumChannels = 1 => skipped \/ InOrder)
  BY DEF Inv
<1> QED
  BY <1>3, <1>4, PTL

(* A KCF tracker works on the objects that were detected in the key frame   *)
(* it follows, with one channel and until the VPP asks for more data,       *)
(* however many frames, images and detections are on their way and          *)
(* whatever the key interval and the batch size; and on every channel it is *)
(* initialised before it is updated.                                        *)
THEOREM RegionsFollow == Spec => []RegionsCurrent
<1>1. Types /\ (NumChannels = 1 => skipped \/ InOrder) => RoiFresh
  <2> SUFFICES ASSUME NumChannels = 1 => skipped \/ InOrder, ~skipped, NumChannels = 1,
                      trk[0] \in {"update", "unlock", "put"}
               PROVE  roi[0] = <<0, held[0].frame - (held[0].frame % KeyInterval)>>
    BY DEF RoiFresh
  <2>1. PICK p \in Frames : Tracked(kcf[0], NextStored, trk[0], held[0].frame, roi[0], p)
    BY DEF InOrder
  <2> QED
    BY <2>1 DEF Tracked, Follows, KeyBefore, Floor
<1>2. Spec => []RoiFresh
  BY <1>1, OrderInductive, PTL
<1> QED
  BY <1>2, UpdatesAfterInit, PTL DEF RegionsCurrent

-----------------------------------------------------------------------------
(* Decoder, tracker and detector waiting for each other. *)

(* Counting on keeps two numbers on the same rest. *)
LEMMA SameRest ==
  ASSUME NEW K \in Nat \ {0}, NEW n \in Nat, NEW m \in Nat, n % K = m % K
  PROVE  (n + 1) % K = (m + 1) % K
<1>1. PICK a \in Int, b \in Int, r \in 0 .. K - 1 :
        a = n \div K /\ b = m \div K /\ r = n % K
  OBVIOUS
<1>2. n = K * a + r
  BY <1>1
<1>3. m = K * b + r
  BY <1>1
<1>4. CASE r + 1 < K
  <2>1. PICK x \in Int, y \in Int, s \in 0 .. K - 1 :
          x = n + 1 /\ y = m + 1 /\ x = K * a + s /\ y = K * b + s
    <3>1. n + 1 = K * a + (r + 1) /\ m + 1 = K * b + (r + 1) /\ r + 1 \in 0 .. K - 1
      BY <1>2, <1>3, <1>4
    <3> QED
      BY <3>1
  <2>2. x % K = s
    <3>1. x = K * a + s
      BY <2>1
    <3> QED
      BY <3>1, RestOf
  <2>3. y % K = s
    <3>1. y = K * b + s
      BY <2>1
    <3> QED
      BY <3>1, RestOf
  <2> QED
    BY <2>1, <2>2, <2>3
<1>5. CASE r + 1 = K
  <2>1. PICK x \in Int, y \in Int, c \in Int, d \in Int :
          x = n + 1 /\ y = m + 1 /\ c = a + 1 /\ d = b + 1
    OBVIOUS
  <2>2. K * c = K * a + K /\ K * d = K * b + K
    BY <2>1
  <2>3. x = K * c + 0 /\ y = K * d + 0 /\ 0 \in 0 .. K - 1
    BY <2>1, <2>2, <1>2, <1>3, <1>5
  <2>4. x % K = 0 /\ y % K = 0
    BY <2>3, RestOf
  <2> QED
    BY <2>1, <2>4
<1> QED
  BY <1>4, <1>5

(* So does counting modulo a multiple of K. *)
LEMMA SuccRest ==
  ASSUME NEW f \in Frames, NEW m \in Nat, f % KeyInterval = m % KeyInterval
  PROVE  Succ[f] % KeyInterval = (m + 1) % KeyInterval
<1>0. PICK K \in Nat \ {0}, L \in Nat \ {0} : K = KeyInterval /\ L = Labels /\ L % K = 0
  BY Sizes
<1>1. PICK n \in 0 .. L - 1 : n = f
  BY <1>0 DEF Frames
<1>2. (n + 1) % K = (m + 1) % K
  <2>1. n % K = m % K /\ n \in Nat
    BY <1>0, <1>1
  <2> QED
    BY <2>1, SameRest
<1>3. Succ[f] = (n + 1) % L
  BY <1>0, <1>1 DEF Succ, Plus
<1>4. CASE n + 1 < L
  <2>1. n + 1 = L * 0 + (n + 1) /\ n + 1 \in 0 .. L - 1
    BY <1>4
  <2>2. (n + 1) % L = n + 1
    BY <2>1, RestOf
  <2> QED
    BY <2>2, <1>0, <1>2, <1>3
<1>5. CASE n + 1 = L
  <2>1. n + 1 = L * 1 + 0 /\ 0 \in 0 .. L - 1 /\ 0 \in 0 .. K - 1 /\ 0 = K * 0 + 0
    BY <1>5
  <2>2. (n + 1) % L = 0
    BY <2>1, RestOf
  <2>3. 0 % K = 0
    BY <2>1, RestOf
  <2>4. (n + 1) % K = 0
    BY <1>0, <1>5
  <2> QED
    BY <2>2, <2>3, <2>4, <1>0, <1>2, <1>3
<1> QED
  BY <1>4, <1>5

(* In a run of frames that follows a key frame, the frame at place i is i   *)
(* after a key frame.                                                       *)
AfterKey(f, n) == \A i \in 1 .. n : f[i] \in Frames /\ f[i] % KeyInterval = i % KeyInterval

LEMMA RunRests ==
  ASSUME NEW h \in Frames, Key(h), NEW n \in Nat, NEW f, NEW b, Run(Succ, Succ[h], n, f, b)
  PROVE  AfterKey(f, n)
<1> USE DEF AfterKey
<1> DEFINE Good(i) == f[i] \in Frames /\ f[i] % KeyInterval = i % KeyInterval
           Bad == {i \in 1 .. n : ~Good(i)}
<1> SUFFICES ASSUME Bad # {} PROVE FALSE
  OBVIOUS
<1>1. PICK x \in Bad : \A y \in Bad : x <= y
  <2>1. Bad \in SUBSET Nat
    OBVIOUS
  <2> HIDE DEF Bad
  <2> QED
    BY <2>1, LeastNumber
<1>2. x \in 1 .. n /\ ~Good(x)
  OBVIOUS
<1>3. CASE x = 1
  <2>1. f[1] = Succ[h]
    BY <1>2 DEF Run
  <2>2. h % KeyInterval = 0 % KeyInterval
    <3>1. PICK K \in Nat \ {0} : K = KeyInterval
      BY Sizes
    <3>2. 0 % K = 0
      OBVIOUS
    <3> QED
      BY <3>1, <3>2 DEF Key, Multiple
  <2>3. Succ[h] % KeyInterval = (0 + 1) % KeyInterval
    BY <2>2, SuccRest
  <2>4. Succ[h] \in Frames
    BY FrameFacts
  <2> QED
    BY <2>1, <2>3, <2>4, <1>2, <1>3
<1>4. CASE x # 1
  <2>1. PICK i \in 1 .. n - 1 : x = i + 1
    <3>1. x - 1 \in 1 .. n - 1 /\ x = (x - 1) + 1
      BY <1>2, <1>4
    <3> QED
      BY <3>1
  <2>2. i \in 1 .. n /\ i < x /\ i \in Nat
    BY <2>1, <1>2
  <2>3. Good(i)
    BY <2>2, <1>1, <1>2
  <2>4. f[x] = Succ[f[i]]
    BY <2>1 DEF Run
  <2>5. Succ[f[i]] % KeyInterval = (i + 1) % KeyInterval
    BY <2>2, <2>3, SuccRest
  <2>6. Succ[f[i]] \in Frames
    BY <2>3, FrameFacts
  <2> QED
    BY <2>1, <2>4, <2>5, <2>6, <1>2
<1> QED
  BY <1>3, <1>4

(* In a pipe of b * KeyInterval frames or more that follows a key frame     *)
(* there are b key frames or more.                                          *)
LEMMA EnoughKeys ==
  ASSUME NEW q \in Seq(Stored), NEW b \in Nat, b * KeyInterval <= Len(q),
         \A i \in 1 .. Len(q) : q[i].key <=> Key(q[i].frame),
         \A i \in 1 .. Len(q) : q[i].frame % KeyInterval = i % KeyInterval
  PROVE  Keys(q) >= b
<1>0. PICK K \in Nat \ {0}, n \in Nat : K = KeyInterval /\ n = Len(q)
  BY Sizes, LenProperties
<1>1. ASSUME NEW j \in 1 .. b PROVE j * K \in KeysOf(q)
  <2>1. j * K \in Nat /\ j * K >= 1 /\ j * K <= b * K
    <3>1. j * K >= 1 * K
      BY <1>1
    <3>2. (b - j) * K >= 0
      BY <1>1
    <3>3. b * K = j * K + (b - j) * K
      OBVIOUS
    <3>4. j * K \in Nat /\ (b - j) * K \in Int /\ b * K \in Nat
      OBVIOUS
    <3> QED
      BY <3>1, <3>2, <3>3, <3>4
  <2>2. b * K <= n /\ b * K \in Nat
    BY <1>0
  <2>3. j * K \in 1 .. n
    BY <2>1, <2>2
  <2>4. (j * K) % K = 0
    <3>1. j * K = K * j + 0 /\ 0 \in 0 .. K - 1 /\ j \in Int /\ j * K \in Int
      OBVIOUS
    <3> QED
      BY <3>1, RestOf
  <2>5. q[j * K].frame % KeyInterval = 0
    BY <1>0, <2>3, <2>4
  <2>6. q[j * K].key
    BY <1>0, <2>3, <2>5 DEF Key, Multiple
  <2> QED
    BY <1>0, <2>3, <2>6 DEF KeysOf
<1> DEFINE g == [j \in 1 .. b |-> j * K]
<1>2. g \in Injection(1 .. b, KeysOf(q))
  <2>1. g \in [1 .. b -> KeysOf(q)]
    BY <1>1
  <2>2. ASSUME NEW i \in 1 .. b, NEW j \in 1 .. b, g[i] = g[j] PROVE i = j
    <3>1. i * K = j * K
      BY <2>2
    <3>2. (i - j) * K = 0
      BY <3>1
    <3> QED
      BY <3>2
  <2> QED
    BY <2>1, <2>2 DEF Injection, IsInjective
<1>3. IsFiniteSet(KeysOf(q)) /\ Keys(q) \in Nat
  BY KeysNumber
<1> HIDE DEF g
<1>4. Cardinality(1 .. b) <= Cardinality(KeysOf(q))
  BY <1>2, <1>3, FS_Injection
<1>5. Cardinality(1 .. b) = b
  BY FS_Interval
<1> QED
  BY <1>3, <1>4, <1>5 DEF Keys

(* When the tracker waits for a detection with its pipe full, all key       *)
(* frames of the pipe and its own are with the detector: more than it keeps *)
(* back.                                                                    *)
LEMMA PipeHoldsBatch ==
  ASSUME NumChannels = 1, (BatchSize - 1) * KeyInterval < KcfBuffers,
         Types, InOrder, WithoutAnswer(0)
  PROVE  ~Wedged(0)
<1> SUFFICES ASSUME Wedged(0) PROVE FALSE
  OBVIOUS
<1>0. PICK q \in Seq(Stored), n \in Nat, B \in Nat \ {0}, b \in Nat, K \in Nat \ {0}, F \in Nat \ {0} :
        /\ q = kcf[0] /\ n = Len(q) /\ B = BatchSize /\ b = B - 1
        /\ K = KeyInterval /\ F = KcfBuffers
  <2>1. kcf[0] \in Seq(Stored)
    BY OneChannel
  <2> QED
    BY <2>1, Sizes, LenProperties
<1>1. /\ dec[0] = "kcf" /\ trk[0] = "detect" /\ gDetectResultAvaiable[0] = 0
      /\ infer[0] = << >>
  BY DEF Wedged
<1>2. n + 1 >= F
  BY <1>0, <1>1 DEF Wedged, NoBufferFor, TrackerHolds
<1>3. b * K <= n
  <2>1. b * K < F /\ b * K \in Nat
    BY <1>0
  <2> QED
    BY <2>1, <1>2
<1>4. \A i \in 1 .. n : q[i].frame % KeyInterval = i % KeyInterval
  <2>1. PICK p \in Frames : Tracked(q, NextStored, "detect", held[0].frame, roi[0], p)
    BY <1>0, <1>1 DEF InOrder
  <2>2. held[0].frame \in Frames /\ Succ[held[0].frame] = p /\ Key(held[0].frame)
    BY <2>1 DEF Tracked, Follows
  <2>3. Run(Succ, p, n, FramesOf(q), NextStored)
    BY <1>0, <2>1 DEF Tracked
  <2>4. PICK h, f, y : /\ h \in Frames /\ f = FramesOf(q) /\ Key(h)
                       /\ Run(Succ, Succ[h], n, f, y)
    BY <2>2, <2>3
  <2>5. AfterKey(f, n)
    BY <2>4, RunRests
  <2> QED
    BY <1>0, <2>4, <2>5 DEF FramesOf, AfterKey
<1>5. \A i \in 1 .. n : q[i].key <=> Key(q[i].frame)
  BY <1>0 DEF InOrder, Marked
<1>6. Keys(q) >= b
  BY <1>0, <1>3, <1>4, <1>5, EnoughKeys
<1>7. Keys(q) + 1 = Len(imgs)
  <2>1. Keys(q) + Asks("detect") = Due + Sends("kcf") + 0
    BY <1>0, <1>1 DEF WithoutAnswer, Unserved
  <2>2. Asks("detect") = 1 /\ Sends("kcf") = 0
    BY DEF Asks, Sends
  <2>3. Due = 0 + Len(imgs) + 0
    BY <1>1 DEF Due
  <2>4. Len(imgs) \in Nat /\ Keys(q) \in Nat
    BY OneChannel, KeysNumber
  <2> QED
    BY <2>1, <2>2, <2>3, <2>4
<1>8. Len(imgs) < B /\ Len(imgs) \in Nat /\ Keys(q) \in Nat
  <2>1. Len(imgs) < BatchSize
    BY DEF Types, InferTypes
  <2> QED
    BY <1>0, <2>1, OneChannel, KeysNumber
<1> QED
  BY <1>0, <1>6, <1>7, <1>8

(* With one channel, decoder, tracker and detector never all wait for each  *)
(* other if a full pipe of the tracker holds the key frames of a batch:     *)
(* (BatchSize - 1) * KeyInterval < KcfBuffers, and no surface, slot or      *)
(* image buffer matters.  The program's 20 buffers and key interval of 6    *)
(* meet it up to batches of 4; with larger ones they can be wedged.         *)
THEOREM BatchesThatFit ==
  ASSUME NumChannels = 1, (BatchSize - 1) * KeyInterval < KcfBuffers
  PROVE  Spec => []NeverWedged
<1> DEFINE Served == skipped \/ WithoutAnswer(0)
<1>1. Init => Served
  <2> SUFFICES ASSUME Init PROVE WithoutAnswer(0)
    OBVIOUS
  <2>1. 0 \in Channels
    BY Sizes
  <2>2. /\ kcf[0] = << >> /\ trk[0] = "none" /\ dec[0] = "none"
        /\ infer[0] = << >> /\ imgs = << >> /\ gDetectResultAvaiable[0] = 0
    BY <2>1 DEF Init
  <2>3. KeysOf(<< >>) = {}
    BY DEF KeysOf
  <2>4. Keys(<< >>) = 0 /\ Asks("none") = 0 /\ Sends("none") = 0
    BY <2>3, FS_EmptySet DEF Keys, Asks, Sends
  <2> QED
    BY <2>2, <2>4 DEF WithoutAnswer, Unserved, Due
<1>2. Types /\ Served /\ [Next]_vars => Served'
  <2> SUFFICES ASSUME Types, Served, [Next]_vars PROVE Served'
    OBVIOUS
  <2>1. CASE skipped
    <3>1. skipped'
      BY <2>1, SkippedStays
    <3> QED
      BY <3>1
  <2>2. CASE WithoutAnswer(0)
    <3>1. 0 \in Int
      OBVIOUS
    <3>2. WithoutAnswer(0)' \/ DecVppMore(0)
      BY <2>2, <3>1, UnservedStep
    <3>3. DecVppMore(0) => skipped'
      BY DEF DecVppMore
    <3> QED
      BY <3>2, <3>3
  <2> QED
    BY <2>1, <2>2
<1>3. Types /\ (NumChannels = 1 => skipped \/ InOrder) /\ Served => NeverWedged
  <2> SUFFICES ASSUME Types, InOrder, WithoutAnswer(0), NEW c \in Channels PROVE ~Wedged(c)
    BY DEF NeverWedged
  <2>1. c = 0
    BY OneChannel
  <2> QED
    BY <2>1, PipeHoldsBatch
<1> HIDE DEF Served
<1> QED
  BY <1>1, <1>2, <1>3, OrderInductive, PTL DEF Spec
=============================================================================
