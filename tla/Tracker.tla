------------------------------ MODULE Tracker -------------------------------
(***************************************************************************)
(* The program built with TEST_KCF_TRACK_WITH_GPU.  Every decoded frame    *)
(* goes through a second pipe (dKCFpipe) to the tracker thread of its      *)
(* channel, with the decoder's surface; every KeyInterval-th frame also    *)
(* goes through the VPP and the first pipe to the scheduler, whose         *)
(* detections come back to the tracker through gDetectResultque.  The      *)
(* tracker starts its trackers on a detection and updates them on the      *)
(* frames in between.                                                      *)
(*                                                                         *)
(* The surfaces belong to three parties: the Media SDK, which locks those  *)
(* it needs, the decoder thread, which takes the first one with Locked = 0 *)
(* for the next frame, and the tracker.  Data.Locked is counted by all of  *)
(* them, by the program without any lock.                                  *)
(*                                                                         *)
(* A pipe is a sequence of stored frames and the number of its buffers;    *)
(* the buffers themselves are in DPipe.  The tracker's images go into      *)
(* gresultque without any wait and are left out, and so is the shutdown,   *)
(* which neither wakes nor joins the trackers.                             *)
(***************************************************************************)
EXTENDS Integers, Sequences, FiniteSets

CONSTANTS NumChannels,     \* FLAGS_c
          KeyInterval,     \* a key frame every so many frames (6)
          KcfBuffers,      \* buffers of a dKCFpipe (20)
          InferBuffers,    \* buffers of a dpipe (100)
          BatchSize,       \* FLAGS_batch
          NumDecSurf,      \* nDecSurfNum
          NumVppIn,        \* nVPP_In_SurfNum
          MAX_NUM_TRACK_OBJECT,
          Labels,          \* bound: frames are counted modulo Labels
          MaxRefs,         \* bound: output surfaces the SDK keeps as references
          VppSkips         \* whether the VPP may once ask for more data

ASSUME TrackerAssumption ==
  /\ {NumChannels, KeyInterval, KcfBuffers, InferBuffers, BatchSize, NumDecSurf,
      NumVppIn, MAX_NUM_TRACK_OBJECT, Labels} \subseteq Nat \ {0}
  /\ Labels % KeyInterval = 0
  /\ MaxRefs \in Nat
  /\ VppSkips \in BOOLEAN

Channels == 0 .. NumChannels - 1
Surfaces == 1 .. NumDecSurf      \* pmfxDecSurfaces
Slots    == 1 .. NumVppIn        \* pmfxVPP_In_Surfaces
Frames   == 0 .. Labels - 1
Own      == 0                    \* a slot that still has the surface of its own
Null     == [frame |-> 0, key |-> FALSE, surf |-> Own]

VARIABLES
  main, started,          \* main thread; channels set up so far
  dec,                    \* decoder threads
  cur, rd,                \* the surface of the frame in hand; value of Locked read
  idx,                    \* nIndexVPP_In, while bNeedMore is set (else 1)
  bNeedMore, vppIn,       \* per decoder; the surface each slot points to
  nFrame, nDecoded,       \* nFrame; nFrameProcessed
  Locked, sdkref,         \* Data.Locked; surfaces the SDK holds as references
  kcf,                    \* stored frames of dKCFpipe
  gNewTrackTaskAvaiable,  \* semaphores of the trackers
  trk, held, trd,         \* tracker threads; frame in hand; value of Locked read
  nCurTrackObjects, skiptrack,
  inited,                 \* history: trackers that were started
  roi,                    \* history: the frame whose detection is being tracked
  infer,                  \* stored frames of dpipe
  gNewtaskAvaiable,       \* semaphore of the scheduler
  sched, schedCh, imgs,   \* scheduler; its pipe; the images of the batch
  gDetectResultque, gDetectResultAvaiable,
  raced,                  \* history: an update of Locked overwrote another
  skipped,                \* history: the VPP asked for more data
  lost                    \* history: sem_init wiped out a post or a waiter

surfVars  == <<Locked, sdkref, raced>>
slotVars  == <<idx, bNeedMore, vppIn>>
decVars   == <<dec, cur, rd, slotVars, nFrame, nDecoded, skipped>>
kcfVars   == <<kcf, gNewTrackTaskAvaiable>>
roiVars   == <<nCurTrackObjects, skiptrack, inited, roi>>
trkVars   == <<trk, held, trd, roiVars>>
inferVars == <<infer, gNewtaskAvaiable>>
schedVars == <<sched, schedCh, imgs>>
detVars   == <<gDetectResultque, gDetectResultAvaiable>>
mainVars  == <<main, started, lost>>

vars == <<surfVars, decVars, kcfVars, trkVars, inferVars, schedVars, detVars, mainVars>>

Stored == [frame : Frames, key : BOOLEAN, surf : Surfaces]

TypeOK ==
  /\ main \in {"create", "sem_track", "sem_task", "run"} /\ started \in 0 .. NumChannels
  /\ dec \in [Channels -> {"none", "decode", "kcf", "lock", "vpp", "sync"}]
  /\ cur \in [Channels -> Surfaces \cup {Own}]
  /\ idx \in [Channels -> Slots]
  /\ rd \in [Channels -> 0 .. 2] /\ trd \in [Channels -> 0 .. 3]
  /\ bNeedMore \in [Channels -> BOOLEAN]
  /\ vppIn \in [Channels -> [Slots -> Surfaces \cup {Own}]]
  /\ nFrame \in [Channels -> Frames] /\ nDecoded \in [Channels -> Frames]
  /\ Locked \in [Channels -> [Surfaces -> 0 .. 3]]
  /\ sdkref \in [Channels -> SUBSET Surfaces]
  /\ kcf \in [Channels -> Seq(Stored)] /\ \A c \in Channels : Len(kcf[c]) <= KcfBuffers
  /\ gNewTrackTaskAvaiable \in [Channels -> Nat]
  /\ trk \in [Channels -> {"none", "wait", "lost", "load", "detect", "update",
                           "unlock", "put"}]
  /\ held \in [Channels -> Stored \cup {Null}]
  /\ nCurTrackObjects \in [Channels -> 0 .. MAX_NUM_TRACK_OBJECT]
  /\ skiptrack \in [Channels -> BOOLEAN]
  /\ inited \in [Channels -> 0 .. MAX_NUM_TRACK_OBJECT]
  /\ roi \in [Channels -> Channels \X Frames]
  /\ infer \in [Channels -> Seq(Frames)]
  /\ \A c \in Channels : Len(infer[c]) <= InferBuffers
  /\ gNewtaskAvaiable \in Nat
  /\ sched \in {"none", "wait", "load"} /\ schedCh \in Channels
  /\ imgs \in Seq(Channels \X Frames) /\ Len(imgs) < BatchSize
  /\ gDetectResultque \in [Channels -> Seq(Channels \X Frames)]
  /\ gDetectResultAvaiable \in [Channels -> Nat]
  /\ raced \in BOOLEAN /\ skipped \in BOOLEAN /\ lost \in BOOLEAN

-----------------------------------------------------------------------------
Init ==
  /\ main = "create" /\ started = 0 /\ lost = FALSE
  /\ dec = [c \in Channels |-> "none"] /\ trk = [c \in Channels |-> "none"]
  /\ cur = [c \in Channels |-> Own] /\ rd = [c \in Channels |-> 0]
  /\ idx = [c \in Channels |-> 1] /\ bNeedMore = [c \in Channels |-> FALSE]
  /\ vppIn = [c \in Channels |-> [i \in Slots |-> Own]]
  /\ nFrame = [c \in Channels |-> 0] /\ nDecoded = [c \in Channels |-> 0]
  /\ Locked = [c \in Channels |-> [s \in Surfaces |-> 0]]
  /\ sdkref = [c \in Channels |-> {}] /\ raced = FALSE /\ skipped = FALSE
  /\ kcf = [c \in Channels |-> << >>] /\ infer = [c \in Channels |-> << >>]
  /\ gNewTrackTaskAvaiable = [c \in Channels |-> 0] /\ gNewtaskAvaiable = 0
  /\ held = [c \in Channels |-> Null] /\ trd = [c \in Channels |-> 0]
  /\ nCurTrackObjects = [c \in Channels |-> MAX_NUM_TRACK_OBJECT]
  /\ skiptrack = [c \in Channels |-> FALSE] /\ inited = [c \in Channels |-> 0]
  /\ roi = [c \in Channels |-> <<c, 0>>]
  /\ sched = "none" /\ schedCh = 0 /\ imgs = << >>
  /\ gDetectResultque = [c \in Channels |-> << >>]
  /\ gDetectResultAvaiable = [c \in Channels |-> 0]

-----------------------------------------------------------------------------
(* DecodeThreadFunc *)

DecGoto(c, l) == dec' = [dec EXCEPT ![c] = l]

GetFreeSurfaceIndex_any(free) == 1   \* Locked is not looked at

(* GetFreeSurfaceIndex: the first entry whose surface has Locked = 0 *)
GetFreeSurfaceIndex(free) == CHOOSE i \in free : \A j \in free : i <= j

FreeSurfaces(c) == {s \in Surfaces : Locked[c][s] = 0}

FreeSlots(c) == {i \in Slots : vppIn[c][i] = Own \/ Locked[c][vppIn[c][i]] = 0}

(* The slot for the decoder's output: the one of before while bNeedMore is  *)
(* set, which only a warning of the SDK clears.                             *)
CanDecode(c) == FreeSurfaces(c) # {} /\ (bNeedMore[c] \/ FreeSlots(c) # {})

SlotFor(c) == IF bNeedMore[c] THEN idx[c] ELSE GetFreeSurfaceIndex(FreeSlots(c))

(* DecodeFrameAsync asks for more data, which ReadBitStreamData provides,   *)
(* rewinding the file if it has to, or for another surface; *)
DecMore(c) ==
  /\ dec[c] = "decode" /\ CanDecode(c)
  /\ idx' = [idx EXCEPT ![c] = SlotFor(c)]
  /\ bNeedMore' = [bNeedMore EXCEPT ![c] = TRUE]
  /\ UNCHANGED <<vppIn, dec, cur, rd, nFrame, nDecoded, skipped, surfVars, kcfVars,
                 trkVars, inferVars, schedVars, detVars, mainVars>>

(* or decodes a frame into the surface found and has the slot point to it.  *)
(* The SDK may keep the surface locked, as a reference for later frames.    *)
DecFrame(c) ==
  /\ dec[c] = "decode" /\ CanDecode(c)
  /\ LET s == GetFreeSurfaceIndex(FreeSurfaces(c))
     IN /\ cur' = [cur EXCEPT ![c] = s]
        /\ vppIn' = [vppIn EXCEPT ![c][SlotFor(c)] = s]
        /\ \/ UNCHANGED <<Locked, sdkref>>
           \/ /\ Cardinality(sdkref[c]) < MaxRefs
              /\ Locked' = [Locked EXCEPT ![c][s] = 1]
              /\ sdkref' = [sdkref EXCEPT ![c] = @ \cup {s}]
  /\ \/ UNCHANGED <<idx, bNeedMore>>                     \* MFX_ERR_NONE
     \/ /\ bNeedMore' = [bNeedMore EXCEPT ![c] = FALSE]  \* a warning
        /\ idx' = [idx EXCEPT ![c] = 1]
  /\ nDecoded' = [nDecoded EXCEPT ![c] = (@ + 1) % Labels]
  /\ DecGoto(c, "kcf")
  /\ UNCHANGED <<rd, nFrame, skipped, raced, kcfVars, trkVars, inferVars, schedVars,
                 detVars, mainVars>>

(* (nFrame % 6) == 0 *)
IsKey(c) == nFrame[c] % KeyInterval = 0

TrackerHolds(c) == trk[c] \in {"detect", "update", "unlock", "put"}

(* dpipe_get(dKCFpipe), and the load of Data.Locked += 1 *)
DecGetKcf(c) ==
  /\ dec[c] = "kcf"
  /\ Len(kcf[c]) + (IF TrackerHolds(c) THEN 1 ELSE 0) < KcfBuffers
  /\ rd' = [rd EXCEPT ![c] = Locked[c][cur[c]]]
  /\ DecGoto(c, "lock")
  /\ UNCHANGED <<cur, slotVars, nFrame, nDecoded, skipped, surfVars, kcfVars, trkVars,
                 inferVars, schedVars, detVars, mainVars>>

(* The frame as it is counted by nFrameProcessed, from 0. *)
FrameOf(c) == (nDecoded[c] + Labels - 1) % Labels

NextFrame(c) == nFrame' = [nFrame EXCEPT ![c] = (@ + 1) % Labels]

Forget(c) == cur' = [cur EXCEPT ![c] = Own]

(* Its store, dpipe_store, and the post for the tracker, which waits for    *)
(* the first post only: those after it are not counted.                     *)
DecStoreKcf(c) ==
  /\ dec[c] = "lock"
  /\ Locked' = [Locked EXCEPT ![c][cur[c]] = rd[c] + 1]
  /\ raced' = (raced \/ Locked[c][cur[c]] # rd[c])
  /\ kcf' = [kcf EXCEPT ![c] = Append(@, [frame |-> FrameOf(c), key |-> IsKey(c),
                                          surf |-> cur[c]])]
  /\ gNewTrackTaskAvaiable' =
       [gNewTrackTaskAvaiable EXCEPT ![c] = IF trk[c] \in {"none", "wait"} THEN @ + 1 ELSE 0]
  /\ IF IsKey(c) THEN DecGoto(c, "vpp") /\ UNCHANGED <<cur, nFrame>>
                 ELSE DecGoto(c, "decode") /\ NextFrame(c) /\ Forget(c)
  /\ rd' = [rd EXCEPT ![c] = 0]
  /\ UNCHANGED <<slotVars, nDecoded, skipped, sdkref, trkVars,
                 inferVars, schedVars, detVars, mainVars>>

(* A key frame: RunFrameVPPAsync locks its input, *)
DecVpp(c) ==
  /\ dec[c] = "vpp"
  /\ Locked' = [Locked EXCEPT ![c][cur[c]] = @ + 1]
  /\ DecGoto(c, "sync")
  /\ UNCHANGED <<cur, rd, slotVars, nFrame, nDecoded, skipped, sdkref, raced, kcfVars,
                 trkVars, inferVars, schedVars, detVars, mainVars>>

(* or asks for more data: the next frame is a key frame as well. *)
DecVppMore(c) ==
  /\ VppSkips /\ ~skipped
  /\ dec[c] = "vpp"
  /\ skipped' = TRUE
  /\ DecGoto(c, "decode") /\ Forget(c)
  /\ UNCHANGED <<rd, slotVars, nFrame, nDecoded, surfVars, kcfVars, trkVars,
                 inferVars, schedVars, detVars, mainVars>>

DecSync_dropped(c) ==   \* the image does not reach the scheduler
  /\ dec[c] = "sync"
  /\ Locked' = [Locked EXCEPT ![c][cur[c]] = @ - 1]
  /\ NextFrame(c)
  /\ DecGoto(c, "decode") /\ Forget(c)
  /\ UNCHANGED <<rd, slotVars, nDecoded, skipped, sdkref, raced, kcfVars, trkVars,
                 inferVars, schedVars, detVars, mainVars>>

(* SyncOperation: the VPP is done with its input; dpipe_get, the copy of    *)
(* the image, dpipe_store and the post for the scheduler.                   *)
DecSync(c) ==
  /\ dec[c] = "sync"
  /\ Len(infer[c]) < InferBuffers
  /\ Locked' = [Locked EXCEPT ![c][cur[c]] = @ - 1]
  /\ infer' = [infer EXCEPT ![c] = Append(@, FrameOf(c))]
  /\ gNewtaskAvaiable' = gNewtaskAvaiable + 1
  /\ NextFrame(c)
  /\ DecGoto(c, "decode") /\ Forget(c)
  /\ UNCHANGED <<rd, slotVars, nDecoded, skipped, sdkref, raced, kcfVars, trkVars,
                 schedVars, detVars, mainVars>>

DecStep(c) == \/ DecMore(c) \/ DecFrame(c) \/ DecGetKcf(c) \/ DecStoreKcf(c)
              \/ DecVpp(c) \/ DecSync(c)

(* The SDK no longer needs a reference.  It may decrement Data.Locked       *)
(* between the load and the store of an update by the program.              *)
SdkRelease(c) ==
  /\ \E s \in sdkref[c] :
       /\ sdkref' = [sdkref EXCEPT ![c] = @ \ {s}]
       /\ Locked' = [Locked EXCEPT ![c][s] = @ - 1]
  /\ UNCHANGED <<raced, decVars, kcfVars, trkVars, inferVars, schedVars, detVars, mainVars>>

-----------------------------------------------------------------------------
(* TrackerThreadFunc *)

TrkGoto(c, l) == trk' = [trk EXCEPT ![c] = l]

(* sem_wait(&gNewTrackTaskAvaiable[..]), once: the loop within never ends *)
TrkWait(c) ==
  /\ trk[c] = "wait" /\ gNewTrackTaskAvaiable[c] > 0
  /\ gNewTrackTaskAvaiable' = [gNewTrackTaskAvaiable EXCEPT ![c] = 0]
  /\ TrkGoto(c, "load")
  /\ UNCHANGED <<held, trd, roiVars, kcf, surfVars, decVars, inferVars, schedVars,
                 detVars, mainVars>>

(* dpipe_load(dpipe, NULL) *)
TrkLoad(c) ==
  /\ trk[c] = "load" /\ kcf[c] # << >>
  /\ held' = [held EXCEPT ![c] = Head(kcf[c])]
  /\ kcf' = [kcf EXCEPT ![c] = Tail(@)]
  /\ TrkGoto(c, IF Head(kcf[c]).key THEN "detect" ELSE "update")
  /\ UNCHANGED <<trd, roiVars, gNewTrackTaskAvaiable, surfVars, decVars, inferVars,
                 schedVars, detVars, mainVars>>

Least(a, b)    == IF a < b THEN a ELSE b
Greatest(a, b) == IF a < b THEN b ELSE a

TrkDetect_nopop(c) ==   \* the detection stays in the queue
  /\ trk[c] = "detect" /\ gDetectResultAvaiable[c] > 0
  /\ gDetectResultAvaiable' = [gDetectResultAvaiable EXCEPT ![c] = @ - 1]
  /\ roi' = [roi EXCEPT ![c] = Head(gDetectResultque[c])]
  /\ TrkGoto(c, "unlock")
  /\ UNCHANGED <<gDetectResultque, nCurTrackObjects, skiptrack, inited, held, trd,
                 kcfVars, surfVars, decVars, inferVars, schedVars, mainVars>>

(* A key frame: sem_wait(&gDetectResultAvaiable[..]), the first detection   *)
(* of the queue and a tracker for each of its boxes, or none to track.      *)
TrkDetect(c) ==
  /\ trk[c] = "detect" /\ gDetectResultAvaiable[c] > 0
  /\ gDetectResultAvaiable' = [gDetectResultAvaiable EXCEPT ![c] = @ - 1]
  /\ IF gDetectResultque[c] = << >>
       THEN UNCHANGED <<gDetectResultque, roiVars>>
       ELSE /\ roi' = [roi EXCEPT ![c] = Head(gDetectResultque[c])]
            /\ gDetectResultque' = [gDetectResultque EXCEPT ![c] = Tail(@)]
            /\ \E boxs \in 0 .. MAX_NUM_TRACK_OBJECT + 1 :
                 LET n == Least(boxs, MAX_NUM_TRACK_OBJECT)
                 IN /\ nCurTrackObjects' = [nCurTrackObjects EXCEPT ![c] = n]
                    /\ skiptrack' = [skiptrack EXCEPT ![c] = (n = 0)]
                    /\ inited' = [inited EXCEPT ![c] = Greatest(@, n)]
  /\ TrkGoto(c, "unlock")
  /\ UNCHANGED <<held, trd, kcfVars, surfVars, decVars, inferVars, schedVars, mainVars>>

(* A frame in between: the trackers are updated, unless there are none; the *)
(* frame is copied and the load of Data.Locked -= 1 is made.                *)
TrkUpdate(c) ==
  /\ trk[c] \in {"update", "unlock"}
  /\ trd' = [trd EXCEPT ![c] = Locked[c][held[c].surf]]
  /\ TrkGoto(c, "put")
  /\ UNCHANGED <<held, roiVars, kcfVars, surfVars, decVars, inferVars, schedVars,
                 detVars, mainVars>>

(* Its store, the result for the display, and dpipe_put *)
TrkPut(c) ==
  /\ trk[c] = "put"
  /\ Locked' = [Locked EXCEPT ![c][held[c].surf] = trd[c] - 1]
  /\ raced' = (raced \/ Locked[c][held[c].surf] # trd[c])
  /\ held' = [held EXCEPT ![c] = Null]
  /\ trd' = [trd EXCEPT ![c] = 0]
  /\ TrkGoto(c, "load")
  /\ UNCHANGED <<roiVars, sdkref, kcfVars, decVars, inferVars, schedVars, detVars, mainVars>>

TrkStep(c) == TrkWait(c) \/ TrkLoad(c) \/ TrkDetect(c) \/ TrkUpdate(c) \/ TrkPut(c)

-----------------------------------------------------------------------------
(* ScheduleThreadFunc *)

SchedWait ==
  /\ sched = "wait" /\ gNewtaskAvaiable > 0
  /\ gNewtaskAvaiable' = gNewtaskAvaiable - 1
  /\ sched' = "load" /\ schedCh' = 0
  /\ UNCHANGED <<imgs, infer, surfVars, decVars, kcfVars, trkVars, detVars, mainVars>>

(* InsertImage is called without a channelid: its default is 0. *)
ChannelId(c) == 0

(* dpipe_load, dpipe_put and InsertImage, in synchronous mode; for a full   *)
(* batch a push and a post per image.  The trackers see a result only       *)
(* through its post, so these are one step.                                 *)
SchedLoad ==
  /\ sched = "load" /\ infer[schedCh] # << >>
  /\ infer' = [infer EXCEPT ![schedCh] = Tail(@)]
  /\ LET batch == Append(imgs, <<schedCh, Head(infer[schedCh])>>)
     IN IF Len(batch) < BatchSize
          THEN imgs' = batch /\ UNCHANGED detVars
          ELSE /\ imgs' = << >>
               /\ gDetectResultque' =
                    [gDetectResultque EXCEPT ![ChannelId(schedCh)] = @ \o batch]
               /\ gDetectResultAvaiable' =
                    [gDetectResultAvaiable EXCEPT ![ChannelId(schedCh)] = @ + BatchSize]
  /\ IF schedCh < NumChannels - 1 THEN sched' = "load" /\ schedCh' = schedCh + 1
                                  ELSE sched' = "wait" /\ schedCh' = 0
  /\ UNCHANGED <<gNewtaskAvaiable, surfVars, decVars, kcfVars, trkVars, mainVars>>

-----------------------------------------------------------------------------
(* main *)

(* The decoder and the tracker thread of the next channel are created. *)
MainCreate ==
  /\ main = "create"
  /\ DecGoto(started, "decode")
  /\ TrkGoto(started, "wait")
  /\ started' = started + 1
  /\ main' = IF started + 1 = NumChannels THEN "sem_track" ELSE "create"
  /\ UNCHANGED <<cur, rd, slotVars, nFrame, nDecoded, skipped, held, trd, roiVars, lost,
                 surfVars, kcfVars, inferVars, schedVars, detVars>>

(* sem_init of the trackers' semaphores, with both threads running: posts   *)
(* are wiped out, and whether a tracker that is waiting is ever woken is    *)
(* undefined.                                                               *)
MainSemTrack ==
  /\ main = "sem_track"
  /\ gNewTrackTaskAvaiable' = [c \in Channels |-> 0]
  /\ gDetectResultAvaiable' = [c \in Channels |-> 0]
  /\ \E forgotten \in SUBSET {c \in Channels : trk[c] = "wait"} :
       /\ trk' = [c \in Channels |-> IF c \in forgotten THEN "lost" ELSE trk[c]]
       /\ lost' = (forgotten # {} \/ \E c \in Channels : gNewTrackTaskAvaiable[c] > 0)
  /\ main' = "sem_task"
  /\ UNCHANGED <<started, kcf, held, trd, roiVars, gDetectResultque, surfVars, decVars,
                 inferVars, schedVars>>

(* sem_init(&gNewtaskAvaiable,0,0), and the scheduler thread *)
MainSemTask ==
  /\ main = "sem_task"
  /\ gNewtaskAvaiable' = 0
  /\ lost' = (lost \/ gNewtaskAvaiable > 0)
  /\ sched' = "wait"
  /\ main' = "run"
  /\ UNCHANGED <<started, infer, schedCh, imgs, surfVars, decVars, kcfVars, trkVars, detVars>>

MainStep == MainCreate \/ MainSemTrack \/ MainSemTask

-----------------------------------------------------------------------------
Next == \/ \E c \in Channels : DecStep(c) \/ DecVppMore(c) \/ SdkRelease(c) \/ TrkStep(c)
        \/ SchedWait \/ SchedLoad \/ MainStep

Spec == Init /\ [][Next]_vars

(* Every thread is scheduled, and the SDK gives up its references.  That    *)
(* the VPP asks for more data is not assumed; that DecodeFrameAsync does    *)
(* not ask for more for ever is (a second request changes nothing).         *)
Fairness == /\ \A c \in Channels : /\ WF_vars(DecStep(c)) /\ WF_vars(TrkStep(c))
                                   /\ WF_vars(SdkRelease(c))
            /\ WF_vars(SchedWait \/ SchedLoad) /\ WF_vars(MainStep)

FairSpec == Spec /\ Fairness

-----------------------------------------------------------------------------
Elems(s) == {s[i] : i \in DOMAIN s}

(* Surfaces the tracker of c will still read *)
Pending(c) == {e.surf : e \in Elems(kcf[c])} \cup
              (IF TrackerHolds(c) THEN {held[c].surf} ELSE {})

(* Whatever the SDK releases meanwhile, and although the two sides of the   *)
(* program count Data.Locked without a lock, a surface that the tracker has *)
(* yet to read is locked, so the decoder does not decode into it; and no    *)
(* surface is queued twice.                                                 *)
SurfaceKept ==
  \A c \in Channels :
    /\ \A s \in Pending(c) : Locked[c][s] > 0
    /\ Cardinality(Pending(c)) = Len(kcf[c]) + (IF TrackerHolds(c) THEN 1 ELSE 0)

(* Unless an update of Data.Locked was overwritten, no surface leaks: one   *)
(* that neither SDK nor tracker nor VPP needs is free for the decoder.      *)
NoSurfaceLeaks ==
  ~raced => \A c \in Channels, s \in Surfaces :
              Locked[c][s] = (IF s \in sdkref[c] THEN 1 ELSE 0)
                             + (IF s \in Pending(c) THEN 1 ELSE 0)
                             + (IF dec[c] = "sync" /\ cur[c] = s THEN 1 ELSE 0)

(* The counts of Data.Locked protect what is in use, and nothing else; the  *)
(* rest of the state has its type.                                          *)
SurfacesCounted == TypeOK /\ SurfaceKept /\ NoSurfaceLeaks

(* With one channel, and unless the VPP asked for more data, the tracker    *)
(* follows the objects detected in the latest key frame: a detection is     *)
(* used for the key frame it was made in, however far ahead the decoder is, *)
(* and frames in between are tracked from it.                               *)
RoiFresh ==
  ~skipped /\ NumChannels = 1 =>
    (trk[0] \in {"update", "unlock", "put"} =>
       roi[0] = <<0, held[0].frame - (held[0].frame % KeyInterval)>>)

(* KCFTracker::update is only called on trackers that were initialised,     *)
(* although nCurTrackObjects starts at its maximum.                         *)
UpdatesInitialised ==
  \A c \in Channels :
    trk[c] = "update" /\ ~skiptrack[c] => nCurTrackObjects[c] <= inited[c]

(* The regions a tracker works on come from its key frame, and its KCF      *)
(* trackers have been initialised with them.                                *)
RegionsCurrent == RoiFresh /\ UpdatesInitialised

NoBufferFor(c) == Len(kcf[c]) + (IF TrackerHolds(c) THEN 1 ELSE 0) >= KcfBuffers

(* The decoder waits for a buffer of the tracker's pipe, the tracker for a  *)
(* detection, and the scheduler for a frame of that decoder.                *)
Wedged(c) ==
  /\ dec[c] = "kcf" /\ NoBufferFor(c)
  /\ trk[c] = "detect" /\ gDetectResultAvaiable[c] = 0
  /\ infer[c] = << >> /\ (sched = "wait" => gNewtaskAvaiable = 0)

(* Decoder, tracker and detector do not all wait for each other, unless     *)
(* sem_init or the VPP has lost something before: the frames that fit into  *)
(* the tracker's pipe include the key frames the detector needs to fill a   *)
(* batch.                                                                   *)
NeverWedged == ~lost /\ ~skipped => \A c \in Channels : ~Wedged(c)

(* A tracker that waits for the detection of its key frame gets it, unless  *)
(* sem_init, the VPP or an overwritten lock count has lost something.       *)
KeyFramesServed ==
  [](~lost /\ ~skipped /\ ~raced) =>
    \A c \in Channels : trk[c] = "detect" ~> trk[c] = "unlock"
=============================================================================
