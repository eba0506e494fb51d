------------------------------ MODULE Pipeline ------------------------------
(***************************************************************************)
(* The program of main.cpp, with either decoder: one decoder thread per    *)
(* channel, one frame pipe per channel, the scheduler thread that loads a  *)
(* frame from every pipe in turn and runs the inference, the display       *)
(* thread, the inference and statistics threads, and main, which starts    *)
(* them, waits for SIGINT and takes everything down.                       *)
(*                                                                         *)
(* The pipes are those of DPipe, one critical section per step.  DPipe     *)
(* shows that no wake-up of dpipe_load is lost and that dpipe_get retries  *)
(* until it can return, so here a load that finds the output pool empty,   *)
(* and a get that finds the input pool empty, are simply not enabled until *)
(* they can go on.  The detector is that of Detector, seen from its        *)
(* caller: InsertImage returns INSERTED until a batch is complete, for the *)
(* first batch too, and then PROCESSED or GET.  Results are shown (-show)  *)
(* and the decoding rate is printed (-pd).                                 *)
(***************************************************************************)
EXTENDS Integers, Sequences, FiniteSets

CONSTANTS NumChannels,   \* FLAGS_c
          Buffers,       \* the buffers of each pipe (100 in the program)
          NoBuffer,
          BatchSize,     \* FLAGS_batch
          Builds,        \* the values of USE_FFMPEG that are considered
          Labels,        \* bound: frame numbers are counted modulo Labels
          SemMax,        \* SEM_VALUE_MAX: sem_post fails beyond it
          DecoderErrors, \* whether a decoder may leave its loop on an error
          SetupFails     \* whether the set-up of a channel may fail

ASSUME PipelineAssumption == /\ NumChannels \in Nat \ {0}
                             /\ IsFiniteSet(Buffers) /\ Buffers # {}
                             /\ NoBuffer \notin Buffers
                             /\ BatchSize \in Nat \ {0}
                             /\ Builds \subseteq BOOLEAN
                             /\ Labels \in Nat \ {0}
                             /\ SemMax \in Nat \ {0}
                             /\ DecoderErrors \in BOOLEAN
                             /\ SetupFails \in BOOLEAN

Channels == 1 .. NumChannels

VARIABLES
  ffmpeg,             \* the decoders are FFDecodeThreadFunc (USE_FFMPEG)
  grunning,           \* cleared by the SIGINT handler and by main
  start,              \* the pipes' flag, cleared by dpipe_stop
  in, out,            \* the pools of each channel's pipe
  label,              \* vsource_frame_t.frameno in each buffer
  dec,                \* decoder threads
  decBuf,             \* the buffer each decoder holds
  nFrameProcessed,    \* frames each decoder has decoded
  gNewtaskAvaiable,   \* semaphore: frames were stored
  lostPosts,          \* history: sem_init wiped out posts
  sched,              \* scheduler thread
  schedCh, schedBuf,  \* the pipe it is at; srcdata
  img,                \* the number of the frame whose image it copied
  batchIndex, primed, \* images in the current batch; a batch is in flight
  gresultque,         \* number of result batches queued for display
  g_semtshow,         \* semaphore of the display thread
  disp,               \* display thread
  infer, gsemtInfer,  \* inference thread, idle in this build; its semaphore
  fps,                \* statistics thread
  main,               \* main thread
  started             \* decoder threads created so far

pipeVars  == <<in, out, label>>
decVars   == <<dec, decBuf, nFrameProcessed>>
taskVars  == <<gNewtaskAvaiable, lostPosts>>
workVars  == <<schedBuf, img, batchIndex, primed>>
schedVars == <<sched, schedCh, workVars>>
showVars  == <<gresultque, g_semtshow, disp>>
auxVars   == <<infer, gsemtInfer, fps>>
mainVars  == <<ffmpeg, grunning, start, main, started>>

vars == <<pipeVars, decVars, taskVars, schedVars, showVars, auxVars, mainVars>>

DecPC   == {"none", "loop", "get", "store", "post", "done"}
SchedPC == {"none", "top", "wait", "load", "put", "insert", "push", "post",
            "throttle", "done"}
MainPC  == {"create", "sem_init", "threads", "handler", "pause", "stop",
            "post_task", "post_show", "dpipe_stop", "join_assist", "join_infer",
            "join_sched", "join_dec", "cleanup", "exit"}

TypeOK ==
  /\ ffmpeg \in Builds
  /\ grunning \in BOOLEAN /\ start \in BOOLEAN /\ primed \in BOOLEAN
  /\ in \in [Channels -> Seq(Buffers)] /\ out \in [Channels -> Seq(Buffers)]
  /\ label \in [Channels -> [Buffers -> 0 .. Labels - 1]]
  /\ dec \in [Channels -> DecPC]
  /\ decBuf \in [Channels -> Buffers \cup {NoBuffer}]
  /\ nFrameProcessed \in [Channels -> 0 .. Labels - 1]
  /\ gNewtaskAvaiable \in 0 .. SemMax /\ g_semtshow \in 0 .. SemMax
  /\ gsemtInfer \in 0 .. SemMax
  /\ lostPosts \in BOOLEAN
  /\ sched \in SchedPC
  /\ schedCh \in Channels /\ schedBuf \in Buffers \cup {NoBuffer}
  /\ img \in 0 .. Labels - 1
  /\ batchIndex \in 0 .. BatchSize - 1
  /\ gresultque \in Nat
  /\ disp \in {"top", "wait", "pop", "done"}
  /\ infer \in {"none", "top", "wait", "done"}
  /\ fps \in {"run", "done"}
  /\ main \in MainPC
  /\ started \in 0 .. NumChannels

-----------------------------------------------------------------------------
(* Main has loaded the detector, created the pipes and started the display  *)
(* and statistics threads; it is about to start the first decoder.          *)
Init ==
  /\ ffmpeg \in Builds
  /\ grunning = TRUE /\ start = TRUE
  /\ in = [c \in Channels |-> CHOOSE s \in [1 .. Cardinality(Buffers) -> Buffers] :
                                 \A b \in Buffers : \E i \in DOMAIN s : s[i] = b]
  /\ out = [c \in Channels |-> << >>]
  /\ label = [c \in Channels |-> [b \in Buffers |-> 0]]
  /\ dec = [c \in Channels |-> "none"]
  /\ decBuf = [c \in Channels |-> NoBuffer]
  /\ nFrameProcessed = [c \in Channels |-> 0]
  /\ gNewtaskAvaiable = 0 /\ lostPosts = FALSE
  /\ sched = "none" /\ schedCh = 1 /\ schedBuf = NoBuffer /\ img = 0
  /\ batchIndex = 0 /\ primed = FALSE
  /\ gresultque = 0 /\ g_semtshow = 0 /\ disp = "top"
  /\ infer = "none" /\ gsemtInfer = 0 /\ fps = "run"
  /\ main = "create" /\ started = 0

(* sem_post fails with EOVERFLOW at SEM_VALUE_MAX; the code ignores it. *)
Posted(n) == IF n < SemMax THEN n + 1 ELSE n

-----------------------------------------------------------------------------
(* DecodeThreadFunc *)

DecGoto(c, l) == dec' = [dec EXCEPT ![c] = l]

DecFrame_numbered(c) ==   \* frameno is written before the buffer is taken
  /\ dec[c] = "loop" /\ grunning /\ ~ffmpeg
  /\ nFrameProcessed' = [nFrameProcessed EXCEPT ![c] = (@ + 1) % Labels]
  /\ label' = IF in[c] = << >> THEN label
              ELSE [label EXCEPT ![c][Head(in[c])] = nFrameProcessed'[c]]
  /\ DecGoto(c, "get") \/ UNCHANGED dec
  /\ UNCHANGED <<decBuf, in, out, taskVars, schedVars, showVars, auxVars, mainVars>>

(* The top of the loop, with grunning set: DecodeFrameAsync yields a frame, *)
(* which is counted, and the VPP yields its image or asks for more data.    *)
DecFrame(c) ==
  /\ dec[c] = "loop" /\ grunning /\ ~ffmpeg
  /\ nFrameProcessed' = [nFrameProcessed EXCEPT ![c] = (@ + 1) % Labels]
  /\ DecGoto(c, "get") \/ UNCHANGED dec
  /\ UNCHANGED <<decBuf, pipeVars, taskVars, schedVars, showVars, auxVars, mainVars>>

(* FFDecodeThreadFunc: av_read_frame yields a packet of which a picture is  *)
(* decoded, scaled and counted.  A packet of another stream, one that       *)
(* completes no picture, and the end of the file, where the stream is       *)
(* opened again, change nothing here.                                       *)
FFFrame(c) ==
  /\ dec[c] = "loop" /\ grunning /\ ffmpeg
  /\ nFrameProcessed' = [nFrameProcessed EXCEPT ![c] = (@ + 1) % Labels]
  /\ DecGoto(c, "get")
  /\ UNCHANGED <<decBuf, pipeVars, taskVars, schedVars, showVars, auxVars, mainVars>>

(* ... or grunning was cleared, or a status ends the loop. *)
DecLeave(c) ==
  /\ dec[c] = "loop"
  /\ ~grunning \/ DecoderErrors
  /\ DecGoto(c, "done")
  /\ UNCHANGED <<decBuf, nFrameProcessed, pipeVars, taskVars, schedVars, showVars,
                 auxVars, mainVars>>

(* dpipe_get returns a free buffer, *)
DecGet(c) ==
  /\ dec[c] = "get" /\ in[c] # << >>
  /\ decBuf' = [decBuf EXCEPT ![c] = Head(in[c])]
  /\ in' = [in EXCEPT ![c] = Tail(@)]
  /\ DecGoto(c, "store")
  /\ UNCHANGED <<out, label, nFrameProcessed, taskVars, schedVars, showVars, auxVars,
                 mainVars>>

(* or, stopped, the buffer of the eldest frame, *)
DecGetEldest(c) ==
  /\ dec[c] = "get" /\ in[c] = << >> /\ ~start /\ out[c] # << >>
  /\ decBuf' = [decBuf EXCEPT ![c] = Head(out[c])]
  /\ out' = [out EXCEPT ![c] = Tail(@)]
  /\ DecGoto(c, "store")
  /\ UNCHANGED <<in, label, nFrameProcessed, taskVars, schedVars, showVars, auxVars,
                 mainVars>>

(* or, stopped, NULL, on which the loop is left.  FFDecodeThreadFunc calls  *)
(* dpipe_get again instead, until one of the two above is possible.         *)
DecGetNull(c) ==
  /\ ~ffmpeg
  /\ dec[c] = "get" /\ in[c] = << >> /\ ~start /\ out[c] = << >>
  /\ DecGoto(c, "done")
  /\ UNCHANGED <<decBuf, nFrameProcessed, pipeVars, taskVars, schedVars, showVars,
                 auxVars, mainVars>>

(* The frame number and the planes are written into the buffer, which is    *)
(* then stored (dpipe_store).  No other thread has the buffer in between    *)
(* but a scheduler that still reads frameno, for which the step at which    *)
(* the number changes makes no difference.                                  *)
DecStore(c) ==
  /\ dec[c] = "store"
  /\ label' = [label EXCEPT ![c][decBuf[c]] = nFrameProcessed[c]]
  /\ out' = [out EXCEPT ![c] = Append(@, decBuf[c])]
  /\ decBuf' = [decBuf EXCEPT ![c] = NoBuffer]
  /\ DecGoto(c, "post")
  /\ UNCHANGED <<in, nFrameProcessed, taskVars, schedVars, showVars, auxVars, mainVars>>

DecPost_none(c) ==   \* sem_post forgotten
  /\ dec[c] = "post"
  /\ DecGoto(c, "loop")
  /\ UNCHANGED <<decBuf, nFrameProcessed, taskVars, pipeVars, schedVars, showVars,
                 auxVars, mainVars>>

(* sem_post(&gNewtaskAvaiable), a zeroed semaphore before sem_init too *)
DecPost(c) ==
  /\ dec[c] = "post"
  /\ gNewtaskAvaiable' = Posted(gNewtaskAvaiable)
  /\ DecGoto(c, "loop")
  /\ UNCHANGED <<decBuf, nFrameProcessed, lostPosts, pipeVars, schedVars, showVars,
                 auxVars, mainVars>>

(* The threads end with the process, when main returns. *)
Alive == main # "exit"

DecStep(c) == Alive /\ (\/ DecFrame(c) \/ FFFrame(c) \/ DecGet(c) \/ DecGetEldest(c)
                        \/ DecGetNull(c) \/ DecStore(c) \/ DecPost(c))

-----------------------------------------------------------------------------
(* ScheduleThreadFunc *)

SchedTop_forever ==   \* grunning is not looked at
  /\ sched = "top"
  /\ sched' = "wait"
  /\ UNCHANGED <<schedCh, workVars, taskVars, pipeVars, decVars, showVars, auxVars,
                 mainVars>>

(* while (grunning) *)
SchedTop ==
  /\ sched = "top"
  /\ sched' = IF grunning THEN "wait" ELSE "done"
  /\ UNCHANGED <<schedCh, workVars, taskVars, pipeVars, decVars, showVars, auxVars,
                 mainVars>>

(* sem_wait(&gNewtaskAvaiable), then the pipes from the first one on *)
SchedWait ==
  /\ sched = "wait"
  /\ gNewtaskAvaiable > 0
  /\ gNewtaskAvaiable' = gNewtaskAvaiable - 1
  /\ schedCh' = 1
  /\ sched' = "load"
  /\ UNCHANGED <<lostPosts, workVars, pipeVars, decVars, showVars, auxVars, mainVars>>

(* dpipe_load(dpipe, NULL), and the copy of the image *)
SchedLoad ==
  /\ sched = "load"
  /\ out[schedCh] # << >>
  /\ schedBuf' = Head(out[schedCh])
  /\ out' = [out EXCEPT ![schedCh] = Tail(@)]
  /\ img' = label[schedCh][Head(out[schedCh])]
  /\ sched' = "put"
  /\ UNCHANGED <<in, label, schedCh, batchIndex, primed, taskVars, decVars, showVars,
                 auxVars, mainVars>>

SchedPut_lost ==   \* the buffer is not returned
  /\ sched = "put"
  /\ sched' = "insert"
  /\ UNCHANGED <<schedCh, workVars, taskVars, pipeVars, decVars, showVars, auxVars,
                 mainVars>>

(* dpipe_put; srcframe still points into the buffer *)
SchedPut ==
  /\ sched = "put"
  /\ in' = [in EXCEPT ![schedCh] = <<schedBuf>> \o @]
  /\ sched' = "insert"
  /\ UNCHANGED <<out, label, schedCh, workVars, taskVars, decVars, showVars, auxVars,
                 mainVars>>

(* The next pipe of the for loop, or the top of the while loop. *)
NextChannel == IF schedCh < NumChannels
                 THEN sched' = "load" /\ schedCh' = schedCh + 1
                 ELSE sched' = "top" /\ schedCh' = schedCh

(* srcframe->frameno, the number passed to InsertImage *)
FrameNo == label[schedCh][schedBuf]

(* InsertImage returns: INSERTED while the batch fills and for the first    *)
(* batch of all; then PROCESSED (no box) or GET, which is queued for        *)
(* display.                                                                 *)
SchedInsert ==
  /\ sched = "insert"
  /\ batchIndex' = (batchIndex + 1) % BatchSize
  /\ primed' = (primed \/ batchIndex + 1 = BatchSize)
  /\ schedBuf' = NoBuffer /\ img' = 0
  /\ \/ NextChannel
     \/ /\ primed /\ batchIndex + 1 = BatchSize
        /\ sched' = "push"
        /\ UNCHANGED schedCh
  /\ UNCHANGED <<taskVars, pipeVars, decVars, showVars, auxVars, mainVars>>

(* gresultque.push under mutexshow ... *)
SchedPush ==
  /\ sched = "push"
  /\ gresultque' = gresultque + 1
  /\ sched' = "post"
  /\ UNCHANGED <<schedCh, workVars, g_semtshow, disp, taskVars, pipeVars, decVars,
                 auxVars, mainVars>>

SchedPost_none ==   \* the display thread is not told
  /\ sched = "post"
  /\ sched' = "throttle"
  /\ UNCHANGED <<schedCh, workVars, showVars, taskVars, pipeVars, decVars, auxVars,
                 mainVars>>

(* ... sem_post(&g_semtshow) ... *)
SchedPost ==
  /\ sched = "post"
  /\ g_semtshow' = Posted(g_semtshow)
  /\ sched' = "throttle"
  /\ UNCHANGED <<schedCh, workVars, gresultque, disp, taskVars, pipeVars, decVars,
                 auxVars, mainVars>>

(* ... and the sleep loop until fewer than 2 batches are queued. *)
SchedThrottle ==
  /\ sched = "throttle"
  /\ gresultque < 2 \/ ~grunning
  /\ NextChannel
  /\ UNCHANGED <<workVars, taskVars, pipeVars, decVars, showVars, auxVars, mainVars>>

SchedStep == SchedTop \/ SchedWait \/ SchedLoad \/ SchedPut \/ SchedInsert
               \/ SchedPush \/ SchedPost \/ SchedThrottle

-----------------------------------------------------------------------------
(* DisplayThreadFunc *)

DispTop ==
  /\ disp = "top"
  /\ disp' = IF grunning THEN "wait" ELSE "done"
  /\ UNCHANGED <<gresultque, g_semtshow, taskVars, pipeVars, decVars, schedVars,
                 auxVars, mainVars>>

(* sem_wait(&g_semtshow) *)
DispWait ==
  /\ disp = "wait"
  /\ g_semtshow > 0
  /\ g_semtshow' = g_semtshow - 1
  /\ disp' = "pop"
  /\ UNCHANGED <<gresultque, taskVars, pipeVars, decVars, schedVars, auxVars, mainVars>>

(* A batch is taken off the queue, if there is one, and drawn. *)
DispPop ==
  /\ disp = "pop"
  /\ gresultque' = IF gresultque > 0 THEN gresultque - 1 ELSE gresultque
  /\ disp' = "top"
  /\ UNCHANGED <<g_semtshow, taskVars, pipeVars, decVars, schedVars, auxVars, mainVars>>

DispStep == Alive /\ (DispTop \/ DispWait \/ DispPop)

-----------------------------------------------------------------------------
(* InferThreadFunc, whose task queue stays empty in this build *)

InferTop == /\ infer = "top"
            /\ infer' = IF grunning THEN "wait" ELSE "done"
            /\ UNCHANGED <<gsemtInfer, fps, taskVars, pipeVars, decVars, schedVars,
                           showVars, mainVars>>

InferWait == /\ infer = "wait"
             /\ gsemtInfer > 0
             /\ gsemtInfer' = gsemtInfer - 1
             /\ infer' = "top"
             /\ UNCHANGED <<fps, taskVars, pipeVars, decVars, schedVars, showVars,
                            mainVars>>

(* thr_fps: every 2 seconds the frame counters of the decoders are added up *)
(* and reset, while the decoders go on counting.  Neither side locks: a     *)
(* reset between the load and the store of a decoder's ++ has no effect.    *)
FpsReset == /\ Alive /\ fps = "run" /\ grunning
            /\ \E lost \in SUBSET Channels :
                 nFrameProcessed' =
                   [c \in Channels |-> IF c \in lost THEN nFrameProcessed[c] ELSE 0]
            /\ UNCHANGED <<dec, decBuf, taskVars, pipeVars, schedVars, showVars,
                           auxVars, mainVars>>

FpsLeave == /\ fps = "run" /\ ~grunning
            /\ fps' = "done"
            /\ UNCHANGED <<infer, gsemtInfer, taskVars, pipeVars, decVars, schedVars,
                           showVars, mainVars>>

-----------------------------------------------------------------------------
(* main *)

(* The loop over the channels that creates the decoder threads. *)
MainCreate ==
  /\ main = "create"
  /\ dec' = [dec EXCEPT ![started + 1] = "loop"]
  /\ started' = started + 1
  /\ main' = IF started + 1 = NumChannels THEN "sem_init" ELSE "create"
  /\ UNCHANGED <<ffmpeg, grunning, start, decBuf, nFrameProcessed, taskVars, pipeVars,
                 schedVars, showVars, auxVars>>

(* sem_init(&gNewtaskAvaiable,0,0), with the decoders already running *)
MainSemInit ==
  /\ main = "sem_init"
  /\ gNewtaskAvaiable' = 0
  /\ lostPosts' = (gNewtaskAvaiable > 0)
  /\ main' = "threads"
  /\ UNCHANGED <<ffmpeg, grunning, start, started, pipeVars, decVars, schedVars, showVars,
                 auxVars>>

(* The scheduler and inference threads are created. *)
MainThreads ==
  /\ main = "threads"
  /\ sched' = "top" /\ infer' = "top"
  /\ main' = "handler"
  /\ UNCHANGED <<ffmpeg, grunning, start, started, taskVars, schedCh, workVars, gsemtInfer,
                 fps, pipeVars, decVars, showVars>>

(* sigaction has installed the handler; pause *)
MainPause ==
  /\ main = "handler"
  /\ main' = "pause"
  /\ UNCHANGED <<ffmpeg, grunning, start, started, taskVars, pipeVars, decVars, schedVars,
                 showVars, auxVars>>

(* SIGINT: the handler clears grunning, and pause returns if main is in it. *)
sigint_hanlder ==
  /\ main \in {"handler", "pause"}
  /\ grunning' = FALSE
  /\ main' = IF main = "pause" THEN "stop" ELSE "handler"
  /\ UNCHANGED <<ffmpeg, start, started, taskVars, pipeVars, decVars, schedVars, showVars,
                 auxVars>>

(* grunning = false, and a post for the inference thread, *)
MainStop ==
  /\ main = "stop"
  /\ grunning' = FALSE
  /\ gsemtInfer' = Posted(gsemtInfer)
  /\ main' = "post_task"
  /\ UNCHANGED <<ffmpeg, start, started, infer, fps, taskVars, pipeVars, decVars, schedVars,
                 showVars>>

(* for the scheduler, *)
MainPostTask ==
  /\ main = "post_task"
  /\ gNewtaskAvaiable' = Posted(gNewtaskAvaiable)
  /\ main' = "post_show"
  /\ UNCHANGED <<ffmpeg, grunning, start, started, lostPosts, pipeVars, decVars, schedVars,
                 showVars, auxVars>>

MainPostShow_none ==   \* the display thread is not woken
  /\ main = "post_show"
  /\ main' = "dpipe_stop"
  /\ UNCHANGED <<ffmpeg, grunning, start, started, showVars, taskVars, pipeVars, decVars,
                 schedVars, auxVars>>

(* for the display, *)
MainPostShow ==
  /\ main = "post_show"
  /\ g_semtshow' = Posted(g_semtshow)
  /\ main' = "dpipe_stop"
  /\ UNCHANGED <<ffmpeg, grunning, start, started, gresultque, disp, taskVars, pipeVars,
                 decVars, schedVars, auxVars>>

(* and dpipe_stop of every pipe, which clears the one flag they share. *)
MainDpipeStop ==
  /\ main = "dpipe_stop"
  /\ start' = FALSE
  /\ main' = "join_assist"
  /\ UNCHANGED <<ffmpeg, grunning, started, taskVars, pipeVars, decVars, schedVars, showVars,
                 auxVars>>

MainJoin_nodec ==   \* the decoders are not joined
  /\ \/ main = "join_assist" /\ disp = "done" /\ fps = "done" /\ main' = "join_infer"
     \/ main = "join_infer" /\ infer = "done" /\ main' = "join_sched"
     \/ main = "join_sched" /\ sched = "done" /\ main' = "cleanup"
  /\ UNCHANGED <<ffmpeg, grunning, start, started, taskVars, pipeVars, decVars, schedVars,
                 showVars, auxVars>>

(* The joins, in their order. *)
MainJoin ==
  /\ \/ main = "join_assist" /\ disp = "done" /\ fps = "done" /\ main' = "join_infer"
     \/ main = "join_infer" /\ infer = "done" /\ main' = "join_sched"
     \/ main = "join_sched" /\ sched = "done" /\ main' = "join_dec"
     \/ main = "join_dec" /\ (\A c \in Channels : dec[c] = "done") /\ main' = "cleanup"
  /\ UNCHANGED <<ffmpeg, grunning, start, started, taskVars, pipeVars, decVars, schedVars,
                 showVars, auxVars>>

(* Semaphores and mutexes are destroyed, dpipe_destroy frees the two pools  *)
(* of every pipe.                                                           *)
MainCleanup ==
  /\ main = "cleanup"
  /\ in' = [c \in Channels |-> << >>] /\ out' = [c \in Channels |-> << >>]
  /\ main' = "exit"
  /\ UNCHANGED <<ffmpeg, grunning, start, label, started, taskVars, decVars, schedVars,
                 showVars, auxVars>>

(* The set-up of a channel fails, with the threads created so far running:  *)
(* goto exit_here, or a return from main (MSDK_CHECK_RESULT).               *)
MainSetupFails ==
  /\ SetupFails
  /\ main = "create"
  /\ main' \in {"cleanup", "exit"}
  /\ UNCHANGED <<ffmpeg, grunning, start, started, taskVars, pipeVars, decVars, schedVars,
                 showVars, auxVars>>

MainStep == \/ MainCreate \/ MainSemInit \/ MainThreads \/ MainPause \/ MainStop
            \/ MainPostTask \/ MainPostShow \/ MainDpipeStop \/ MainJoin
            \/ MainCleanup

-----------------------------------------------------------------------------
Next == \/ \E c \in Channels : DecStep(c) \/ (Alive /\ DecLeave(c))
        \/ SchedStep \/ DispStep \/ InferTop \/ InferWait \/ FpsReset \/ FpsLeave
        \/ MainStep \/ MainSetupFails \/ sigint_hanlder

Spec == Init /\ [][Next]_vars

(* Every thread that can take a step is scheduled in the end.  A decoder    *)
(* leaves its loop when grunning is cleared; that it hits an error, that    *)
(* the set-up fails or that SIGINT arrives, is not assumed.  A step that    *)
(* changes nothing does not count, so (with Labels = 1) the VPP does not    *)
(* ask for more data for ever.                                              *)
Fairness == /\ \A c \in Channels : WF_vars(DecStep(c) \/ (~grunning /\ DecLeave(c)))
            /\ WF_vars(SchedStep) /\ WF_vars(DispStep)
            /\ WF_vars(InferTop \/ InferWait) /\ WF_vars(FpsLeave)
            /\ WF_vars(MainStep)

FairSpec == Spec /\ Fairness

(* The behaviours of FairSpec in which SIGINT never arrives. *)
RunningSpec == Init /\ [][Next /\ grunning']_vars /\ Fairness

-----------------------------------------------------------------------------
Elems(s) == {s[i] : i \in DOMAIN s}

SchedHolds(c) == IF sched = "put" /\ schedCh = c THEN {schedBuf} ELSE {}

DecHolds(c) == {decBuf[c]} \ {NoBuffer}

(* Until the pipes are destroyed, every buffer of every channel is in one   *)
(* pool or in the hands of the one thread that is using it, whatever the    *)
(* decoders, the scheduler and the shutdown do.                             *)
BuffersAccounted ==
  /\ TypeOK
  /\ main # "exit" =>
       \A c \in Channels :
         /\ Elems(in[c]) \cup Elems(out[c]) \cup SchedHolds(c) \cup DecHolds(c) = Buffers
         /\ Len(in[c]) + Len(out[c]) + Cardinality(SchedHolds(c))
              + Cardinality(DecHolds(c)) = Cardinality(Buffers)

Ended(thread) == thread \in {"none", "done"}

(* main.cpp:2278, " All thread is termined ": when main destroys the pipes  *)
(* and semaphores, no thread is left that could use them, and every buffer  *)
(* is in a pool, so that dpipe_destroy frees all of them.                   *)
CleanExit ==
  main = "cleanup" =>
    /\ Ended(sched) /\ Ended(disp) /\ Ended(infer) /\ Ended(fps)
    /\ \A c \in Channels : /\ Ended(dec[c])
                           /\ Len(in[c]) + Len(out[c]) = Cardinality(Buffers)

(* main.cpp:1243, "only cache 2 batch": the display queue holds at most 2   *)
(* batches while the program runs; during the shutdown the scheduler may    *)
(* still push what is left of its round.                                    *)
CacheTwoBatches ==
  /\ gresultque <= 1 + NumChannels
  /\ grunning => gresultque <= 2

(* Every queued batch has its semaphore token, so none is stranded in the   *)
(* display queue; and the display finds the queue empty only after the      *)
(* post of the shutdown.                                                    *)
ShowTokens ==
  /\ gresultque <= g_semtshow + (IF sched = "post" THEN 1 ELSE 0)
                              + (IF disp = "pop" THEN 1 ELSE 0)
  /\ disp = "pop" /\ gresultque = 0 =>
       main \in {"dpipe_stop", "join_assist", "join_infer", "join_sched",
                 "join_dec", "cleanup", "exit"}

(* The display queue is bounded, and the semaphore counts what is in it.    *)
DisplayQueue == CacheTwoBatches /\ ShowTokens

(* The scheduler reads srcframe->frameno after dpipe_put has given the      *)
(* buffer back.  The number it passes to InsertImage is that of the image   *)
(* it passes with it as long as the buffer is free: only the decoder that   *)
(* has taken the buffer again gives it the number of another frame.         *)
NumberUntilRecycled ==
  sched = "insert" /\ schedBuf \in Elems(in[schedCh]) => FrameNo = img

(* main.cpp:1162, "wake-up when a new task avaiable": the scheduler does    *)
(* not sleep while every pipe has a frame and no decoder is about to post.  *)
SchedulerWakes ==
  sched = "wait" /\ (\A c \in Channels : out[c] # << >> /\ dec[c] # "post")
    => gNewtaskAvaiable > 0

(* The same, when no post came before sem_init: a post per frame is enough  *)
(* although a round of the scheduler takes one frame of every channel for   *)
(* one token.                                                               *)
SchedulerWakesAfterInit == ~lostPosts => SchedulerWakes

(* While the program runs, no decoder has failed and no post was wiped out  *)
(* by sem_init, every channel is served again and again: decoders that wait *)
(* for buffers, the scheduler that waits for frames of every channel in     *)
(* turn or for the display, and the display that waits for results never    *)
(* wait for each other.                                                     *)
NoStall ==
  [](~lostPosts /\ grunning) =>
    \A c \in Channels : []<>(sched = "insert" /\ schedCh = c)

(* What each thread may wait for: the decoder for a free buffer, in         *)
(* dpipe_get (which, stopped, only FFDecodeThreadFunc goes on calling); the *)
(* scheduler for a token, for a frame in dpipe_load, or for the display;    *)
(* the display and the inference thread for a token.                        *)
DecWaits(c)   == dec[c] = "get" /\ in[c] = << >> /\ (start \/ (ffmpeg /\ out[c] = << >>))
TaskWaits     == sched = "wait" /\ gNewtaskAvaiable = 0
LoadWaits     == sched = "load" /\ out[schedCh] = << >>
ThrottleWaits == sched = "throttle" /\ gresultque >= 2 /\ grunning
DispWaits     == disp = "wait" /\ g_semtshow = 0
InferWaits    == infer = "wait" /\ gsemtInfer = 0

(* The threads never wait for each other in a circle.  The scheduler does   *)
(* not sleep while every pipe has a frame, and when it sleeps there is a    *)
(* decoder that does not wait for a buffer; when it loads from an empty     *)
(* pipe that pipe's decoder does not, and while it is held back by the      *)
(* display queue the display is not asleep.                                 *)
NoCircularWait ==
  /\ SchedulerWakesAfterInit
  /\ main # "exit" =>
    /\ TaskWaits /\ ~lostPosts => \E c \in Channels : ~DecWaits(c)
    /\ LoadWaits => ~DecWaits(schedCh)
    /\ ThrottleWaits => ~DispWaits

(* Once main joins, nothing can keep a thread from ending but dpipe_load on *)
(* an empty pipe, in the scheduler: every sem_wait has its token, and a     *)
(* decoder is without a buffer only while the scheduler is returning it.    *)
ShutdownWakes ==
  main \in {"join_assist", "join_infer", "join_sched", "join_dec"} =>
    /\ ~TaskWaits /\ ~ThrottleWaits /\ ~DispWaits /\ ~InferWaits
    /\ \A c \in Channels : DecWaits(c) => sched = "put" /\ schedCh = c

(* The steps that are left to the threads once grunning is cleared: each    *)
(* decoder finishes its frame, the scheduler its round over the channels,   *)
(* the display its batch.                                                   *)
DecAt(pcs) == Cardinality({c \in Channels : dec[c] \in pcs})

DecWork == DecAt({"get"}) + DecAt({"get", "store"}) + DecAt({"get", "store", "post"})
           + DecAt({"get", "store", "post", "loop"})

RoundWork == LET rest == 6 * (NumChannels - schedCh)
             IN CASE sched = "wait"     -> 6 * NumChannels + 2
                  [] sched = "load"     -> rest + 7
                  [] sched = "put"      -> rest + 6
                  [] sched = "insert"   -> rest + 5
                  [] sched = "push"     -> rest + 4
                  [] sched = "post"     -> rest + 3
                  [] sched = "throttle" -> rest + 2
                  [] sched = "top"      -> 1
                  [] OTHER              -> 0

OtherWork == (CASE disp = "wait" -> 3 [] disp = "pop" -> 2 [] disp = "top" -> 1 [] OTHER -> 0)
             + (CASE infer = "wait" -> 2 [] infer = "top" -> 1 [] OTHER -> 0)
             + (IF fps = "run" THEN 1 ELSE 0)

MainWork == CASE main = "handler"     -> 11
              [] main = "pause"       -> 10
              [] main = "stop"        -> 9
              [] main = "post_task"   -> 8
              [] main = "post_show"   -> 7
              [] main = "dpipe_stop"  -> 6
              [] main = "join_assist" -> 5
              [] main = "join_infer"  -> 4
              [] main = "join_sched"  -> 3
              [] main = "join_dec"    -> 2
              [] main = "cleanup"     -> 1
              [] OTHER                -> 0

Work == DecWork + RoundWork + OtherWork + MainWork

(* SIGINT stops the program for good: from then on every step of any thread *)
(* lowers the work that is left, so that after finitely many steps all have *)
(* ended or wait.  No thread takes up another frame, batch or round.        *)
ShutdownSteps == [][~grunning => Work' < Work]_vars

(* After the shutdown has begun every decoder, the display, the inference   *)
(* and the statistics thread come to an end.                                *)
ThreadsStop ==
  main = "stop" ~> (/\ \A c \in Channels : dec[c] = "done"
                    /\ disp = "done" /\ infer = "done" /\ fps = "done")

(* main.cpp:215, "handle to end the process": once SIGINT wakes main, the   *)
(* process ends.                                                            *)
ShutdownCompletes == main = "stop" ~> main = "exit"
=============================================================================
