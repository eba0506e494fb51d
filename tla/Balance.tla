------------------------------ MODULE Balance -------------------------------
(***************************************************************************)
(* The program built with ENABLE_WORKLOAD_BALANCE and two inference        *)
(* threads.  The scheduler does not run the inference: it looks into every *)
(* pipe without waiting and hands the frames of channel 0 to the inference *)
(* thread of the CPU (1), those of the other channels to that of the GPU   *)
(* (0), each through a task queue with a mutex and a semaphore.  The two   *)
(* threads return the buffers and put their results into gresultque1 and   *)
(* gresultque, which the display thread reads under one semaphore.         *)
(*                                                                         *)
(* The model starts when all threads run and both detectors have their     *)
(* first batch in flight.  A pipe is the number of its free buffers and    *)
(* the sequence of its stored frames; a frame is known by its channel and  *)
(* number.  Results are shown (-show).                                     *)
(***************************************************************************)
EXTENDS Integers, Sequences, FiniteSets

CONSTANTS NumChannels,       \* FLAGS_c
          NumBuffers,        \* buffers of a pipe (100)
          BatchSize,         \* FLAGS_batch, of the GPU detector
          NUM_OF_CPU_BATCH,  \* batch of the CPU detector (2)
          MaxFrames,         \* bound: frames of channel 0
          MaxOther           \* bound: frames of each other channel

(* Both devices have channels, whose first batches are within the bounds. *)
ASSUME BalanceAssumption ==
  /\ {NumChannels, NumBuffers, BatchSize, NUM_OF_CPU_BATCH, MaxFrames, MaxOther} \subseteq Nat \ {0}
  /\ NumChannels > 1 /\ MaxFrames > NUM_OF_CPU_BATCH /\ MaxOther > BatchSize

Channels == 0 .. NumChannels - 1
GPU == 0
CPU == 1
Devices == {GPU, CPU}
Bound(c) == IF c = 0 THEN MaxFrames ELSE MaxOther
Images == {<<c, n>> : c \in Channels, n \in 1 .. MaxFrames + MaxOther}
NoTask == <<0, 0>>

VARIABLES
  grunning, main,
  dec,               \* decoder threads
  free, out,         \* free buffers, stored frames of each pipe
  decoded,           \* frames decoded so far
  gNewtaskAvaiable,  \* semaphore of the scheduler
  sched, schedCh,    \* scheduler; the pipe it is at
  task,              \* the frame it hands on
  gtaskque, gsemtInfer,
  inf, cur,          \* inference threads; the image each has copied
  imginfoque,        \* of each detector: images not reported
  gresultque,        \* number of batches queued by the GPU's thread
  gresultque1,       \* batches queued by the CPU's thread
  g_semtshow, disp,
  dispNum, shown     \* static counter of the display; history: images drawn

pipeVars  == <<free, out>>
decVars   == <<dec, decoded>>
schedVars == <<sched, schedCh, task>>
taskVars  == <<gtaskque, gsemtInfer>>
infVars   == <<inf, cur, imginfoque>>
queVars   == <<gresultque, gresultque1>>
dispVars  == <<disp, dispNum, shown>>
mainVars  == <<grunning, main>>

vars == <<pipeVars, decVars, gNewtaskAvaiable, schedVars, taskVars, infVars, queVars,
          g_semtshow, dispVars, mainVars>>

Batch(d) == IF d = GPU THEN BatchSize ELSE NUM_OF_CPU_BATCH

TypeOK ==
  /\ grunning \in BOOLEAN
  /\ main \in {"pause", "stop", "join_assist", "join_infer", "join_sched", "join_dec",
               "cleanup", "exit"}
  /\ dec \in [Channels -> {"loop", "get", "post", "done"}]
  /\ free \in [Channels -> 0 .. NumBuffers]
  /\ out \in [Channels -> Seq(Images)]
  /\ decoded \in [Channels -> Nat \ {0}] /\ \A c \in Channels : decoded[c] <= Bound(c)
  /\ gNewtaskAvaiable \in Nat /\ g_semtshow \in Nat
  /\ sched \in {"wait", "load", "push", "post", "done"} /\ schedCh \in Channels
  /\ task \in Images \cup {NoTask}
  /\ gtaskque \in [Devices -> Seq(Images)] /\ imginfoque \in [Devices -> Seq(Images)]
  /\ gsemtInfer \in [Devices -> Nat]
  /\ inf \in [Devices -> {"wait", "empty", "put", "push", "throttle", "done"}]
  /\ cur \in [Devices -> Images \cup {NoTask}]
  /\ gresultque \in Nat
  /\ gresultque1 \in Seq(Seq(Images))
  /\ \A i \in 1 .. Len(gresultque1) : Len(gresultque1[i]) = NUM_OF_CPU_BATCH
  /\ disp \in {"wait", "pop", "done"}
  /\ dispNum \in 0 .. NUM_OF_CPU_BATCH - 1
  /\ shown \in Seq(Images)

(* The first batches: of channel 0, and of channel 1. *)
First(c) == CASE c = 0 -> NUM_OF_CPU_BATCH [] c = 1 -> BatchSize [] OTHER -> 0

Init ==
  /\ grunning = TRUE /\ main = "pause"
  /\ dec = [c \in Channels |-> "get"]
  /\ decoded = [c \in Channels |-> First(c) + 1]
  /\ free = [c \in Channels |-> NumBuffers] /\ out = [c \in Channels |-> << >>]
  /\ gNewtaskAvaiable = 0 /\ g_semtshow = 0
  /\ sched = "wait" /\ schedCh = 0 /\ task = NoTask
  /\ gtaskque = [d \in Devices |-> << >>] /\ gsemtInfer = [d \in Devices |-> 0]
  /\ inf = [d \in Devices |-> "wait"] /\ cur = [d \in Devices |-> NoTask]
  /\ imginfoque = [d \in Devices |-> [i \in 1 .. Batch(d) |-> <<IF d = CPU THEN 0 ELSE 1, i>>]]
  /\ gresultque = 0 /\ gresultque1 = << >>
  /\ disp = "wait" /\ dispNum = 0 /\ shown = << >>

-----------------------------------------------------------------------------
(* DecodeThreadFunc *)

DecGoto(c, l) == dec' = [dec EXCEPT ![c] = l]

Stopped == main \notin {"pause", "stop"}   \* dpipe_stop was called

(* dpipe_get, the copy of the image and dpipe_store; after dpipe_stop a     *)
(* dpipe_get that finds no free buffer takes that of the eldest frame, or   *)
(* returns NULL and the thread ends.                                        *)
DecStore(c) ==
  /\ dec[c] = "get"
  /\ LET img == <<c, decoded[c]>>
     IN \/ /\ free[c] > 0
           /\ free' = [free EXCEPT ![c] = @ - 1]
           /\ out' = [out EXCEPT ![c] = Append(@, img)]
           /\ DecGoto(c, "post")
        \/ /\ free[c] = 0 /\ Stopped /\ out[c] # << >>
           /\ out' = [out EXCEPT ![c] = Append(Tail(@), img)]
           /\ DecGoto(c, "post") /\ UNCHANGED free
        \/ /\ free[c] = 0 /\ Stopped /\ out[c] = << >>
           /\ DecGoto(c, "done") /\ UNCHANGED pipeVars
  /\ UNCHANGED <<decoded, gNewtaskAvaiable, schedVars, taskVars, infVars, queVars,
                 g_semtshow, dispVars, mainVars>>

(* sem_post(&gNewtaskAvaiable), and the top of the loop: the thread ends if *)
(* grunning was cleared, else it decodes the next frame.                    *)
DecPost(c) ==
  /\ dec[c] = "post"
  /\ gNewtaskAvaiable' = gNewtaskAvaiable + 1
  /\ \/ grunning /\ decoded[c] < Bound(c) /\ DecGoto(c, "get")
        /\ decoded' = [decoded EXCEPT ![c] = @ + 1]
     \/ grunning /\ decoded[c] = Bound(c) /\ DecGoto(c, "loop") /\ UNCHANGED decoded
     \/ ~grunning /\ DecGoto(c, "done") /\ UNCHANGED decoded
  /\ UNCHANGED <<pipeVars, schedVars, taskVars, infVars, queVars, g_semtshow,
                 dispVars, mainVars>>

(* A decoder at its bound ends as well. *)
DecLeave(c) ==
  /\ dec[c] = "loop" /\ ~grunning
  /\ DecGoto(c, "done")
  /\ UNCHANGED <<decoded, pipeVars, gNewtaskAvaiable, schedVars, taskVars, infVars,
                 queVars, g_semtshow, dispVars, mainVars>>

DecStep(c) == DecStore(c) \/ DecPost(c) \/ DecLeave(c)

-----------------------------------------------------------------------------
(* ScheduleThreadFunc *)

(* sem_wait(&gNewtaskAvaiable) *)
SchedWait ==
  /\ sched = "wait" /\ gNewtaskAvaiable > 0
  /\ gNewtaskAvaiable' = gNewtaskAvaiable - 1
  /\ sched' = "load" /\ schedCh' = 0
  /\ UNCHANGED <<task, pipeVars, decVars, taskVars, infVars, queVars, g_semtshow,
                 dispVars, mainVars>>

Top_forever == "wait"   \* grunning is not looked at

(* The top of the loops: while (grunning) *)
Top == IF grunning THEN "wait" ELSE "done"

(* The next pipe, or the top of the loop *)
NextPipe == IF schedCh < NumChannels - 1 THEN sched' = "load" /\ schedCh' = schedCh + 1
                                         ELSE sched' = Top /\ schedCh' = 0

(* dpipe_load_nowait; an empty pipe is passed over *)
SchedLoad ==
  /\ sched = "load"
  /\ \/ /\ out[schedCh] # << >>
        /\ task' = Head(out[schedCh])
        /\ out' = [out EXCEPT ![schedCh] = Tail(@)]
        /\ sched' = "push" /\ UNCHANGED schedCh
     \/ out[schedCh] = << >> /\ NextPipe /\ UNCHANGED <<task, out>>
  /\ UNCHANGED <<free, decVars, gNewtaskAvaiable, taskVars, infVars, queVars, g_semtshow,
                 dispVars, mainVars>>

(* Channel 0 is for the CPU, the others are for the GPU. *)
DeviceFor(c) == IF c = 0 THEN CPU ELSE GPU

(* gtaskque[..].push(task), under mutexinfer *)
SchedPush ==
  /\ sched = "push"
  /\ gtaskque' = [gtaskque EXCEPT ![DeviceFor(schedCh)] = Append(@, task)]
  /\ task' = NoTask
  /\ sched' = "post"
  /\ UNCHANGED <<schedCh, gsemtInfer, pipeVars, decVars, gNewtaskAvaiable, infVars,
                 queVars, g_semtshow, dispVars, mainVars>>

SchedPost_other ==   \* the other inference thread is woken
  /\ sched = "post"
  /\ gsemtInfer' = [gsemtInfer EXCEPT ![1 - DeviceFor(schedCh)] = @ + 1]
  /\ NextPipe
  /\ UNCHANGED <<task, gtaskque, pipeVars, decVars, gNewtaskAvaiable, infVars, queVars,
                 g_semtshow, dispVars, mainVars>>

(* sem_post(&gsemtInfer[..]) *)
SchedPost ==
  /\ sched = "post"
  /\ gsemtInfer' = [gsemtInfer EXCEPT ![DeviceFor(schedCh)] = @ + 1]
  /\ NextPipe
  /\ UNCHANGED <<task, gtaskque, pipeVars, decVars, gNewtaskAvaiable, infVars, queVars,
                 g_semtshow, dispVars, mainVars>>

SchedStep == SchedWait \/ SchedLoad \/ SchedPush \/ SchedPost

-----------------------------------------------------------------------------
(* InferThreadFunc *)

InfGoto(d, l) == inf' = [inf EXCEPT ![d] = l]

(* sem_wait(&gsemtInfer[..]) *)
InferWait(d) ==
  /\ inf[d] = "wait" /\ gsemtInfer[d] > 0
  /\ gsemtInfer' = [gsemtInfer EXCEPT ![d] = @ - 1]
  /\ InfGoto(d, "empty")
  /\ UNCHANGED <<cur, imginfoque, gtaskque, pipeVars, decVars, gNewtaskAvaiable, schedVars,
                 queVars, g_semtshow, dispVars, mainVars>>

(* while(!gtaskque[..].empty()), without the mutex; then front and pop with *)
(* it, and the copy of the image (createMat)                                *)
InferPop(d) ==
  /\ inf[d] = "empty"
  /\ \/ /\ gtaskque[d] # << >>
        /\ cur' = [cur EXCEPT ![d] = Head(gtaskque[d])]
        /\ gtaskque' = [gtaskque EXCEPT ![d] = Tail(@)]
        /\ InfGoto(d, "put")
     \/ gtaskque[d] = << >> /\ InfGoto(d, Top) /\ UNCHANGED <<cur, gtaskque>>
  /\ UNCHANGED <<gsemtInfer, imginfoque, pipeVars, decVars, gNewtaskAvaiable, schedVars,
                 queVars, g_semtshow, dispVars, mainVars>>

Inserted(d) == Append(imginfoque[d], cur[d])

InferInsert_lost(d) ==   \* the buffer is not returned
  /\ inf[d] = "put"
  /\ imginfoque' = [imginfoque EXCEPT ![d] = Inserted(d)]
  /\ InfGoto(d, IF Len(Inserted(d)) = 2 * Batch(d) THEN "push" ELSE "empty")
  /\ cur' = [cur EXCEPT ![d] = NoTask]
  /\ UNCHANGED <<pipeVars, decVars, gNewtaskAvaiable, schedVars, taskVars, queVars,
                 g_semtshow, dispVars, mainVars>>

(* dpipe_put(task.dpipe, srcdata) and InsertImage, in asynchronous mode:    *)
(* nothing comes back until a batch is complete.                            *)
InferInsert(d) ==
  /\ inf[d] = "put"
  /\ free' = [free EXCEPT ![cur[d][1]] = @ + 1]
  /\ imginfoque' = [imginfoque EXCEPT ![d] = Inserted(d)]
  /\ InfGoto(d, IF Len(Inserted(d)) = 2 * Batch(d) THEN "push" ELSE "empty")
  /\ cur' = [cur EXCEPT ![d] = NoTask]
  /\ UNCHANGED <<out, decVars, gNewtaskAvaiable, schedVars, taskVars, queVars,
                 g_semtshow, dispVars, mainVars>>

(* The images of the batch that is reported *)
Results(d) == SubSeq(imginfoque[d], 1, Batch(d))

(* Then come the results of the batch before: only counted if they have no  *)
(* box (PROCESSED), else (GET) queued for display, with a post.             *)
InferResults(d) ==
  /\ inf[d] = "push"
  /\ imginfoque' = [imginfoque EXCEPT ![d] = SubSeq(@, Batch(d) + 1, Len(@))]
  /\ \/ InfGoto(d, "empty") /\ UNCHANGED <<queVars, g_semtshow>>
     \/ /\ g_semtshow' = g_semtshow + 1
        /\ IF d = GPU
             THEN /\ gresultque' = gresultque + 1 /\ UNCHANGED gresultque1
                  /\ InfGoto(d, "throttle")
             ELSE /\ gresultque1' = Append(gresultque1, Results(d))
                  /\ UNCHANGED gresultque
                  /\ InfGoto(d, "empty")
  /\ UNCHANGED <<cur, pipeVars, decVars, gNewtaskAvaiable, schedVars, taskVars,
                 dispVars, mainVars>>

(* The GPU's thread sleeps until fewer than 2 batches are queued. *)
InferThrottle(d) ==
  /\ inf[d] = "throttle"
  /\ gresultque < 2 \/ ~grunning
  /\ InfGoto(d, "empty")
  /\ UNCHANGED <<cur, imginfoque, pipeVars, decVars, gNewtaskAvaiable, schedVars, taskVars,
                 queVars, g_semtshow, dispVars, mainVars>>

InferStep(d) == \/ InferWait(d) \/ InferPop(d) \/ InferInsert(d) \/ InferResults(d)
                \/ InferThrottle(d)

-----------------------------------------------------------------------------
(* DisplayThreadFunc *)

DispWait ==
  /\ disp = "wait" /\ g_semtshow > 0
  /\ g_semtshow' = g_semtshow - 1
  /\ disp' = "pop"
  /\ UNCHANGED <<dispNum, shown, pipeVars, decVars, gNewtaskAvaiable, schedVars, taskVars,
                 infVars, queVars, mainVars>>

Draw1_local ==   \* dispNum is not static
  IF gresultque1 = << >> THEN UNCHANGED <<gresultque1, dispNum, shown>>
  ELSE shown' = Append(shown, Head(gresultque1)[1]) /\ UNCHANGED <<gresultque1, dispNum>>

(* One image of the first batch of gresultque1, which leaves the queue with *)
(* the second one                                                           *)
Draw1 ==
  IF gresultque1 = << >> THEN UNCHANGED <<gresultque1, dispNum, shown>>
  ELSE /\ shown' = Append(shown, Head(gresultque1)[dispNum + 1])
       /\ dispNum' = (dispNum + 1) % NUM_OF_CPU_BATCH
       /\ gresultque1' = IF dispNum = 1 THEN Tail(gresultque1) ELSE gresultque1

(* A batch of gresultque is drawn, and only then one image of gresultque1. *)
DispPop ==
  /\ disp = "pop"
  /\ \/ gresultque > 0 /\ gresultque' = gresultque - 1 /\ Draw1
     \/ gresultque = 0 /\ UNCHANGED <<queVars, dispNum, shown>>
  /\ disp' = Top
  /\ UNCHANGED <<pipeVars, decVars, gNewtaskAvaiable, schedVars, taskVars, infVars,
                 g_semtshow, mainVars>>

DispStep == DispWait \/ DispPop

-----------------------------------------------------------------------------
(* main *)

(* SIGINT ends pause; the handler clears grunning. *)
sigint_hanlder ==
  /\ main = "pause"
  /\ grunning' = FALSE /\ main' = "stop"
  /\ UNCHANGED <<pipeVars, decVars, gNewtaskAvaiable, schedVars, taskVars, infVars,
                 queVars, g_semtshow, dispVars>>

MainStop_gpu ==   \* only the first inference thread is woken
  /\ main = "stop"
  /\ gsemtInfer' = [gsemtInfer EXCEPT ![GPU] = @ + 1]
  /\ gNewtaskAvaiable' = gNewtaskAvaiable + 1
  /\ g_semtshow' = g_semtshow + 1
  /\ main' = "join_assist"
  /\ UNCHANGED <<grunning, gtaskque, pipeVars, decVars, schedVars, infVars, queVars,
                 dispVars>>

(* A post for every thread, and dpipe_stop.  Each post is for one thread,   *)
(* so that they make one step.                                              *)
MainStop ==
  /\ main = "stop"
  /\ gsemtInfer' = [d \in Devices |-> gsemtInfer[d] + 1]
  /\ gNewtaskAvaiable' = gNewtaskAvaiable + 1
  /\ g_semtshow' = g_semtshow + 1
  /\ main' = "join_assist"
  /\ UNCHANGED <<grunning, gtaskque, pipeVars, decVars, schedVars, infVars, queVars,
                 dispVars>>

MainJoin_nodec ==   \* the decoders are not waited for
  /\ \/ main = "join_assist" /\ disp = "done" /\ main' = "join_infer"
     \/ main = "join_infer" /\ (\A d \in Devices : inf[d] = "done") /\ main' = "join_sched"
     \/ main = "join_sched" /\ sched = "done" /\ main' = "cleanup"
  /\ UNCHANGED <<grunning, pipeVars, decVars, gNewtaskAvaiable, schedVars, taskVars,
                 infVars, queVars, g_semtshow, dispVars>>

(* pthread_join of the display, the inference threads, the scheduler and    *)
(* the decoders, in this order                                              *)
MainJoin ==
  /\ \/ main = "join_assist" /\ disp = "done" /\ main' = "join_infer"
     \/ main = "join_infer" /\ (\A d \in Devices : inf[d] = "done") /\ main' = "join_sched"
     \/ main = "join_sched" /\ sched = "done" /\ main' = "join_dec"
     \/ main = "join_dec" /\ (\A c \in Channels : dec[c] = "done") /\ main' = "cleanup"
  /\ UNCHANGED <<grunning, pipeVars, decVars, gNewtaskAvaiable, schedVars, taskVars,
                 infVars, queVars, g_semtshow, dispVars>>

(* dpipe_destroy frees the buffers of the two pools of each pipe. *)
MainCleanup ==
  /\ main = "cleanup"
  /\ free' = [c \in Channels |-> 0] /\ out' = [c \in Channels |-> << >>]
  /\ main' = "exit"
  /\ UNCHANGED <<grunning, decVars, gNewtaskAvaiable, schedVars, taskVars, infVars,
                 queVars, g_semtshow, dispVars>>

-----------------------------------------------------------------------------
Next == \/ \E c \in Channels : DecStep(c)
        \/ SchedStep \/ DispStep
        \/ \E d \in Devices : InferStep(d)
        \/ sigint_hanlder \/ MainStop \/ MainJoin \/ MainCleanup

Spec == Init /\ [][Next]_vars

-----------------------------------------------------------------------------
(* The places in a task queue of the frames of a channel *)
OfChannel(s, c) == {i \in DOMAIN s : s[i][1] = c}

SchedHolds(c) == IF sched = "push" /\ task[1] = c THEN 1 ELSE 0
InferHold(c)  == {d \in Devices : inf[d] = "put" /\ cur[d][1] = c}

(* Every buffer is in its pipe, with the scheduler, in a task queue or with *)
(* an inference thread; those of tasks queued after the inference threads   *)
(* have ended are not freed by dpipe_destroy.  The rest of the state has    *)
(* its type.                                                                *)
BuffersAccounted ==
  /\ TypeOK
  /\ main # "exit" => \A c \in Channels :
       NumBuffers = free[c] + Len(out[c]) + SchedHolds(c)
                    + Cardinality(OfChannel(gtaskque[GPU], c))
                    + Cardinality(OfChannel(gtaskque[CPU], c))
                    + Cardinality(InferHold(c))

(* The frames stored in the first n pipes, by channel and place; and the    *)
(* decoders that are about to post for theirs.                              *)
StoredIn(o, n) == UNION {{c} \X (1 .. Len(o[c])) : c \in 0 .. n - 1}
Posting(d)     == {c \in Channels : d[c] = "post"}

(* The scheduler never sleeps on a stored frame: whenever it waits there is *)
(* a token for every frame, although a round takes a frame of each pipe for *)
(* one token, and passes pipes that are still empty.                        *)
FramesHaveTokens ==
  sched = "wait" =>
    Cardinality(StoredIn(out, NumChannels)) <= gNewtaskAvaiable + Cardinality(Posting(dec))

(* No task is stranded: while a task is queued its inference thread is at   *)
(* work or has a token, or the scheduler is about to post one, although the *)
(* thread looks at the queue without the mutex and takes all tasks for one  *)
(* token.                                                                   *)
TasksHaveTokens ==
  \A d \in Devices :
    gtaskque[d] # << >> /\ inf[d] = "wait" =>
      gsemtInfer[d] > 0 \/ (sched = "post" /\ DeviceFor(schedCh) = d)

(* Nothing that was handed on is left behind a semaphore at zero.           *)
TokensKept == FramesHaveTokens /\ TasksHaveTokens

(* The images of channel 0 that are drawn are those that were queued by the *)
(* CPU's thread, each once and in the order of the stream, although the     *)
(* display takes them out of their batches one by one.                      *)
DrawnInOrder ==
  \A i, j \in DOMAIN shown : i < j => shown[i][1] = 0 /\ shown[i][2] < shown[j][2]

(* What each thread may wait for: a decoder for a free buffer, the          *)
(* scheduler and the display for a token, an inference thread for a token   *)
(* or, with 2 batches queued, for the display.                              *)
DecWaits(c)   == dec[c] = "get" /\ free[c] = 0 /\ ~Stopped
SchedWaits    == sched = "wait" /\ gNewtaskAvaiable = 0
InferWaits(d) == \/ inf[d] = "wait" /\ gsemtInfer[d] = 0
                 \/ inf[d] = "throttle" /\ gresultque >= 2 /\ grunning
DispWaits     == disp = "wait" /\ g_semtshow = 0

(* The threads never wait for each other: while the program runs, all of    *)
(* them are at rest only when every stream has come to its end, every frame *)
(* has been through the inference, its buffer is free again and the results *)
(* of the GPU are drawn.                                                    *)
RestsWhenDone ==
  /\ grunning /\ SchedWaits /\ DispWaits
  /\ \A c \in Channels : dec[c] = "loop" \/ DecWaits(c)
  /\ \A d \in Devices : InferWaits(d)
  =>
  /\ \A c \in Channels : /\ dec[c] = "loop" /\ decoded[c] = Bound(c)
                         /\ out[c] = << >> /\ free[c] = NumBuffers
  /\ \A d \in Devices : gtaskque[d] = << >>
  /\ gresultque = 0

(* Once main joins, no thread waits: each has been given its token, the     *)
(* scheduler never waits for a frame, and a stopped dpipe_get returns.      *)
ShutdownWakes ==
  main \in {"join_assist", "join_infer", "join_sched", "join_dec"} =>
    /\ ~SchedWaits /\ ~DispWaits
    /\ \A d \in Devices : ~InferWaits(d)
    /\ \A c \in Channels : ~DecWaits(c)

(* The steps that are left to the threads once grunning is cleared: each    *)
(* decoder stores its frame, the scheduler finishes its round over the      *)
(* pipes, each frame of which makes an inference thread run its loop once   *)
(* more, and those empty their task queues.                                 *)
DecAt(pcs) == Cardinality({c \in Channels : dec[c] \in pcs})

DecWork == DecAt({"get"}) + DecAt({"get", "post", "loop"})

RoundWork == LET rest == 3 * (NumChannels - schedCh)
             IN CASE sched = "wait" -> 3 * NumChannels + 1
                  [] sched = "load" -> rest
                  [] sched = "push" -> rest - 1
                  [] sched = "post" -> rest - 2
                  [] OTHER          -> 0

InferAt(d) == CASE inf[d] = "put"                  -> 4
                [] inf[d] = "push"                 -> 3
                [] inf[d] \in {"throttle", "wait"} -> 2
                [] inf[d] = "empty"                -> 1
                [] OTHER                           -> 0

InferWork(d) == 5 * Len(gtaskque[d]) + InferAt(d)

DispWork == CASE disp = "wait" -> 2 [] disp = "pop" -> 1 [] OTHER -> 0

MainWork == CASE main = "stop"        -> 6
              [] main = "join_assist" -> 5
              [] main = "join_infer"  -> 4
              [] main = "join_sched"  -> 3
              [] main = "join_dec"    -> 2
              [] main = "cleanup"     -> 1
              [] OTHER                -> 0

Work == DecWork + 6 * RoundWork + InferWork(GPU) + InferWork(CPU) + DispWork + MainWork

(* SIGINT stops the program for good: from then on every step of any thread *)
(* lowers the work that is left.  With ShutdownWakes: after finitely many   *)
(* steps main has left.                                                     *)
ShutdownSteps == [][~grunning => Work' < Work]_vars

(* main.cpp:2278, " All thread is termined ": nothing runs when pipes and   *)
(* semaphores are destroyed.                                                *)
CleanExit ==
  main \in {"cleanup", "exit"} =>
    /\ sched = "done" /\ disp = "done"
    /\ \A d \in Devices : inf[d] = "done"
    /\ \A c \in Channels : dec[c] = "done"
=============================================================================
