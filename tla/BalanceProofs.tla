---------------------------- MODULE BalanceProofs ---------------------------
(***************************************************************************)
(* TLAPS proofs about Balance, for every number of channels and buffers    *)
(* and every batch size: no buffer is lost between the decoders, the       *)
(* scheduler and the two inference threads, no frame and no task is left   *)
(* behind a semaphore at zero, everything has ended when main cleans up,   *)
(* the display draws the images of channel 0 in the order of the stream,   *)
(* all threads rest only when all frames are through, and the shutdown     *)
(* takes finitely many steps and leaves nobody waiting.                    *)
(***************************************************************************)
EXTENDS Balance, QueueFacts

USE DEF pipeVars, decVars, schedVars, taskVars, infVars, queVars, dispVars, mainVars

-----------------------------------------------------------------------------
(* Who has ended when main is past its joins. *)

Joined ==
  /\ main \in {"join_infer", "join_sched", "join_dec", "cleanup", "exit"} => disp = "done"
  /\ main \in {"join_sched", "join_dec", "cleanup", "exit"} =>
       \A d \in Devices : inf[d] = "done"
  /\ main \in {"join_dec", "cleanup", "exit"} => sched = "done"
  /\ main \in {"cleanup", "exit"} => \A c \in Channels : dec[c] = "done"

(* Threads have the frame that their program counter says they have, and a  *)
(* pipe has frames of its channel only.                                     *)
Hands ==
  /\ sched = "push" => task \in Images /\ task[1] = schedCh
  /\ \A d \in Devices : inf[d] = "put" => cur[d] \in Images
  /\ \A c \in Channels : \A i \in 1 .. Len(out[c]) : out[c][i][1] = c

(* A detector has one whole batch that is not reported, and up to one more. *)
Window(d) ==
  IF inf[d] = "push" THEN Len(imginfoque[d]) = 2 * Batch(d)
  ELSE Batch(d) <= Len(imginfoque[d]) /\ Len(imginfoque[d]) < 2 * Batch(d)

Windows == \A d \in Devices : Window(d)

(* Where the buffers of a pipe are: its free ones, the stored ones, the     *)
(* scheduler's, those in the task queues, the inference threads'.           *)
Accounted(f, o, s, g, h, T) ==
  /\ NumBuffers = f + o + s + g + h + Cardinality(T)
  /\ IsFiniteSet(T)

QueuedFor(q, d, c) == Cardinality(OfChannel(q[d], c))

Pooled(c) == Accounted(free[c], Len(out[c]), SchedHolds(c), QueuedFor(gtaskque, GPU, c),
                       QueuedFor(gtaskque, CPU, c), InferHold(c))

AllPooled == main # "exit" => \A c \in Channels : Pooled(c)

IInv == TypeOK /\ Joined /\ Hands /\ Windows /\ AllPooled
-----------------------------------------------------------------------------
(* Facts about the constants. *)

(* The constants' assumption, in the form the leaves use. *)
LEMMA Sizes ==
  /\ NumChannels \in Nat /\ NumChannels > 1 /\ NumBuffers \in Nat \ {0}
  /\ BatchSize \in Nat \ {0} /\ NUM_OF_CPU_BATCH \in Nat \ {0}
  /\ MaxFrames \in Nat /\ MaxOther \in Nat
  /\ NUM_OF_CPU_BATCH < MaxFrames /\ BatchSize < MaxOther
  /\ \A d \in Devices : Batch(d) \in Nat \ {0} /\ Batch(d) < MaxFrames + MaxOther
  /\ \A c \in Channels : Bound(c) \in Nat /\ Bound(c) <= MaxFrames + MaxOther
  /\ Channels \subseteq Nat /\ 0 \in Channels /\ 1 \in Channels
  /\ GPU \in Devices /\ CPU \in Devices /\ GPU # CPU
  /\ \A c \in Channels : DeviceFor(c) \in Devices
<1>1. /\ NumChannels \in Nat /\ NumChannels > 1 /\ NumBuffers \in Nat \ {0}
      /\ BatchSize \in Nat \ {0} /\ NUM_OF_CPU_BATCH \in Nat \ {0}
      /\ MaxFrames \in Nat /\ MaxOther \in Nat
      /\ NUM_OF_CPU_BATCH < MaxFrames /\ BatchSize < MaxOther
  BY BalanceAssumption
<1>2. /\ Channels \subseteq Nat /\ 0 \in Channels /\ 1 \in Channels
  BY <1>1 DEF Channels
<1>3. /\ \A d \in Devices : Batch(d) \in Nat \ {0} /\ Batch(d) < MaxFrames + MaxOther
      /\ \A c \in Channels : Bound(c) \in Nat /\ Bound(c) <= MaxFrames + MaxOther
  BY <1>1 DEF Batch, Bound
<1>4. /\ GPU \in Devices /\ CPU \in Devices /\ GPU # CPU
      /\ \A c \in Channels : DeviceFor(c) \in Devices
  BY DEF GPU, CPU, Devices, DeviceFor
<1> QED
  BY <1>1, <1>2, <1>3, <1>4

(* What an image is. *)
LEMMA ImageFacts ==
  /\ \A f \in Images : f[1] \in Channels /\ f[2] \in Nat \ {0}
  /\ \A c \in Channels, n \in 1 .. MaxFrames + MaxOther : <<c, n>> \in Images
BY Sizes DEF Images

-----------------------------------------------------------------------------
(* main joins the threads one after the other, and none starts again. *)
LEMMA JoinStep == TypeOK /\ Joined /\ [Next]_vars => Joined'
<1> SUFFICES ASSUME TypeOK, Joined, [Next]_vars PROVE Joined'
  OBVIOUS
<1>a. /\ dec \in [Channels -> {"loop", "get", "post", "done"}]
      /\ inf \in [Devices -> {"wait", "empty", "put", "push", "throttle", "done"}]
  BY DEF TypeOK
<1>1. ASSUME NEW c \in Channels, DecStep(c) PROVE Joined'
  <2>1. UNCHANGED <<main, disp, inf, sched>> /\ dec[c] # "done"
        /\ \E l : dec' = [dec EXCEPT ![c] = l]
    BY <1>1 DEF DecStep, DecStore, DecPost, DecLeave, DecGoto
  <2> QED
    BY <2>1, <1>a DEF Joined
<1>2. CASE SchedStep
  <2>1. UNCHANGED <<main, disp, inf, dec>> /\ sched # "done"
    BY <1>2 DEF SchedStep, SchedWait, SchedLoad, SchedPush, SchedPost
  <2> QED
    BY <2>1 DEF Joined
<1>3. CASE DispStep
  <2>1. UNCHANGED <<main, inf, dec, sched>> /\ disp # "done"
    BY <1>3 DEF DispStep, DispWait, DispPop
  <2> QED
    BY <2>1 DEF Joined
<1>4. ASSUME NEW d \in Devices, InferStep(d) PROVE Joined'
  <2>1. UNCHANGED <<main, disp, dec, sched>> /\ inf[d] # "done"
        /\ \E l : inf' = [inf EXCEPT ![d] = l]
    BY <1>4 DEF InferStep, InferWait, InferPop, InferInsert, InferResults, InferThrottle,
                InfGoto
  <2> QED
    BY <2>1, <1>a DEF Joined
<1>5. CASE sigint_hanlder \/ MainStop
  <2>1. UNCHANGED <<disp, inf, dec, sched>> /\ main' \in {"stop", "join_assist"}
    BY <1>5 DEF sigint_hanlder, MainStop
  <2> QED
    BY <2>1 DEF Joined
<1>6. CASE MainJoin
  BY <1>6 DEF MainJoin, Joined
<1>7. CASE MainCleanup
  BY <1>7 DEF MainCleanup, Joined
<1>8. CASE UNCHANGED vars
  BY <1>8 DEF vars, Joined
<1> QED
  BY <1>1, <1>2, <1>3, <1>4, <1>5, <1>6, <1>7, <1>8 DEF Next

(* What the threads hold, step by step. *)
LEMMA HandsStep == TypeOK /\ Hands /\ [Next]_vars => Hands'
<1> SUFFICES ASSUME TypeOK, Hands, [Next]_vars PROVE Hands'
  OBVIOUS
<1>a. /\ inf \in [Devices -> {"wait", "empty", "put", "push", "throttle", "done"}]
      /\ out \in [Channels -> Seq(Images)] /\ schedCh \in Channels
      /\ gtaskque \in [Devices -> Seq(Images)] /\ cur \in [Devices -> Images \cup {NoTask}]
      /\ decoded \in [Channels -> Nat \ {0}] /\ \A c \in Channels : decoded[c] <= Bound(c)
  BY DEF TypeOK
<1>b. \A c \in Channels : /\ <<c, decoded[c]>> \in Images
                          /\ Len(out[c]) \in Nat
  <2>1. ASSUME NEW c \in Channels PROVE decoded[c] \in 1 .. MaxFrames + MaxOther
    <3>1. decoded[c] \in Nat \ {0} /\ decoded[c] <= Bound(c)
      BY <1>a
    <3>2. Bound(c) \in Nat /\ Bound(c) <= MaxFrames + MaxOther /\ MaxFrames + MaxOther \in Nat
      BY Sizes
    <3> QED
      BY <3>1, <3>2
  <2>2. \A c \in Channels : out[c] \in Seq(Images)
    BY <1>a
  <2> QED
    BY <2>1, <2>2, ImageFacts, LenProperties
<1> DEFINE Own(o) == \A c \in Channels : \A i \in 1 .. Len(o[c]) : o[c][i][1] = c
<1>c. Own(out)
  BY DEF Hands
<1>1. ASSUME NEW c \in Channels, DecStore(c) PROVE Hands'
  <2> DEFINE img == <<c, decoded[c]>>
  <2>1. UNCHANGED <<sched, task, schedCh, inf, cur>>
    BY <1>1 DEF DecStore
  <2>2. img \in Images /\ img[1] = c /\ out[c] \in Seq(Images)
    BY <1>a, <1>b
  <2>3. Own(out')
    <3>1. CASE out' = [out EXCEPT ![c] = Append(out[c], img)]
      <4>1. /\ Len(Append(out[c], img)) = Len(out[c]) + 1
            /\ \A i \in 1 .. Len(out[c]) : Append(out[c], img)[i] = out[c][i]
            /\ Append(out[c], img)[Len(out[c]) + 1] = img
        BY <2>2, PushTail
      <4>2. \A i \in 1 .. Len(out[c]) + 1 : i \in 1 .. Len(out[c]) \/ i = Len(out[c]) + 1
        BY <1>b
      <4>3. \A i \in 1 .. Len(Append(out[c], img)) : Append(out[c], img)[i][1] = c
        BY <4>1, <4>2, <1>c, <2>2
      <4> QED
        BY <3>1, <4>3, <1>a, <1>c
    <3>2. CASE out[c] # << >> /\ out' = [out EXCEPT ![c] = Append(Tail(out[c]), img)]
      <4> DEFINE t == Tail(out[c])
      <4>1. /\ t \in Seq(Images) /\ Len(t) = Len(out[c]) - 1 /\ Len(out[c]) \in Nat \ {0}
            /\ \A i \in 1 .. Len(out[c]) - 1 : t[i] = out[c][i + 1]
        BY <2>2, <3>2, PopHead
      <4>2. \A i \in 1 .. Len(t) : i + 1 \in 1 .. Len(out[c]) /\ t[i] = out[c][i + 1]
        BY <4>1
      <4>a. \A i \in 1 .. Len(t) : t[i][1] = c
        BY <4>2, <1>c
      <4> HIDE DEF t
      <4>3. /\ Len(Append(t, img)) = Len(t) + 1 /\ Len(t) \in Nat
            /\ \A i \in 1 .. Len(t) : Append(t, img)[i] = t[i]
            /\ Append(t, img)[Len(t) + 1] = img
        BY <2>2, <4>1, PushTail
      <4>4. \A i \in 1 .. Len(t) + 1 : i \in 1 .. Len(t) \/ i = Len(t) + 1
        BY <4>3
      <4>5. \A i \in 1 .. Len(Append(t, img)) : Append(t, img)[i][1] = c
        BY <4>a, <4>3, <4>4, <2>2
      <4>6. out' = [out EXCEPT ![c] = Append(t, img)]
        BY <3>2 DEF t
      <4> QED
        BY <4>5, <4>6, <1>a, <1>c
    <3>3. CASE out' = out
      BY <3>3, <1>c
    <3> QED
      BY <1>1, <3>1, <3>2, <3>3 DEF DecStore
  <2> QED
    BY <2>1, <2>3 DEF Hands
<1>2. CASE SchedLoad
  <2>1. UNCHANGED <<inf, cur>> /\ out[schedCh] \in Seq(Images)
    BY <1>2, <1>a DEF SchedLoad
  <2>2. CASE out[schedCh] # << >>
    <3>1. /\ task' = Head(out[schedCh]) /\ schedCh' = schedCh
          /\ out' = [out EXCEPT ![schedCh] = Tail(out[schedCh])]
      BY <1>2, <2>2 DEF SchedLoad
    <3> DEFINE t == Tail(out[schedCh])
    <3>2. /\ t \in Seq(Images) /\ Len(t) = Len(out[schedCh]) - 1
          /\ Len(out[schedCh]) \in Nat \ {0} /\ Head(out[schedCh]) \in Images
          /\ Head(out[schedCh]) = out[schedCh][1]
          /\ \A i \in 1 .. Len(out[schedCh]) - 1 : t[i] = out[schedCh][i + 1]
      BY <2>1, <2>2, PopHead
    <3>3. /\ 1 \in 1 .. Len(out[schedCh])
          /\ \A i \in 1 .. Len(t) : i + 1 \in 1 .. Len(out[schedCh]) /\ t[i] = out[schedCh][i + 1]
      BY <3>2
    <3>4. task' \in Images /\ task'[1] = schedCh'
      BY <3>1, <3>2, <3>3, <1>a, <1>c
    <3>5. \A i \in 1 .. Len(t) : t[i][1] = schedCh
      BY <3>3, <1>a, <1>c
    <3> HIDE DEF t
    <3>6. out' = [out EXCEPT ![schedCh] = t]
      BY <3>1 DEF t
    <3>7. Own(out')
      BY <3>5, <3>6, <1>a, <1>c
    <3> QED
      BY <2>1, <3>4, <3>7 DEF Hands
  <2>3. CASE out[schedCh] = << >>
    <3>1. UNCHANGED out /\ sched' \in {"load", "wait", "done"}
      BY <1>2, <2>3 DEF SchedLoad, NextPipe, Top
    <3> QED
      BY <2>1, <3>1, <1>c DEF Hands
  <2> QED
    BY <2>2, <2>3
<1>3. CASE SchedWait \/ SchedPush \/ SchedPost
  <2>1. UNCHANGED <<out, inf, cur>> /\ sched' \in {"load", "post", "wait", "done"}
    BY <1>3 DEF SchedWait, SchedPush, SchedPost, NextPipe, Top
  <2> QED
    BY <2>1, <1>c DEF Hands
<1>4. ASSUME NEW d \in Devices, InferPop(d) PROVE Hands'
  <2>1. UNCHANGED <<out, sched, task, schedCh>> /\ gtaskque[d] \in Seq(Images)
    BY <1>4, <1>a DEF InferPop
  <2>2. CASE gtaskque[d] # << >>
    <3>1. Head(gtaskque[d]) \in Images
      BY <2>1, <2>2, PopHead
    <3>2. /\ cur' = [cur EXCEPT ![d] = Head(gtaskque[d])]
          /\ inf' = [inf EXCEPT ![d] = "put"]
      BY <1>4, <2>2 DEF InferPop, InfGoto
    <3>3. \A e \in Devices : inf'[e] = "put" => cur'[e] \in Images
      BY <3>1, <3>2, <1>a DEF Hands
    <3> QED
      BY <2>1, <3>3 DEF Hands
  <2>3. CASE gtaskque[d] = << >>
    <3>1. UNCHANGED cur /\ (inf' = [inf EXCEPT ![d] = "wait"] \/ inf' = [inf EXCEPT ![d] = "done"])
      BY <1>4, <2>3 DEF InferPop, InfGoto, Top
    <3> QED
      BY <2>1, <3>1, <1>a DEF Hands
  <2> QED
    BY <2>2, <2>3
<1>5. ASSUME NEW d \in Devices, InferWait(d) \/ InferInsert(d) \/ InferResults(d) \/ InferThrottle(d)
      PROVE  Hands'
  <2>1. /\ UNCHANGED <<out, sched, task, schedCh>>
        /\ \E l \in {"empty", "push", "throttle"} : inf' = [inf EXCEPT ![d] = l]
        /\ cur' = cur \/ cur' = [cur EXCEPT ![d] = NoTask]
    BY <1>5 DEF InferWait, InferInsert, InferResults, InferThrottle, InfGoto
  <2>2. ASSUME NEW e \in Devices, inf'[e] = "put"
        PROVE  inf[e] = "put" /\ cur'[e] = cur[e]
    <3>1. e # d
      BY <2>1, <2>2, <1>a
    <3> QED
      BY <2>1, <2>2, <3>1, <1>a
  <2> QED
    BY <2>1, <2>2 DEF Hands
<1>6. CASE MainCleanup
  <2>1. UNCHANGED <<sched, task, schedCh, inf, cur>> /\ out' = [c \in Channels |-> << >>]
    BY <1>6 DEF MainCleanup
  <2>2. \A c \in Channels : Len(out'[c]) = 0
    BY <2>1
  <2> QED
    BY <2>1, <2>2 DEF Hands
<1>7. CASE \/ \E c \in Channels : DecPost(c) \/ DecLeave(c)
           \/ DispStep \/ sigint_hanlder \/ MainStop \/ MainJoin \/ UNCHANGED vars
  <2>1. UNCHANGED <<out, sched, task, schedCh, inf, cur>>
    BY <1>7 DEF DecPost, DecLeave, DispStep, DispWait, DispPop, sigint_hanlder, MainStop,
                MainJoin, vars
  <2> QED
    BY <2>1 DEF Hands
<1> QED
  BY <1>1, <1>2, <1>3, <1>4, <1>5, <1>6, <1>7 DEF Next, DecStep, SchedStep, InferStep

(* A detector reports its batch as soon as the next one is complete. *)
LEMMA WindowStep == TypeOK /\ Windows /\ [Next]_vars => Windows'
<1> SUFFICES ASSUME TypeOK, Windows, [Next]_vars, NEW e \in Devices PROVE Window(e)'
  BY DEF Windows
<1>a. /\ inf \in [Devices -> {"wait", "empty", "put", "push", "throttle", "done"}]
      /\ imginfoque \in [Devices -> Seq(Images)] /\ cur \in [Devices -> Images \cup {NoTask}]
      /\ Batch(e) \in Nat \ {0} /\ imginfoque[e] \in Seq(Images) /\ Len(imginfoque[e]) \in Nat
  BY Sizes, LenProperties DEF TypeOK
<1>b. Window(e)
  BY DEF Windows
<1>n. Batch(e) \in Nat \ {0} /\ Len(imginfoque[e]) \in Nat
  BY <1>a
<1>1. CASE inf'[e] = inf[e] /\ imginfoque'[e] = imginfoque[e]
  BY <1>1, <1>b DEF Window, Batch
<1>2. CASE InferWait(e) \/ InferPop(e) \/ InferThrottle(e)
  <2>1. UNCHANGED imginfoque /\ inf[e] # "push" /\ inf'[e] # "push"
    BY <1>2, <1>a DEF InferWait, InferPop, InferThrottle, InfGoto, Top
  <2> QED
    BY <2>1, <1>b DEF Window, Batch
<1>3. CASE InferInsert(e)
  <2> DEFINE n == Len(Append(imginfoque[e], cur[e]))
  <2>1. /\ inf[e] = "put" /\ imginfoque' = [imginfoque EXCEPT ![e] = Append(imginfoque[e], cur[e])]
        /\ inf' = [inf EXCEPT ![e] = IF n = 2 * Batch(e) THEN "push" ELSE "empty"]
    BY <1>3 DEF InferInsert, Inserted, InfGoto
  <2>2. n = Len(imginfoque[e]) + 1
    <3>1. imginfoque[e] \in Seq(Images \cup {NoTask}) /\ cur[e] \in Images \cup {NoTask}
      BY <1>a, SeqMonotonic
    <3> QED
      BY <3>1, AppendProperties
  <2>3. Len(imginfoque'[e]) = n /\ inf'[e] = IF n = 2 * Batch(e) THEN "push" ELSE "empty"
    BY <2>1, <1>a
  <2>4. Batch(e) <= Len(imginfoque[e]) /\ Len(imginfoque[e]) < 2 * Batch(e)
    BY <2>1, <1>b DEF Window
  <2> HIDE DEF n
  <2>5. CASE n = 2 * Batch(e)
    BY <2>3, <2>5 DEF Window, Batch
  <2>6. CASE n # 2 * Batch(e)
    <3>1. Batch(e) <= n /\ n < 2 * Batch(e)
      BY <2>2, <2>4, <2>6, <1>n
    <3> QED
      BY <2>3, <2>6, <3>1 DEF Window, Batch
  <2> QED
    BY <2>5, <2>6
<1>4. CASE InferResults(e)
  <2> DEFINE q == SubSeq(imginfoque[e], Batch(e) + 1, Len(imginfoque[e]))
  <2>1. /\ inf[e] = "push" /\ imginfoque' = [imginfoque EXCEPT ![e] = q]
    BY <1>4 DEF InferResults
  <2>2. inf'[e] # "push"
    BY <1>4, <1>a DEF InferResults, InfGoto
  <2>3. Len(imginfoque[e]) = 2 * Batch(e)
    BY <2>1, <1>b DEF Window
  <2>4. Len(q) = Batch(e)
    <3>1. \A i \in Batch(e) + 1 .. Len(imginfoque[e]) : imginfoque[e][i] \in Images
      BY <1>a, ElementOfSeq
    <3>2. Len(q) = IF Batch(e) + 1 <= Len(imginfoque[e])
                   THEN Len(imginfoque[e]) - (Batch(e) + 1) + 1 ELSE 0
      BY <3>1, <1>a, SubSeqProperties
    <3> HIDE DEF q
    <3> QED
      BY <3>2, <2>3, <1>n
  <2> HIDE DEF q
  <2>5. Len(imginfoque'[e]) = Batch(e)
    BY <2>1, <2>4, <1>a
  <2> QED
    BY <2>2, <2>5, <1>a DEF Window, Batch
<1>5. ASSUME NEW d \in Devices, InferStep(d), d # e
      PROVE  inf'[e] = inf[e] /\ imginfoque'[e] = imginfoque[e]
  BY <1>5, <1>a DEF InferStep, InferWait, InferPop, InferInsert, InferResults, InferThrottle, InfGoto
<1>6. CASE \/ \E c \in Channels : DecStep(c)
           \/ SchedStep \/ DispStep \/ sigint_hanlder \/ MainStop \/ MainJoin \/ MainCleanup
           \/ UNCHANGED vars
  <2>1. UNCHANGED <<inf, imginfoque>>
    BY <1>6 DEF DecStep, DecStore, DecPost, DecLeave, SchedStep, SchedWait, SchedLoad, SchedPush,
                SchedPost, DispStep, DispWait, DispPop, sigint_hanlder, MainStop, MainJoin,
                MainCleanup, vars
  <2> QED
    BY <2>1, <1>1
<1> QED
  BY <1>1, <1>2, <1>3, <1>4, <1>5, <1>6 DEF Next, InferStep

-----------------------------------------------------------------------------
(* The tasks of a channel in a queue, when one joins or leaves it. *)
LEMMA CountAppend ==
  ASSUME NEW s \in Seq(Images), NEW f \in Images, NEW c
  PROVE  /\ Cardinality(OfChannel(s, c)) \in Nat
         /\ Cardinality(OfChannel(Append(s, f), c))
              = Cardinality(OfChannel(s, c)) + (IF f[1] = c THEN 1 ELSE 0)
<1> DEFINE n == Len(s) + 1
           t == Append(s, f)
<1>1. /\ Len(s) \in Nat /\ DOMAIN s = 1 .. Len(s)
      /\ t \in Seq(Images) /\ Len(t) = n /\ t[n] = f /\ \A i \in 1 .. Len(s) : t[i] = s[i]
  BY LenProperties, PushTail
<1>2. DOMAIN t = 1 .. n
  BY <1>1, LenProperties
<1> HIDE DEF t
<1>3. IsFiniteSet(OfChannel(s, c)) /\ Cardinality(OfChannel(s, c)) \in Nat
  <2>1. OfChannel(s, c) \in SUBSET (1 .. Len(s))
    BY <1>1 DEF OfChannel
  <2>2. IsFiniteSet(1 .. Len(s))
    <3>1. Len(s) \in Int /\ 1 \in Int
      BY <1>1
    <3> QED
      BY <3>1, FS_Interval
  <2> QED
    BY <2>1, <2>2, FS_Subset, FS_CardinalityType
<1>4. /\ n \notin OfChannel(s, c) /\ n \in 1 .. n
      /\ \A i \in 1 .. n : i \in 1 .. Len(s) \/ i = n
      /\ \A i \in 1 .. Len(s) : i \in 1 .. n /\ i # n
  BY <1>1 DEF OfChannel
<1>5. CASE f[1] = c
  <2>1. OfChannel(t, c) = OfChannel(s, c) \cup {n}
    BY <1>1, <1>2, <1>4, <1>5 DEF OfChannel
  <2> QED
    BY ZenonT(60), <2>1, <1>3, <1>4, <1>5, FS_AddElement DEF t
<1>6. CASE f[1] # c
  <2>1. OfChannel(t, c) = OfChannel(s, c)
    BY <1>1, <1>2, <1>4, <1>6 DEF OfChannel
  <2> QED
    BY <2>1, <1>3, <1>6 DEF t
<1> QED
  BY <1>3, <1>5, <1>6

(* Taking the head off a queue takes its image off the count of its channel. *)
LEMMA CountTail ==
  ASSUME NEW s \in Seq(Images), s # << >>, NEW c
  PROVE  /\ Cardinality(OfChannel(s, c)) \in Nat
         /\ Cardinality(OfChannel(Tail(s), c)) \in Nat
         /\ Cardinality(OfChannel(s, c))
              = Cardinality(OfChannel(Tail(s), c)) + (IF Head(s)[1] = c THEN 1 ELSE 0)
<1> DEFINE t == Tail(s)
           f == [i \in OfChannel(t, c) |-> i + 1]
<1>1. /\ Len(s) \in Nat \ {0} /\ t \in Seq(Images) /\ Len(t) = Len(s) - 1 /\ Head(s) = s[1]
      /\ \A i \in 1 .. Len(s) - 1 : t[i] = s[i + 1]
  BY PopHead
<1>2. DOMAIN t = 1 .. Len(s) - 1 /\ DOMAIN s = 1 .. Len(s)
  BY <1>1, LenProperties
<1> HIDE DEF t
<1>3. IsFiniteSet(OfChannel(t, c)) /\ Cardinality(OfChannel(t, c)) \in Nat
  <2>1. IsFiniteSet(1 .. Len(s) - 1) /\ OfChannel(t, c) \in SUBSET (1 .. Len(s) - 1)
    BY <1>1, <1>2, FS_Interval DEF OfChannel
  <2> QED
    BY <2>1, FS_Subset, FS_CardinalityType
<1> DEFINE T == OfChannel(s, c) \ {1}
<1>4. \A i \in OfChannel(t, c) : i \in Nat /\ i + 1 \in T
  BY <1>1, <1>2 DEF OfChannel
<1>5. \A j \in T : j - 1 \in OfChannel(t, c) /\ j - 1 + 1 = j
  BY <1>1, <1>2 DEF OfChannel
<1>6. f \in Bijection(OfChannel(t, c), T)
  <2>1. f \in [OfChannel(t, c) -> T]
    BY <1>4
  <2>2. \A i, j \in OfChannel(t, c) : f[i] = f[j] => i = j
    BY <1>4
  <2>3. \A j \in T : \E i \in OfChannel(t, c) : f[i] = j
    BY <1>5
  <2> HIDE DEF f, T
  <2> QED
    BY <2>1, <2>2, <2>3 DEF Bijection, Injection, Surjection, IsInjective
<1>7. IsFiniteSet(T) /\ Cardinality(T) = Cardinality(OfChannel(t, c))
  BY <1>3, <1>6, FS_Bijection DEF ExistsBijection
<1>8. CASE Head(s)[1] = c
  <2>1. OfChannel(s, c) = T \cup {1} /\ 1 \notin T
    BY <1>1, <1>2, <1>8 DEF OfChannel
  <2> HIDE DEF T
  <2>2. Cardinality(OfChannel(s, c)) = Cardinality(T) + 1
    BY <2>1, <1>7, FS_AddElement
  <2> QED
    BY <2>2, <1>3, <1>7, <1>8 DEF t
<1>9. CASE Head(s)[1] # c
  <2>1. OfChannel(s, c) = T
    BY <1>1, <1>2, <1>9 DEF OfChannel
  <2> HIDE DEF T
  <2> QED
    BY <2>1, <1>3, <1>7, <1>9 DEF t
<1> QED
  BY <1>8, <1>9

-----------------------------------------------------------------------------
(* The buffers of each pipe. *)

(* There are finitely many devices. *)
LEMMA DevicesFinite == IsFiniteSet(Devices)
<1>1. IsFiniteSet(0 .. 1)
  BY 0 \in Int, 1 \in Int, FS_Interval
<1> QED
  BY <1>1 DEF Devices, GPU, CPU

(* Finitely many inference threads hold a buffer of a channel. *)
LEMMA HoldFinite == \A c : IsFiniteSet(InferHold(c)) /\ InferHold(c) \subseteq Devices
<1>1. \A c : InferHold(c) \subseteq Devices
  BY DEF InferHold
<1> QED
  BY <1>1, DevicesFinite, FS_Subset

(* A step moves an image's buffer along decoder, pipe, scheduler, task queue, batch and
   back, or moves none. *)
LEMMA PoolStep == IInv /\ [Next]_vars => AllPooled'
<1> SUFFICES ASSUME TypeOK, Hands, Joined, AllPooled, [Next]_vars, main' # "exit",
                    NEW c \in Channels
             PROVE  Pooled(c)'
  BY DEF IInv, AllPooled
<1>a. /\ out \in [Channels -> Seq(Images)] /\ schedCh \in Channels
      /\ free \in [Channels -> 0 .. NumBuffers]
      /\ gtaskque \in [Devices -> Seq(Images)] /\ cur \in [Devices -> Images \cup {NoTask}]
      /\ inf \in [Devices -> {"wait", "empty", "put", "push", "throttle", "done"}]
      /\ decoded \in [Channels -> Nat \ {0}] /\ \A e \in Channels : decoded[e] <= Bound(e)
  BY DEF TypeOK
<1>b. main # "exit"
  BY DEF Next, vars, DecStep, DecStore, DecPost, DecLeave, SchedStep, SchedWait, SchedLoad,
         SchedPush, SchedPost, DispStep, DispWait, DispPop, InferStep, InferWait, InferPop,
         InferInsert, InferResults, InferThrottle, sigint_hanlder, MainStop, MainJoin,
         MainCleanup
<1>c. Pooled(c)
  BY <1>b DEF AllPooled
<1>d. /\ free[c] \in Nat /\ Len(out[c]) \in Nat /\ SchedHolds(c) \in {0, 1}
      /\ QueuedFor(gtaskque, GPU, c) \in Nat /\ QueuedFor(gtaskque, CPU, c) \in Nat
      /\ Cardinality(InferHold(c)) \in Nat /\ IsFiniteSet(InferHold(c))
  <2>1. free[c] \in Nat /\ out[c] \in Seq(Images) /\ SchedHolds(c) \in {0, 1}
    BY <1>a, Sizes DEF SchedHolds
  <2>2. \A d \in Devices : QueuedFor(gtaskque, d, c) \in Nat
    <3>1. \A d \in Devices : gtaskque[d] \in Seq(Images)
      BY <1>a
    <3>2. <<0, 1>> \in Images
      BY Sizes, ImageFacts
    <3> QED
      BY <3>1, <3>2, CountAppend DEF QueuedFor
  <2> QED
    BY <2>1, <2>2, LenProperties, HoldFinite, FS_CardinalityType, Sizes
<1>e. NumBuffers = free[c] + Len(out[c]) + SchedHolds(c) + QueuedFor(gtaskque, GPU, c)
                   + QueuedFor(gtaskque, CPU, c) + Cardinality(InferHold(c))
  BY <1>c DEF Pooled, Accounted
<1>g. IsFiniteSet(InferHold(c)')
  <2>1. InferHold(c)' \subseteq Devices
    BY DEF InferHold
  <2> QED
    BY <2>1, DevicesFinite, FS_Subset
<1> DEFINE Sum(f, o, s, g, h, k) == NumBuffers = f + o + s + g + h + k
<1>f. ASSUME Sum(free'[c], Len(out'[c]), SchedHolds(c)', QueuedFor(gtaskque', GPU, c),
                 QueuedFor(gtaskque', CPU, c), Cardinality(InferHold(c)'))
      PROVE  Pooled(c)'
  BY <1>f, <1>g DEF Pooled, Accounted, QueuedFor
<1>j. SchedHolds(c) \in Nat
  BY <1>d
<1> HIDE DEF Sum
<1>h. Sum(free[c], Len(out[c]), SchedHolds(c), QueuedFor(gtaskque, GPU, c),
          QueuedFor(gtaskque, CPU, c), Cardinality(InferHold(c)))
  BY <1>e DEF Sum
<1>k. PICK f \in Nat, o \in Nat, s \in Nat, g \in Nat, h \in Nat, k \in Nat :
        /\ f = free[c] /\ o = Len(out[c]) /\ s = SchedHolds(c)
        /\ g = QueuedFor(gtaskque, GPU, c) /\ h = QueuedFor(gtaskque, CPU, c)
        /\ k = Cardinality(InferHold(c))
  BY <1>d, <1>j
<1>l. NumBuffers = f + o + s + g + h + k
  BY <1>e, <1>k
<1>i. /\ Sum(f - 1, o + 1, s, g, h, k) /\ Sum(f, o, 0, g + s, h, k)
      /\ Sum(f, o, 0, g, h + s, k) /\ Sum(f + 1, o, s, g, h, k - 1)
      /\ \A m, n \in Nat : /\ g = m + n => Sum(f, o, s, m, h, k + n)
                           /\ h = m + n => Sum(f, o, s, g, m, k + n)
  BY <1>l DEF Sum
<1>1. ASSUME NEW e \in Channels, DecStore(e) PROVE Pooled(c)'
  <2> DEFINE img == <<e, decoded[e]>>
  <2>1. UNCHANGED <<sched, task, gtaskque, inf, cur>>
    BY <1>1 DEF DecStore
  <2>2. SchedHolds(c)' = SchedHolds(c) /\ InferHold(c)' = InferHold(c)
    BY <2>1 DEF SchedHolds, InferHold
  <2>3. img \in Images
    <3>1. decoded[e] \in Nat \ {0} /\ decoded[e] <= Bound(e)
      BY <1>a
    <3>2. Bound(e) \in Nat /\ Bound(e) <= MaxFrames + MaxOther /\ MaxFrames + MaxOther \in Nat
      BY Sizes
    <3>3. decoded[e] \in 1 .. MaxFrames + MaxOther
      BY <3>1, <3>2
    <3> QED
      BY <3>3, ImageFacts
  <2>4. CASE c # e \/ (free' = free /\ out' = out)
    <3>1. free'[c] = free[c] /\ out'[c] = out[c]
      BY <1>1, <2>4, <1>a DEF DecStore
    <3> QED
      BY <2>1, <2>2, <3>1, <1>f, <1>h
  <2>5. CASE c = e /\ free[c] > 0 /\ free' = [free EXCEPT ![c] = free[c] - 1]
             /\ out' = [out EXCEPT ![c] = Append(out[c], img)]
    <3>1. free'[c] = free[c] - 1 /\ Len(out'[c]) = Len(out[c]) + 1
      <4>1. out[c] \in Seq(Images)
        BY <1>a
      <4> QED
        BY <4>1, <2>3, <2>5, <1>a, AppendProperties
    <3>2. Sum(free'[c], Len(out'[c]), SchedHolds(c), QueuedFor(gtaskque, GPU, c),
              QueuedFor(gtaskque, CPU, c), Cardinality(InferHold(c)))
      BY <3>1, <1>i, <1>k
    <3> QED
      BY <3>2, <2>1, <2>2, <1>f
  <2>6. CASE c = e /\ free' = free /\ out[c] # << >>
             /\ out' = [out EXCEPT ![c] = Append(Tail(out[c]), img)]
    <3>1. free'[c] = free[c] /\ Len(out'[c]) = Len(out[c])
      <4>1. out[c] \in Seq(Images) /\ out'[c] = Append(Tail(out[c]), img)
        BY <2>6, <1>a
      <4>2. Tail(out[c]) \in Seq(Images) /\ Len(Tail(out[c])) = Len(out[c]) - 1
        BY <2>6, <4>1, PopHead
      <4>3. Len(out'[c]) = Len(Tail(out[c])) + 1
        BY <4>1, <4>2, <2>3, PushTail
      <4> QED
        BY <4>2, <4>3, <2>6, <1>d
    <3> QED
      BY <3>1, <2>1, <2>2, <1>f, <1>h
  <2> QED
    BY <1>1, <2>4, <2>5, <2>6 DEF DecStore
<1>2. CASE SchedLoad
  <2>1. UNCHANGED <<free, gtaskque, inf, cur>> /\ sched = "load"
    BY <1>2 DEF SchedLoad
  <2>2. InferHold(c)' = InferHold(c) /\ free'[c] = free[c] /\ SchedHolds(c) = 0
    BY <2>1 DEF InferHold, SchedHolds
  <2>3. CASE out[schedCh] # << >>
    <3>1. /\ task' = Head(out[schedCh]) /\ sched' = "push"
          /\ out' = [out EXCEPT ![schedCh] = Tail(out[schedCh])]
      BY <1>2, <2>3 DEF SchedLoad
    <3>2. /\ Len(out[schedCh]) \in Nat \ {0} /\ Len(Tail(out[schedCh])) = Len(out[schedCh]) - 1
          /\ Head(out[schedCh]) = out[schedCh][1]
      <4>1. out[schedCh] \in Seq(Images)
        BY <1>a
      <4> QED
        BY <4>1, <2>3, PopHead
    <3>3. task'[1] = schedCh
      <4>1. 1 \in 1 .. Len(out[schedCh])
        BY <3>2
      <4> QED
        BY <4>1, <3>1, <3>2, <1>a DEF Hands
    <3>4. CASE c = schedCh
      <4>1. Len(out'[c]) = Len(out[c]) - 1 /\ SchedHolds(c)' = 1
        BY <3>1, <3>2, <3>3, <3>4, <1>a DEF SchedHolds
      <4>2. Sum(free'[c], Len(out'[c]), SchedHolds(c)', QueuedFor(gtaskque, GPU, c),
                QueuedFor(gtaskque, CPU, c), Cardinality(InferHold(c)))
        BY <4>1, <2>2, <1>h, <1>d DEF Sum
      <4> QED
        BY <4>2, <2>1, <2>2, <1>f
    <3>5. CASE c # schedCh
      <4>1. out'[c] = out[c] /\ SchedHolds(c)' = 0
        BY <3>1, <3>3, <3>5, <1>a DEF SchedHolds
      <4> QED
        BY <4>1, <2>1, <2>2, <1>f, <1>h
    <3> QED
      BY <3>4, <3>5
  <2>4. CASE out[schedCh] = << >>
    <3>1. UNCHANGED out /\ sched' \in {"load", "wait", "done"}
      BY <1>2, <2>4 DEF SchedLoad, NextPipe, Top
    <3>2. SchedHolds(c)' = 0
      BY <3>1 DEF SchedHolds
    <3> QED
      BY <3>1, <3>2, <2>1, <2>2, <1>f, <1>h
  <2> QED
    BY <2>3, <2>4
<1>3. CASE SchedPush
  <2> DEFINE d == DeviceFor(schedCh)
  <2>1. /\ UNCHANGED <<free, out, inf, cur>> /\ sched = "push" /\ sched' = "post"
        /\ gtaskque' = [gtaskque EXCEPT ![d] = Append(gtaskque[d], task)]
    BY <1>3 DEF SchedPush
  <2>2. InferHold(c)' = InferHold(c) /\ SchedHolds(c)' = 0
        /\ SchedHolds(c) = IF task[1] = c THEN 1 ELSE 0
    BY <2>1 DEF InferHold, SchedHolds
  <2>3. d \in Devices /\ gtaskque[d] \in Seq(Images) /\ task \in Images
    BY <2>1, <1>a, Sizes DEF Hands
  <2> HIDE DEF d
  <2>4. QueuedFor(gtaskque', d, c) = QueuedFor(gtaskque, d, c) + (IF task[1] = c THEN 1 ELSE 0)
    <3>1. gtaskque'[d] = Append(gtaskque[d], task)
      BY <2>1, <2>3, <1>a
    <3> QED
      BY <3>1, <2>3, CountAppend DEF QueuedFor
  <2>5. \A e \in Devices : e # d => QueuedFor(gtaskque', e, c) = QueuedFor(gtaskque, e, c)
    BY <2>1, <1>a DEF QueuedFor
  <2>6. d = GPU \/ d = CPU
    BY <2>3 DEF Devices
  <2>7. Sum(free[c], Len(out[c]), 0, QueuedFor(gtaskque', GPU, c),
            QueuedFor(gtaskque', CPU, c), Cardinality(InferHold(c)))
    <3>1. CASE d = GPU
      <4>1. QueuedFor(gtaskque', CPU, c) = QueuedFor(gtaskque, CPU, c)
        BY <2>5, <3>1, Sizes
      <4>2. QueuedFor(gtaskque', GPU, c) = QueuedFor(gtaskque, GPU, c) + SchedHolds(c)
        BY <2>4, <2>2, <3>1
      <4> QED
        BY <4>1, <4>2, <1>i, <1>k
    <3>2. CASE d = CPU
      <4>1. QueuedFor(gtaskque', GPU, c) = QueuedFor(gtaskque, GPU, c)
        BY <2>5, <3>2, Sizes
      <4>2. QueuedFor(gtaskque', CPU, c) = QueuedFor(gtaskque, CPU, c) + SchedHolds(c)
        BY <2>4, <2>2, <3>2
      <4> QED
        BY <4>1, <4>2, <1>i, <1>k
    <3> QED
      BY <3>1, <3>2, <2>6
  <2> QED
    BY <2>1, <2>2, <2>7, <1>f
<1>4. ASSUME NEW d \in Devices, InferPop(d) PROVE Pooled(c)'
  <2>1. UNCHANGED <<free, out, sched, task>> /\ inf[d] = "empty"
    BY <1>4 DEF InferPop
  <2>2. SchedHolds(c)' = SchedHolds(c)
    BY <2>1 DEF SchedHolds
  <2>3. CASE gtaskque[d] # << >>
    <3> DEFINE img == Head(gtaskque[d])
    <3>1. /\ cur' = [cur EXCEPT ![d] = img] /\ inf' = [inf EXCEPT ![d] = "put"]
          /\ gtaskque' = [gtaskque EXCEPT ![d] = Tail(gtaskque[d])]
      BY <1>4, <2>3 DEF InferPop, InfGoto
    <3>2. gtaskque[d] \in Seq(Images) /\ gtaskque'[d] = Tail(gtaskque[d])
      BY <3>1, <1>a
    <3>3. /\ QueuedFor(gtaskque', d, c) \in Nat
          /\ QueuedFor(gtaskque, d, c) = QueuedFor(gtaskque', d, c) + (IF img[1] = c THEN 1 ELSE 0)
      BY <3>2, <2>3, CountTail DEF QueuedFor
    <3>4. \A e \in Devices : e # d => QueuedFor(gtaskque', e, c) = QueuedFor(gtaskque, e, c)
      BY <3>1, <1>a DEF QueuedFor
    <3>5. d \notin InferHold(c)
      BY <2>1 DEF InferHold
    <3>6. cur'[d] = img /\ inf'[d] = "put"
          /\ \A e \in Devices : e # d => cur'[e] = cur[e] /\ inf'[e] = inf[e]
      BY <3>1, <1>a
    <3> HIDE DEF img
    <3>7. Cardinality(InferHold(c)') = Cardinality(InferHold(c)) + (IF img[1] = c THEN 1 ELSE 0)
      <4>1. CASE img[1] = c
        <5>1. InferHold(c)' = InferHold(c) \cup {d}
          BY <3>6, <4>1 DEF InferHold
        <5> QED
          BY <5>1, <4>1, <3>5, <1>d, FS_AddElement
      <4>2. CASE img[1] # c
        <5>1. InferHold(c)' = InferHold(c)
          BY <3>5, <3>6, <4>2 DEF InferHold
        <5> QED
          BY <5>1, <4>2, <1>d
      <4> QED
        BY <4>1, <4>2
    <3>8. PICK n \in Nat : n = IF img[1] = c THEN 1 ELSE 0
      OBVIOUS
    <3>10. Cardinality(InferHold(c)') = Cardinality(InferHold(c)) + n
      BY <3>7, <3>8
    <3>9. Sum(free[c], Len(out[c]), SchedHolds(c), QueuedFor(gtaskque', GPU, c),
              QueuedFor(gtaskque', CPU, c), Cardinality(InferHold(c)'))
      <4>1. CASE d = GPU
        <5>1. QueuedFor(gtaskque', CPU, c) = QueuedFor(gtaskque, CPU, c)
          BY <3>4, <4>1, Sizes
        <5>2. QueuedFor(gtaskque, GPU, c) = QueuedFor(gtaskque', GPU, c) + n
              /\ QueuedFor(gtaskque', GPU, c) \in Nat
          BY <3>3, <3>8, <4>1
        <5> QED
          BY <5>1, <5>2, <3>10, <1>i, <1>k
      <4>2. CASE d = CPU
        <5>1. QueuedFor(gtaskque', GPU, c) = QueuedFor(gtaskque, GPU, c)
          BY <3>4, <4>2, Sizes
        <5>2. QueuedFor(gtaskque, CPU, c) = QueuedFor(gtaskque', CPU, c) + n
              /\ QueuedFor(gtaskque', CPU, c) \in Nat
          BY <3>3, <3>8, <4>2
        <5> QED
          BY <5>1, <5>2, <3>10, <1>i, <1>k
      <4> QED
        BY <4>1, <4>2 DEF Devices
    <3> QED
      BY <3>9, <2>1, <2>2, <1>f
  <2>4. CASE gtaskque[d] = << >>
    <3>1. UNCHANGED <<cur, gtaskque>> /\ \E l \in {"wait", "done"} : inf' = [inf EXCEPT ![d] = l]
      BY <1>4, <2>4 DEF InferPop, InfGoto, Top
    <3>2. \A e \in Devices : inf'[e] = "put" <=> inf[e] = "put"
      BY <3>1, <2>1, <1>a
    <3>3. InferHold(c)' = InferHold(c)
      BY <3>1, <3>2 DEF InferHold
    <3> QED
      BY <3>1, <3>3, <2>1, <2>2, <1>f, <1>h
  <2> QED
    BY <2>3, <2>4
<1>5. ASSUME NEW d \in Devices, InferInsert(d) PROVE Pooled(c)'
  <2>1. /\ UNCHANGED <<out, sched, task, gtaskque>> /\ inf[d] = "put"
        /\ free' = [free EXCEPT ![cur[d][1]] = @ + 1]
        /\ \E l \in {"push", "empty"} : inf' = [inf EXCEPT ![d] = l]
        /\ cur' = [cur EXCEPT ![d] = NoTask]
    BY <1>5 DEF InferInsert, InfGoto
  <2>2. SchedHolds(c)' = SchedHolds(c)
    BY <2>1 DEF SchedHolds
  <2>3. inf'[d] # "put" /\ \A e \in Devices : e # d => inf'[e] = inf[e] /\ cur'[e] = cur[e]
    BY <2>1, <1>a
  <2>4. CASE cur[d][1] = c
    <3>1. InferHold(c)' = InferHold(c) \ {d} /\ d \in InferHold(c)
      BY <2>1, <2>3, <2>4 DEF InferHold
    <3>2. Cardinality(InferHold(c)') = Cardinality(InferHold(c)) - 1
      BY <3>1, <1>d, FS_RemoveElement
    <3>3. free'[c] = free[c] + 1
      BY <2>1, <2>4, <1>a
    <3>4. Sum(free'[c], Len(out[c]), SchedHolds(c), QueuedFor(gtaskque, GPU, c),
              QueuedFor(gtaskque, CPU, c), Cardinality(InferHold(c)'))
      BY <3>2, <3>3, <1>i, <1>k
    <3> QED
      BY <3>4, <2>1, <2>2, <1>f
  <2>5. CASE cur[d][1] # c
    <3>1. InferHold(c)' = InferHold(c)
      BY <2>1, <2>3, <2>5 DEF InferHold
    <3>2. free'[c] = free[c]
      BY <2>1, <2>5, <1>a
    <3> QED
      BY <3>1, <3>2, <2>1, <2>2, <1>f, <1>h
  <2> QED
    BY <2>4, <2>5
<1>6. ASSUME NEW d \in Devices, InferWait(d) \/ InferResults(d) \/ InferThrottle(d)
      PROVE  Pooled(c)'
  <2>1. /\ UNCHANGED <<free, out, sched, task, gtaskque, cur>> /\ inf[d] # "put"
        /\ \E l \in {"empty", "throttle"} : inf' = [inf EXCEPT ![d] = l]
    BY <1>6 DEF InferWait, InferResults, InferThrottle, InfGoto
  <2>2. \A e \in Devices : inf'[e] = "put" <=> inf[e] = "put"
    BY <2>1, <1>a
  <2>3. SchedHolds(c)' = SchedHolds(c) /\ InferHold(c)' = InferHold(c)
    BY <2>1, <2>2 DEF SchedHolds, InferHold
  <2> QED
    BY <2>1, <2>3, <1>f, <1>h
<1>7. CASE SchedWait \/ SchedPost
  <2>1. /\ UNCHANGED <<free, out, gtaskque, inf, cur>> /\ sched # "push" /\ sched' # "push"
    BY <1>7 DEF SchedWait, SchedPost, NextPipe, Top
  <2>2. SchedHolds(c)' = SchedHolds(c) /\ InferHold(c)' = InferHold(c)
    BY <2>1 DEF SchedHolds, InferHold
  <2> QED
    BY <2>1, <2>2, <1>f, <1>h
<1>8. CASE \/ \E e \in Channels : DecPost(e) \/ DecLeave(e)
           \/ DispStep \/ sigint_hanlder \/ MainStop \/ MainJoin \/ UNCHANGED vars
  <2>1. UNCHANGED <<free, out, sched, task, gtaskque, inf, cur>>
    BY <1>8 DEF DecPost, DecLeave, DispStep, DispWait, DispPop, sigint_hanlder, MainStop,
                MainJoin, vars
  <2>2. SchedHolds(c)' = SchedHolds(c) /\ InferHold(c)' = InferHold(c)
    BY <2>1 DEF SchedHolds, InferHold
  <2> QED
    BY <2>1, <2>2, <1>f, <1>h
<1>9. CASE MainCleanup
  BY <1>9 DEF MainCleanup
<1> QED
  BY <1>1, <1>2, <1>3, <1>4, <1>5, <1>6, <1>7, <1>8, <1>9
     DEF Next, DecStep, SchedStep, InferStep

-----------------------------------------------------------------------------
(* Type correctness; that a pipe never has more free buffers than it was    *)
(* made with follows from the accounting.                                   *)

(* Every step keeps the types. *)
LEMMA TypeStep == IInv /\ [Next]_vars => TypeOK'
<1> SUFFICES ASSUME IInv, [Next]_vars PROVE TypeOK'
  OBVIOUS
<1>i. TypeOK /\ Hands /\ Windows /\ AllPooled /\ Joined
  BY DEF IInv
<1>a. /\ out \in [Channels -> Seq(Images)] /\ schedCh \in Channels
      /\ free \in [Channels -> 0 .. NumBuffers]
      /\ gtaskque \in [Devices -> Seq(Images)] /\ cur \in [Devices -> Images \cup {NoTask}]
      /\ imginfoque \in [Devices -> Seq(Images)]
      /\ decoded \in [Channels -> Nat \ {0}] /\ \A c \in Channels : decoded[c] <= Bound(c)
  BY <1>i DEF TypeOK
<1>d. /\ gNewtaskAvaiable \in Nat /\ g_semtshow \in Nat /\ gresultque \in Nat
      /\ gsemtInfer \in [Devices -> Nat]
  BY <1>i DEF TypeOK
<1>1. ASSUME NEW c \in Channels, DecStore(c) PROVE TypeOK'
  <2> DEFINE img == <<c, decoded[c]>>
  <2>1. UNCHANGED <<decoded, gNewtaskAvaiable, schedVars, taskVars, infVars, queVars,
                    g_semtshow, dispVars, mainVars>>
    BY <1>1 DEF DecStore
  <2>2. img \in Images
    <3>1. decoded[c] \in Nat \ {0} /\ decoded[c] <= Bound(c)
      BY <1>a
    <3>2. Bound(c) \in Nat /\ Bound(c) <= MaxFrames + MaxOther /\ MaxFrames + MaxOther \in Nat
      BY Sizes
    <3>3. decoded[c] \in 1 .. MaxFrames + MaxOther
      BY <3>1, <3>2
    <3> QED
      BY <3>3, ImageFacts
  <2>3. dec' \in [Channels -> {"loop", "get", "post", "done"}]
    BY <1>1, <1>i DEF DecStore, DecGoto, TypeOK
  <2>4. out' \in [Channels -> Seq(Images)]
    <3>1. out[c] \in Seq(Images) /\ Append(out[c], img) \in Seq(Images)
          /\ (out[c] # << >> => Append(Tail(out[c]), img) \in Seq(Images))
      <4>1. out[c] \in Seq(Images)
        BY <1>a
      <4>2. out[c] # << >> => Tail(out[c]) \in Seq(Images)
        BY <4>1, PopHead
      <4> QED
        BY <4>1, <4>2, <2>2, PushTail
    <3>2. \/ out' = [out EXCEPT ![c] = Append(out[c], img)]
          \/ out[c] # << >> /\ out' = [out EXCEPT ![c] = Append(Tail(out[c]), img)]
          \/ out' = out
      BY <1>1 DEF DecStore
    <3> QED
      BY <3>1, <3>2, <1>a
  <2>5. free' \in [Channels -> 0 .. NumBuffers]
    <3>1. free' = free \/ (free[c] > 0 /\ free' = [free EXCEPT ![c] = free[c] - 1])
      BY <1>1 DEF DecStore
    <3>2. free[c] > 0 => free[c] - 1 \in 0 .. NumBuffers
      <4>1. free[c] \in 0 .. NumBuffers /\ NumBuffers \in Nat
        BY <1>a, Sizes
      <4> QED
        BY <4>1
    <3> QED
      BY <3>1, <3>2, <1>a
  <2> QED
    BY <1>i, <2>1, <2>3, <2>4, <2>5 DEF TypeOK
<1>2. ASSUME NEW c \in Channels, DecPost(c) \/ DecLeave(c) PROVE TypeOK'
  <2>1. UNCHANGED <<pipeVars, schedVars, taskVars, infVars, queVars, g_semtshow,
                    dispVars, mainVars>>
    BY <1>2 DEF DecPost, DecLeave
  <2>2. dec' \in [Channels -> {"loop", "get", "post", "done"}]
    BY <1>2, <1>i DEF DecPost, DecLeave, DecGoto, TypeOK
  <2>3. gNewtaskAvaiable' \in Nat
    BY <1>2, <1>d DEF DecPost, DecLeave
  <2>4. decoded' \in [Channels -> Nat \ {0}] /\ \A e \in Channels : decoded'[e] <= Bound(e)
    <3>1. decoded' = decoded
            \/ (decoded[c] < Bound(c) /\ decoded' = [decoded EXCEPT ![c] = decoded[c] + 1])
      BY <1>2 DEF DecPost, DecLeave
    <3>2. decoded[c] < Bound(c) => decoded[c] + 1 <= Bound(c) /\ decoded[c] + 1 \in Nat \ {0}
      <4>1. decoded[c] \in Nat \ {0} /\ Bound(c) \in Nat
        BY <1>a, Sizes
      <4> QED
        BY <4>1
    <3> QED
      BY <3>1, <3>2, <1>a
  <2> QED
    BY <1>i, <2>1, <2>2, <2>3, <2>4 DEF TypeOK
<1>3. CASE SchedStep
  <2>1. UNCHANGED <<free, decVars, infVars, queVars, g_semtshow, dispVars, mainVars>>
    BY <1>3 DEF SchedStep, SchedWait, SchedLoad, SchedPush, SchedPost
  <2>2. sched' \in {"wait", "load", "push", "post", "done"} /\ schedCh' \in Channels
    <3>1. NextPipe => sched' \in {"wait", "load", "done"} /\ schedCh' \in Channels
      <4>1. schedCh < NumChannels - 1 => schedCh + 1 \in Channels
        BY <1>a, Sizes DEF Channels
      <4> QED
        BY <4>1, Sizes DEF NextPipe, Top
    <3> QED
      BY <1>3, <3>1, <1>a, Sizes DEF SchedStep, SchedWait, SchedLoad, SchedPush, SchedPost
  <2>3. task' \in Images \cup {NoTask} /\ out' \in [Channels -> Seq(Images)]
    <3>1. out[schedCh] \in Seq(Images)
      BY <1>a
    <3>2. out[schedCh] # << >> => Head(out[schedCh]) \in Images /\ Tail(out[schedCh]) \in Seq(Images)
      BY <3>1, PopHead
    <3>3. \/ task' = task /\ out' = out
          \/ task' = NoTask /\ out' = out
          \/ /\ out[schedCh] # << >> /\ task' = Head(out[schedCh])
             /\ out' = [out EXCEPT ![schedCh] = Tail(out[schedCh])]
      BY <1>3 DEF SchedStep, SchedWait, SchedLoad, SchedPush, SchedPost
    <3>4. task \in Images \cup {NoTask}
      BY <1>i DEF TypeOK
    <3> QED
      BY <3>2, <3>3, <3>4, <1>a
  <2>4. gNewtaskAvaiable' \in Nat
    BY <1>3, <1>d DEF SchedStep, SchedWait, SchedLoad, SchedPush, SchedPost
  <2>5. gtaskque' \in [Devices -> Seq(Images)]
    <3>1. \/ gtaskque' = gtaskque
          \/ /\ sched = "push"
             /\ gtaskque' = [gtaskque EXCEPT ![DeviceFor(schedCh)]
                               = Append(gtaskque[DeviceFor(schedCh)], task)]
      BY <1>3 DEF SchedStep, SchedWait, SchedLoad, SchedPush, SchedPost
    <3>2. DeviceFor(schedCh) \in Devices
      BY <1>a, Sizes
    <3>3. sched = "push" => Append(gtaskque[DeviceFor(schedCh)], task) \in Seq(Images)
      <4>1. gtaskque[DeviceFor(schedCh)] \in Seq(Images)
        BY <3>2, <1>a
      <4>2. sched = "push" => task \in Images
        BY <1>i DEF Hands
      <4> QED
        BY <4>1, <4>2, PushTail
    <3> QED
      BY <3>1, <3>2, <3>3, <1>a
  <2>6. gsemtInfer' \in [Devices -> Nat]
    <3>1. gsemtInfer' = gsemtInfer \/ gsemtInfer' = [gsemtInfer EXCEPT ![DeviceFor(schedCh)] = @ + 1]
      BY <1>3 DEF SchedStep, SchedWait, SchedLoad, SchedPush, SchedPost
    <3> QED
      BY <3>1, <1>d
  <2> QED
    BY <1>i, <2>1, <2>2, <2>3, <2>4, <2>5, <2>6 DEF TypeOK
<1>4. ASSUME NEW d \in Devices, InferWait(d) \/ InferPop(d) \/ InferThrottle(d) PROVE TypeOK'
  <2>1. UNCHANGED <<imginfoque, pipeVars, decVars, gNewtaskAvaiable, schedVars, queVars,
                    g_semtshow, dispVars, mainVars>>
    BY <1>4 DEF InferWait, InferPop, InferThrottle
  <2>2. inf' \in [Devices -> {"wait", "empty", "put", "push", "throttle", "done"}]
    BY <1>4, <1>i DEF InferWait, InferPop, InferThrottle, InfGoto, Top, TypeOK
  <2>3. cur' \in [Devices -> Images \cup {NoTask}] /\ gtaskque' \in [Devices -> Seq(Images)]
    <3>1. gtaskque[d] \in Seq(Images)
      BY <1>a
    <3>2. gtaskque[d] # << >> => Head(gtaskque[d]) \in Images /\ Tail(gtaskque[d]) \in Seq(Images)
      BY <3>1, PopHead
    <3>3. \/ cur' = cur /\ gtaskque' = gtaskque
          \/ /\ gtaskque[d] # << >> /\ cur' = [cur EXCEPT ![d] = Head(gtaskque[d])]
             /\ gtaskque' = [gtaskque EXCEPT ![d] = Tail(gtaskque[d])]
      BY <1>4 DEF InferWait, InferPop, InferThrottle
    <3> QED
      BY <3>2, <3>3, <1>a
  <2>4. gsemtInfer' \in [Devices -> Nat]
    <3>1. gsemtInfer' = gsemtInfer
            \/ (gsemtInfer[d] > 0 /\ gsemtInfer' = [gsemtInfer EXCEPT ![d] = @ - 1])
      BY <1>4 DEF InferWait, InferPop, InferThrottle
    <3> QED
      BY <3>1, <1>d
  <2> QED
    BY <1>i, <2>1, <2>2, <2>3, <2>4 DEF TypeOK
<1>5. ASSUME NEW d \in Devices, InferInsert(d) PROVE TypeOK'
  <2> DEFINE c == cur[d][1]
  <2>1. UNCHANGED <<out, decVars, gNewtaskAvaiable, schedVars, taskVars, queVars,
                    g_semtshow, dispVars, mainVars>> /\ inf[d] = "put"
    BY <1>5 DEF InferInsert
  <2>2. inf' \in [Devices -> {"wait", "empty", "put", "push", "throttle", "done"}]
    BY <1>5, <1>i DEF InferInsert, InfGoto, TypeOK
  <2>3. cur[d] \in Images /\ c \in Channels
    BY <2>1, <1>i, ImageFacts DEF Hands
  <2>4. imginfoque' \in [Devices -> Seq(Images)] /\ cur' \in [Devices -> Images \cup {NoTask}]
    <3>1. imginfoque[d] \in Seq(Images)
      BY <1>a
    <3>2. Append(imginfoque[d], cur[d]) \in Seq(Images)
      BY <3>1, <2>3, PushTail
    <3>3. /\ imginfoque' = [imginfoque EXCEPT ![d] = Append(imginfoque[d], cur[d])]
          /\ cur' = [cur EXCEPT ![d] = NoTask]
      BY <1>5 DEF InferInsert, Inserted
    <3> QED
      BY <3>2, <3>3, <1>a
  <2>5. free[c] + 1 \in 0 .. NumBuffers
    <3>1. main # "exit"
      BY <2>1, <1>i DEF Joined
    <3>2. Pooled(c)
      BY <3>1, <2>3, <1>i DEF AllPooled
    <3>3. d \in InferHold(c)
      BY <2>1 DEF InferHold
    <3>4. Cardinality(InferHold(c)) \in Nat \ {0}
      BY <3>3, HoldFinite, FS_EmptySet, FS_CardinalityType
    <3>5. /\ free[c] \in Nat /\ Len(out[c]) \in Nat /\ SchedHolds(c) \in Nat
          /\ QueuedFor(gtaskque, GPU, c) \in Nat /\ QueuedFor(gtaskque, CPU, c) \in Nat
      <4>1. out[c] \in Seq(Images) /\ gtaskque[GPU] \in Seq(Images) /\ gtaskque[CPU] \in Seq(Images)
        BY <1>a, <2>3, Sizes
      <4>2. free[c] \in Nat /\ SchedHolds(c) \in Nat
        <5>1. free[c] \in 0 .. NumBuffers /\ NumBuffers \in Nat
          BY <1>a, <2>3, Sizes
        <5>2. SchedHolds(c) \in {0, 1}
          BY DEF SchedHolds
        <5> HIDE DEF c
        <5> QED
          BY <5>1, <5>2
      <4> QED
        BY <4>1, <4>2, <2>3, LenProperties, CountAppend DEF QueuedFor
    <3>6. NumBuffers = free[c] + Len(out[c]) + SchedHolds(c) + QueuedFor(gtaskque, GPU, c)
                       + QueuedFor(gtaskque, CPU, c) + Cardinality(InferHold(c))
      BY <3>2 DEF Pooled, Accounted
    <3>7. \A n, f, o, s, g, h \in Nat, k \in Nat \ {0} :
            n = f + o + s + g + h + k => f + 1 \in 0 .. n
      OBVIOUS
    <3> HIDE DEF c
    <3> QED
      BY <3>4, <3>5, <3>6, <3>7, Sizes
  <2>6. free' \in [Channels -> 0 .. NumBuffers]
    <3>1. free' = [free EXCEPT ![c] = free[c] + 1]
      BY <1>5 DEF InferInsert
    <3> QED
      BY <3>1, <2>5, <1>a
  <2> QED
    BY <1>i, <2>1, <2>2, <2>4, <2>6 DEF TypeOK
<1>6. ASSUME NEW d \in Devices, InferResults(d) PROVE TypeOK'
  <2> DEFINE b == Batch(d)
             q == imginfoque[d]
  <2>1. UNCHANGED <<cur, pipeVars, decVars, gNewtaskAvaiable, schedVars, taskVars,
                    dispVars, mainVars>> /\ inf[d] = "push"
    BY <1>6 DEF InferResults
  <2>2. inf' \in [Devices -> {"wait", "empty", "put", "push", "throttle", "done"}]
    BY <1>6, <1>i DEF InferResults, InfGoto, TypeOK
  <2>3. /\ b \in Nat \ {0} /\ q \in Seq(Images) /\ Len(q) = 2 * b
    BY <1>i, <2>1, <1>a, Sizes DEF Windows, Window
  <2>4. \A i \in 1 .. Len(q) : q[i] \in Images
    BY <2>3, ElementOfSeq
  <2> HIDE DEF b, q
  <2>5. /\ SubSeq(q, b + 1, Len(q)) \in Seq(Images)
        /\ SubSeq(q, 1, b) \in Seq(Images) /\ Len(SubSeq(q, 1, b)) = b
    <3>1. /\ \A i \in b + 1 .. Len(q) : q[i] \in Images
          /\ \A i \in 1 .. b : q[i] \in Images
          /\ b \in Int /\ b + 1 \in Int /\ Len(q) \in Int /\ 1 \in Int /\ 1 <= b
      BY <2>3, <2>4
    <3>2. /\ SubSeq(q, b + 1, Len(q)) \in Seq(Images)
          /\ SubSeq(q, 1, b) \in Seq(Images)
          /\ Len(SubSeq(q, 1, b)) = IF 1 <= b THEN b - 1 + 1 ELSE 0
      BY <3>1, SubSeqProperties
    <3> QED
      BY <3>1, <3>2
  <2>6. imginfoque' \in [Devices -> Seq(Images)]
    <3>1. imginfoque' = [imginfoque EXCEPT ![d] = SubSeq(q, b + 1, Len(q))]
      BY <1>6 DEF InferResults, b, q
    <3> QED
      BY <3>1, <2>5, <1>a
  <2>7. g_semtshow' \in Nat /\ gresultque' \in Nat
    BY <1>6, <1>d DEF InferResults
  <2>8. /\ gresultque1' \in Seq(Seq(Images))
        /\ \A i \in 1 .. Len(gresultque1') : Len(gresultque1'[i]) = NUM_OF_CPU_BATCH
    <3>1. \/ gresultque1' = gresultque1
          \/ d # GPU /\ gresultque1' = Append(gresultque1, SubSeq(q, 1, b))
      BY <1>6 DEF InferResults, Results, b, q
    <3>2. /\ gresultque1 \in Seq(Seq(Images))
          /\ \A i \in 1 .. Len(gresultque1) : Len(gresultque1[i]) = NUM_OF_CPU_BATCH
      BY <1>i DEF TypeOK
    <3>3. CASE d # GPU /\ gresultque1' = Append(gresultque1, SubSeq(q, 1, b))
      <4>1. Len(SubSeq(q, 1, b)) = NUM_OF_CPU_BATCH
        BY <3>3, <2>5 DEF b, Batch
      <4>2. /\ gresultque1' \in Seq(Seq(Images)) /\ Len(gresultque1) \in Nat
            /\ Len(gresultque1') = Len(gresultque1) + 1
            /\ \A i \in 1 .. Len(gresultque1) : gresultque1'[i] = gresultque1[i]
            /\ gresultque1'[Len(gresultque1) + 1] = SubSeq(q, 1, b)
        BY <3>2, <3>3, <2>5, PushTail
      <4>3. \A i \in 1 .. Len(gresultque1') : i \in 1 .. Len(gresultque1) \/ i = Len(gresultque1) + 1
        BY <4>2
      <4> QED
        BY <4>1, <4>2, <4>3, <3>2
    <3> QED
      BY <3>1, <3>2, <3>3
  <2> QED
    BY <1>i, <2>1, <2>2, <2>6, <2>7, <2>8 DEF TypeOK
<1>7. CASE DispWait
  <2>1. g_semtshow' \in Nat
    BY <1>7, <1>d DEF DispWait
  <2> QED
    BY <1>7, <1>i, <2>1 DEF DispWait, TypeOK
<1>8. CASE DispPop
  <2>1. UNCHANGED <<pipeVars, decVars, gNewtaskAvaiable, schedVars, taskVars, infVars,
                    g_semtshow, mainVars>> /\ disp' \in {"wait", "pop", "done"}
    BY <1>8 DEF DispPop, Top
  <2>2. gresultque' \in Nat
    BY <1>8, <1>d DEF DispPop
  <2>3. /\ gresultque1 \in Seq(Seq(Images))
        /\ \A i \in 1 .. Len(gresultque1) : Len(gresultque1[i]) = NUM_OF_CPU_BATCH
        /\ dispNum \in 0 .. NUM_OF_CPU_BATCH - 1 /\ shown \in Seq(Images)
    BY <1>i DEF TypeOK
  <2>4. /\ gresultque1' \in Seq(Seq(Images))
        /\ \A i \in 1 .. Len(gresultque1') : Len(gresultque1'[i]) = NUM_OF_CPU_BATCH
        /\ dispNum' \in 0 .. NUM_OF_CPU_BATCH - 1 /\ shown' \in Seq(Images)
    <3>1. CASE UNCHANGED <<gresultque1, dispNum, shown>>
      BY <3>1, <2>3
    <3>2. CASE gresultque1 # << >> /\ Draw1
      <4> DEFINE h == Head(gresultque1)
                 t == Tail(gresultque1)
      <4>1. /\ h = gresultque1[1] /\ h \in Seq(Images) /\ Len(gresultque1) \in Nat \ {0}
            /\ t \in Seq(Seq(Images)) /\ Len(t) = Len(gresultque1) - 1
            /\ \A i \in 1 .. Len(gresultque1) - 1 : t[i] = gresultque1[i + 1]
        BY <3>2, <2>3, PopHead
      <4>2. /\ shown' = Append(shown, h[dispNum + 1])
            /\ dispNum' = (dispNum + 1) % NUM_OF_CPU_BATCH
            /\ gresultque1' = t \/ gresultque1' = gresultque1
        BY <3>2 DEF Draw1
      <4> HIDE DEF h, t
      <4>3. 1 \in 1 .. Len(gresultque1) /\ dispNum + 1 \in 1 .. NUM_OF_CPU_BATCH
        BY SMTT(60), <4>1, <2>3, Sizes
      <4>4. h[dispNum + 1] \in Images
        BY <4>1, <4>3, <2>3, ElementOfSeq
      <4>5. shown' \in Seq(Images)
        BY <4>2, <4>4, <2>3, PushTail
      <4>6. dispNum' \in 0 .. NUM_OF_CPU_BATCH - 1
        <5>1. \A n \in Nat \ {0}, m \in Nat : m % n \in 0 .. n - 1
          OBVIOUS
        <5>2. dispNum + 1 \in Nat /\ NUM_OF_CPU_BATCH \in Nat \ {0}
          BY <2>3, Sizes
        <5> QED
          BY <4>2, <5>1, <5>2
      <4>7. \A i \in 1 .. Len(t) : i + 1 \in 1 .. Len(gresultque1) /\ t[i] = gresultque1[i + 1]
        BY <4>1
      <4> QED
        BY <4>1, <4>2, <4>5, <4>6, <4>7, <2>3
    <3> QED
      BY <1>8, <3>1, <3>2 DEF DispPop, Draw1
  <2> QED
    BY <1>i, <2>1, <2>2, <2>4 DEF TypeOK
<1>9. CASE sigint_hanlder
  BY <1>9, <1>i DEF sigint_hanlder, TypeOK
<1>10. CASE MainStop
  <2>1. /\ gsemtInfer' \in [Devices -> Nat] /\ gNewtaskAvaiable' \in Nat /\ g_semtshow' \in Nat
    BY <1>10, <1>d DEF MainStop
  <2> QED
    BY <1>10, <1>i, <2>1 DEF MainStop, TypeOK
<1>11. CASE MainJoin
  BY <1>11, <1>i DEF MainJoin, TypeOK
<1>12. CASE MainCleanup
  <2>1. free' \in [Channels -> 0 .. NumBuffers] /\ out' \in [Channels -> Seq(Images)]
    <3>1. 0 \in 0 .. NumBuffers /\ << >> \in Seq(Images)
      BY Sizes
    <3> QED
      BY <1>12, <3>1 DEF MainCleanup
  <2> QED
    BY <1>12, <1>i, <2>1 DEF MainCleanup, TypeOK
<1>13. CASE UNCHANGED vars
  BY <1>13, <1>i DEF vars, TypeOK
<1> QED
  BY <1>1, <1>2, <1>3, <1>4, <1>5, <1>6, <1>7, <1>8, <1>9, <1>10, <1>11, <1>12, <1>13
     DEF Next, DecStep, DispStep, InferStep

(* The initial state has the invariant: every buffer is free and each       *)
(* detector has its first batch.                                            *)
LEMMA Initially == Init => IInv
<1> SUFFICES ASSUME Init PROVE IInv
  OBVIOUS
<1>1. /\ imginfoque \in [Devices -> Seq(Images)]
      /\ \A d \in Devices : Len(imginfoque[d]) = Batch(d)
  <2> DEFINE c(d) == IF d = CPU THEN 0 ELSE 1
             w(d) == [i \in 1 .. Batch(d) |-> <<c(d), i>>]
  <2>1. imginfoque = [d \in Devices |-> w(d)]
    BY DEF Init
  <2>2. ASSUME NEW d \in Devices PROVE w(d) \in Seq(Images) /\ Len(w(d)) = Batch(d)
    <3>1. Batch(d) \in Nat /\ c(d) \in Channels
          /\ \A i \in 1 .. Batch(d) : i \in 1 .. MaxFrames + MaxOther
      BY Sizes
    <3>2. \A i \in 1 .. Batch(d) : <<c(d), i>> \in Images
      BY <3>1, ImageFacts
    <3>3. w(d) \in [1 .. Batch(d) -> Images]
      BY <3>2
    <3> HIDE DEF w
    <3> QED
      BY <3>1, <3>3
  <2> HIDE DEF w
  <2> QED
    BY <2>1, <2>2
<1>2. /\ free = [c \in Channels |-> NumBuffers] /\ out = [c \in Channels |-> << >>]
      /\ gtaskque = [d \in Devices |-> << >>] /\ sched = "wait"
      /\ inf = [d \in Devices |-> "wait"]
  BY DEF Init
<1>3. TypeOK
  <2>1. /\ free \in [Channels -> 0 .. NumBuffers] /\ out \in [Channels -> Seq(Images)]
        /\ gtaskque \in [Devices -> Seq(Images)]
    <3>1. NumBuffers \in 0 .. NumBuffers /\ << >> \in Seq(Images)
      BY Sizes
    <3> QED
      BY <3>1, <1>2
  <2>2. decoded \in [Channels -> Nat \ {0}] /\ \A c \in Channels : decoded[c] <= Bound(c)
    <3>1. \A c \in Channels : First(c) + 1 \in Nat \ {0} /\ First(c) + 1 <= Bound(c)
      BY Sizes DEF First, Bound
    <3> QED
      BY <3>1 DEF Init
  <2>3. /\ gresultque1 \in Seq(Seq(Images)) /\ Len(gresultque1) = 0
        /\ shown \in Seq(Images) /\ dispNum \in 0 .. NUM_OF_CPU_BATCH - 1
    BY Sizes DEF Init
  <2>4. /\ gNewtaskAvaiable \in Nat /\ g_semtshow \in Nat /\ gresultque \in Nat
        /\ gsemtInfer \in [Devices -> Nat] /\ schedCh \in Channels
    BY Sizes DEF Init
  <2>5. \A i \in 1 .. Len(gresultque1) : Len(gresultque1[i]) = NUM_OF_CPU_BATCH
    BY <2>3
  <2>6. /\ grunning \in BOOLEAN /\ main = "pause" /\ sched = "wait" /\ task = NoTask
        /\ disp = "wait" /\ inf = [d \in Devices |-> "wait"]
        /\ dec \in [Channels -> {"loop", "get", "post", "done"}]
        /\ cur \in [Devices -> Images \cup {NoTask}]
    BY DEF Init
  <2> QED
    BY <2>1, <2>2, <2>3, <2>4, <2>5, <2>6, <1>1 DEF TypeOK
<1>4. Joined
  BY DEF Init, Joined
<1>5. Hands
  <2>1. \A c \in Channels : Len(out[c]) = 0
    BY <1>2
  <2> QED
    BY <2>1, <1>2 DEF Hands
<1>6. Windows
  <2>1. \A d \in Devices : Batch(d) <= Batch(d) /\ Batch(d) < 2 * Batch(d)
    BY Sizes
  <2> QED
    BY <2>1, <1>1, <1>2 DEF Windows, Window
<1>7. ASSUME NEW c \in Channels PROVE Pooled(c)
  <2>1. free[c] = NumBuffers /\ Len(out[c]) = 0 /\ SchedHolds(c) = 0
    BY <1>2 DEF SchedHolds
  <2>2. InferHold(c) = {}
    BY <1>2 DEF InferHold
  <2>3. \A d \in Devices : OfChannel(gtaskque[d], c) = {}
    BY <1>2 DEF OfChannel
  <2>4. QueuedFor(gtaskque, GPU, c) = 0 /\ QueuedFor(gtaskque, CPU, c) = 0
        /\ Cardinality(InferHold(c)) = 0 /\ IsFiniteSet(InferHold(c))
    BY <2>2, <2>3, FS_EmptySet, Sizes DEF QueuedFor
  <2> QED
    BY <2>1, <2>4, Sizes DEF Pooled, Accounted
<1> QED
  BY <1>3, <1>4, <1>5, <1>6, <1>7 DEF IInv, AllPooled

(* The invariant is inductive. *)
LEMMA Inductive == Spec => []IInv
<1>1. IInv /\ [Next]_vars => IInv'
  BY TypeStep, JoinStep, HandsStep, WindowStep, PoolStep DEF IInv
<1> QED
  BY <1>1, Initially, PTL DEF Spec

(* No buffer of a pipe is lost or returned twice on its way through the     *)
(* scheduler, the task queues and the inference threads, which end while    *)
(* tasks may still be queued.                                               *)
THEOREM BuffersKept == Spec => []BuffersAccounted
<1>1. IInv => BuffersAccounted
  BY DEF IInv, AllPooled, Pooled, Accounted, QueuedFor, BuffersAccounted
<1> QED
  BY <1>1, Inductive, PTL

(* When main destroys pipes and semaphores no thread of the build with      *)
(* workload balance is left.                                                *)
THEOREM ExitsClean == Spec => []CleanExit
<1>1. IInv => CleanExit
  BY DEF IInv, Joined, CleanExit
<1> QED
  BY <1>1, Inductive, PTL

-----------------------------------------------------------------------------
(* Tokens for the tasks. *)

(* The scheduler pushes a task before it posts, an inference thread waits before it pops. *)
LEMMA TaskStep == TypeOK /\ TasksHaveTokens /\ [Next]_vars => TasksHaveTokens'
<1> SUFFICES ASSUME TypeOK, TasksHaveTokens, [Next]_vars, NEW e \in Devices,
                    gtaskque'[e] # << >>, inf'[e] = "wait"
             PROVE  gsemtInfer'[e] > 0 \/ (sched' = "post" /\ DeviceFor(schedCh') = e)
  BY DEF TasksHaveTokens
<1>a. /\ gtaskque \in [Devices -> Seq(Images)] /\ gsemtInfer \in [Devices -> Nat]
      /\ inf \in [Devices -> {"wait", "empty", "put", "push", "throttle", "done"}]
  BY DEF TypeOK
<1>b. gtaskque[e] # << >> /\ inf[e] = "wait" =>
        gsemtInfer[e] > 0 \/ (sched = "post" /\ DeviceFor(schedCh) = e)
  BY DEF TasksHaveTokens
<1>1. CASE UNCHANGED <<gtaskque, inf, gsemtInfer, sched, schedCh>>
  BY <1>1, <1>b
<1>2. CASE SchedWait \/ SchedLoad
  <2>1. UNCHANGED <<gtaskque, inf, gsemtInfer>> /\ sched # "post"
    BY <1>2 DEF SchedWait, SchedLoad
  <2> QED
    BY <2>1, <1>b
<1>3. CASE SchedPush
  <2>1. /\ gtaskque' = [gtaskque EXCEPT ![DeviceFor(schedCh)] = Append(@, task)]
        /\ UNCHANGED <<inf, gsemtInfer, schedCh>> /\ sched = "push" /\ sched' = "post"
    BY <1>3 DEF SchedPush
  <2>2. CASE DeviceFor(schedCh) = e
    BY <2>1, <2>2
  <2>3. CASE DeviceFor(schedCh) # e
    BY <2>1, <2>3, <1>a, <1>b
  <2> QED
    BY <2>2, <2>3
<1>4. CASE SchedPost
  <2>1. /\ gsemtInfer' = [gsemtInfer EXCEPT ![DeviceFor(schedCh)] = gsemtInfer[DeviceFor(schedCh)] + 1]
        /\ UNCHANGED <<gtaskque, inf>>
    BY <1>4 DEF SchedPost
  <2>2. gsemtInfer[e] \in Nat
    BY <1>a
  <2>3. CASE DeviceFor(schedCh) = e
    <3>1. gsemtInfer'[e] = gsemtInfer[e] + 1
      BY <2>1, <2>3, <1>a
    <3> QED
      BY <3>1, <2>2
  <2>4. CASE DeviceFor(schedCh) # e
    BY <2>1, <2>4, <1>a, <1>b
  <2> QED
    BY <2>3, <2>4
<1>5. ASSUME NEW d \in Devices, InferStep(d)
      PROVE  gsemtInfer'[e] > 0 \/ (sched' = "post" /\ DeviceFor(schedCh') = e)
  <2>1. UNCHANGED <<sched, schedCh>>
    BY <1>5 DEF InferStep, InferWait, InferPop, InferInsert, InferResults, InferThrottle
  <2>2. CASE d # e
    <3>1. gtaskque'[e] = gtaskque[e] /\ inf'[e] = inf[e] /\ gsemtInfer'[e] = gsemtInfer[e]
      BY <1>5, <2>2, <1>a DEF InferStep, InferWait, InferPop, InferInsert, InferResults,
                              InferThrottle, InfGoto
    <3> QED
      BY <3>1, <2>1, <1>b
  <2>3. CASE d = e
    <3>1. gtaskque'[e] = << >>
      BY <1>5, <2>3, <1>a DEF InferStep, InferWait, InferPop, InferInsert, InferResults,
                              InferThrottle, InfGoto
    <3> QED
      BY <3>1
  <2> QED
    BY <2>2, <2>3
<1>6. CASE MainStop
  <2>1. gsemtInfer'[e] = gsemtInfer[e] + 1 /\ gsemtInfer[e] \in Nat
    BY <1>6, <1>a DEF MainStop
  <2> QED
    BY <2>1
<1>7. CASE \/ \E c \in Channels : DecStep(c)
           \/ DispStep \/ sigint_hanlder \/ MainJoin \/ MainCleanup \/ UNCHANGED vars
  <2>1. UNCHANGED <<gtaskque, inf, gsemtInfer, sched, schedCh>>
    BY <1>7 DEF DecStep, DecStore, DecPost, DecLeave, DispStep, DispWait, DispPop,
                sigint_hanlder, MainJoin, MainCleanup, vars
  <2> QED
    BY <2>1, <1>1
<1> QED
  BY <1>2, <1>3, <1>4, <1>5, <1>6, <1>7 DEF Next, SchedStep

-----------------------------------------------------------------------------
(* Tokens for the frames. *)

Below(o, n) == Cardinality(StoredIn(o, n))

(* In a round the scheduler has taken a token.  Until it has taken a frame  *)
(* as well there may be one frame more than tokens, but then it is not in   *)
(* the pipes that it has passed.                                            *)
Enough(all, passed, tokens, s) ==
  IF s = "load" THEN all <= tokens \/ (all <= tokens + 1 /\ passed <= tokens)
  ELSE all <= tokens

FramesTokened ==
  Enough(Below(out, NumChannels), Below(out, schedCh),
         gNewtaskAvaiable + Cardinality(Posting(dec)), sched)

Pipes == [Channels -> Seq(Images)]

(* The stored frames are finitely many. *)
LEMMA StoredFinite ==
  ASSUME NEW o \in Pipes, NEW n \in 0 .. NumChannels
  PROVE  IsFiniteSet(StoredIn(o, n)) /\ Below(o, n) \in Nat
<1> DEFINE P(c) == {c} \X (1 .. Len(o[c]))
           U == {P(c) : c \in 0 .. n - 1}
           f == [c \in 0 .. n - 1 |-> P(c)]
<1>1. \A c \in 0 .. n - 1 : Len(o[c]) \in Nat
  <2>1. \A c \in 0 .. n - 1 : c \in Channels
    BY Sizes DEF Channels
  <2>2. \A c \in 0 .. n - 1 : o[c] \in Seq(Images)
    BY <2>1 DEF Pipes
  <2> QED
    BY <2>2, LenProperties
<1>2. \A T \in U : IsFiniteSet(T)
  <2> SUFFICES ASSUME NEW c \in 0 .. n - 1 PROVE IsFiniteSet(P(c))
    OBVIOUS
  <2>1. IsFiniteSet({c})
    BY FS_Singleton
  <2>2. IsFiniteSet(1 .. Len(o[c]))
    BY <1>1, 1 \in Int, Len(o[c]) \in Int, FS_Interval
  <2> QED
    BY <2>1, <2>2, FS_Product
<1>3. f \in Surjection(0 .. n - 1, U)
  BY DEF Surjection
<1>4. IsFiniteSet(0 .. n - 1)
  BY 0 \in Int, n - 1 \in Int, FS_Interval, Sizes
<1>5. IsFiniteSet(U)
  BY <1>3, <1>4, FS_Surjection
<1>6. IsFiniteSet(UNION U)
  BY <1>2, <1>5, FS_UNION
<1>7. StoredIn(o, n) = UNION U
  BY DEF StoredIn
<1> HIDE DEF U
<1> QED
  BY <1>6, <1>7, FS_CardinalityType DEF Below

(* What is stored in the first pipes, by element. *)
LEMMA StoredElement ==
  ASSUME NEW o, NEW n \in 0 .. NumChannels, NEW x
  PROVE  x \in StoredIn(o, n) <=> 
           \E c \in 0 .. n - 1 : \E i \in 1 .. Len(o[c]) : x = <<c, i>>
BY DEF StoredIn

(* One frame more in the pipe c counts if the pipe is one of those. *)
LEMMA StoredMore ==
  ASSUME NEW o \in Pipes, NEW p \in Pipes, NEW n \in 0 .. NumChannels, NEW c \in Channels,
         Len(p[c]) = Len(o[c]) + 1,
         \A e \in Channels : e # c => Len(p[e]) = Len(o[e])
  PROVE  Below(p, n) = Below(o, n) + (IF c < n THEN 1 ELSE 0)
<1>1. /\ \A e \in 0 .. n - 1 : e \in Channels
      /\ \A e \in Channels : Len(o[e]) \in Nat
      /\ c \in Nat /\ n \in Nat
  <2>1. \A e \in Channels : o[e] \in Seq(Images)
    BY DEF Pipes
  <2>2. \A e \in Channels : Len(o[e]) \in Nat
    BY <2>1, LenProperties
  <2> QED
    BY <2>2, Sizes DEF Channels
<1> DEFINE x == <<c, Len(o[c]) + 1>>
<1>2. x \notin StoredIn(o, n)
  BY <1>1, StoredElement
<1>3. CASE c < n
  <2>1. c \in 0 .. n - 1
    BY <1>1, <1>3
  <2>2. ASSUME NEW y PROVE y \in StoredIn(p, n) <=> y \in StoredIn(o, n) \/ y = x
    <3>1. ASSUME NEW e \in 0 .. n - 1, NEW i \in 1 .. Len(p[e]), y = <<e, i>>
          PROVE  y \in StoredIn(o, n) \/ y = x
      <4>1. i \in 1 .. Len(o[e]) \/ (e = c /\ i = Len(o[c]) + 1)
        BY <1>1
      <4> QED
        BY <3>1, <4>1, StoredElement
    <3>2. ASSUME NEW e \in 0 .. n - 1, NEW i \in 1 .. Len(o[e]), y = <<e, i>>
          PROVE  y \in StoredIn(p, n)
      <4>1. i \in 1 .. Len(p[e])
        BY <1>1
      <4> QED
        BY <3>2, <4>1, StoredElement
    <3>3. y = x => y \in StoredIn(p, n)
      <4>1. Len(o[c]) + 1 \in 1 .. Len(p[c])
        BY <1>1
      <4> QED
        BY <4>1, <2>1, StoredElement
    <3> QED
      BY <3>1, <3>2, <3>3, StoredElement
  <2>3. StoredIn(p, n) = StoredIn(o, n) \cup {x}
    BY <2>2
  <2>4. Cardinality(StoredIn(o, n) \cup {x}) = Cardinality(StoredIn(o, n)) + 1
    BY <1>2, StoredFinite, FS_AddElement
  <2> QED
    BY <2>3, <2>4, <1>3 DEF Below
<1>4. CASE ~(c < n)
  <2>1. \A e \in 0 .. n - 1 : Len(p[e]) = Len(o[e])
    BY <1>1, <1>4
  <2>2. StoredIn(p, n) = StoredIn(o, n)
    BY <2>1 DEF StoredIn
  <2>3. Below(o, n) \in Nat
    BY StoredFinite
  <2> QED
    BY <2>2, <2>3, <1>4 DEF Below
<1> QED
  BY <1>3, <1>4

(* Only the lengths count; an empty pipe counts for nothing. *)
LEMMA StoredSame ==
  ASSUME NEW o, NEW p, NEW n \in 0 .. NumChannels,
         \A e \in Channels : Len(p[e]) = Len(o[e])
  PROVE  Below(p, n) = Below(o, n)
<1>1. \A e \in 0 .. n - 1 : Len(p[e]) = Len(o[e])
  BY Sizes DEF Channels
<1> QED
  BY <1>1 DEF Below, StoredIn

(* A channel with an empty pipe adds nothing to the stored frames counted below it. *)
LEMMA StoredNone ==
  ASSUME NEW o
  PROVE  /\ Below(o, 0) = 0
         /\ \A n \in 0 .. NumChannels - 1 : Len(o[n]) = 0 => Below(o, n + 1) = Below(o, n)
<1>1. StoredIn(o, 0) = {}
  BY DEF StoredIn
<1>2. ASSUME NEW n \in 0 .. NumChannels - 1, Len(o[n]) = 0
      PROVE  StoredIn(o, n + 1) = StoredIn(o, n)
  <2>0. n \in 0 .. NumChannels /\ n + 1 \in 0 .. NumChannels
    BY Sizes
  <2>1. \A y : y \in StoredIn(o, n + 1) <=> y \in StoredIn(o, n)
    <3> SUFFICES ASSUME NEW y PROVE y \in StoredIn(o, n + 1) <=> y \in StoredIn(o, n)
      OBVIOUS
    <3>1. ASSUME NEW e \in 0 .. n + 1 - 1, NEW i \in 1 .. Len(o[e]), y = <<e, i>>
          PROVE  y \in StoredIn(o, n)
      <4>1. e # n
        BY <1>2
      <4>2. e \in 0 .. n - 1
        BY <4>1
      <4> QED
        BY <4>2, <3>1, <2>0, StoredElement
    <3>2. ASSUME NEW e \in 0 .. n - 1, NEW i \in 1 .. Len(o[e]), y = <<e, i>>
          PROVE  y \in StoredIn(o, n + 1)
      <4>1. e \in 0 .. n + 1 - 1
        OBVIOUS
      <4> QED
        BY <4>1, <3>2, <2>0, StoredElement
    <3> QED
      BY <3>1, <3>2, <2>0, StoredElement
  <2> QED
    BY <2>1
<1> QED
  BY <1>1, <1>2, FS_EmptySet DEF Below

(* A decoder stores before it posts, and the scheduler's scan takes one stored frame per
   token it consumed. *)
LEMMA FrameStep == TypeOK /\ TypeOK' /\ FramesTokened /\ [Next]_vars => FramesTokened'
<1> SUFFICES ASSUME TypeOK, TypeOK', FramesTokened, [Next]_vars PROVE FramesTokened'
  OBVIOUS
<1>a. /\ out \in Pipes /\ out' \in Pipes /\ schedCh \in Channels /\ gNewtaskAvaiable \in Nat
      /\ dec \in [Channels -> {"loop", "get", "post", "done"}]
  BY DEF TypeOK, Pipes
<1>b. schedCh \in 0 .. NumChannels - 1 /\ schedCh \in 0 .. NumChannels
      /\ NumChannels \in 0 .. NumChannels /\ 0 \in 0 .. NumChannels
      /\ \A c \in Channels : c < NumChannels /\ c \in Nat
  BY <1>a, Sizes DEF Channels
<1>c. IsFiniteSet(Posting(dec)) /\ Cardinality(Posting(dec)) \in Nat
  <2>1. IsFiniteSet(0 .. NumChannels - 1)
    <3>1. 0 \in Int /\ NumChannels - 1 \in Int
      BY Sizes
    <3> QED
      BY <3>1, FS_Interval
  <2>2. Posting(dec) \subseteq 0 .. NumChannels - 1
    BY DEF Posting, Channels
  <2> QED
    BY <2>1, <2>2, FS_Subset, FS_CardinalityType
<1>d. PICK a \in Nat, l \in Nat, n \in Nat, k \in Nat :
        /\ a = Below(out, NumChannels) /\ l = Below(out, schedCh)
        /\ n = gNewtaskAvaiable /\ k = Cardinality(Posting(dec))
  BY <1>a, <1>b, <1>c, StoredFinite
<1>e. Enough(a, l, n + k, sched)
  BY <1>d DEF FramesTokened
<1>l. /\ \A c \in Channels : Len(out[c]) \in Nat
      /\ \A c \in Channels : out[c] # << >> => Len(Tail(out[c])) = Len(out[c]) - 1
      /\ \A c \in Channels : out[c] = << >> => Len(out[c]) = 0
  <2>1. \A c \in Channels : out[c] \in Seq(Images)
    BY <1>a DEF Pipes
  <2> QED
    BY <2>1, LenProperties, PopHead
<1>1. ASSUME NEW c \in Channels, DecStore(c) PROVE FramesTokened'
  <2> DEFINE img == <<c, decoded[c]>>
  <2>1. UNCHANGED <<gNewtaskAvaiable, sched, schedCh>> /\ dec[c] = "get"
    BY <1>1 DEF DecStore
  <2>2. ASSUME dec' = [dec EXCEPT ![c] = "post"] PROVE Cardinality(Posting(dec')) = k + 1
    <3>1. Posting(dec') = Posting(dec) \cup {c} /\ c \notin Posting(dec)
      BY <2>1, <2>2, <1>a DEF Posting
    <3> QED
      BY <3>1, <1>c, <1>d, FS_AddElement
  <2>3. img \in Images
    <3>1. decoded[c] \in Nat \ {0} /\ decoded[c] <= Bound(c)
      BY DEF TypeOK
    <3>2. Bound(c) \in Nat /\ Bound(c) <= MaxFrames + MaxOther /\ MaxFrames + MaxOther \in Nat
      BY Sizes
    <3>3. decoded[c] \in 1 .. MaxFrames + MaxOther
      BY <3>1, <3>2
    <3> QED
      BY <3>3, ImageFacts
  <2>4. out[c] \in Seq(Images)
    BY <1>a DEF Pipes
  <2>5. CASE /\ out' = [out EXCEPT ![c] = Append(out[c], img)]
             /\ dec' = [dec EXCEPT ![c] = "post"]
    <3>1. Len(out'[c]) = Len(out[c]) + 1 /\ \A e \in Channels : e # c => Len(out'[e]) = Len(out[e])
      <4>1. out'[c] = Append(out[c], img) /\ \A e \in Channels : e # c => out'[e] = out[e]
        BY <2>5, <1>a DEF Pipes
      <4>2. Len(Append(out[c], img)) = Len(out[c]) + 1
        BY <2>3, <2>4, PushTail
      <4> QED
        BY <4>1, <4>2
    <3>2. /\ Below(out', NumChannels) = Below(out, NumChannels) + (IF c < NumChannels THEN 1 ELSE 0)
          /\ Below(out', schedCh) = Below(out, schedCh) + (IF c < schedCh THEN 1 ELSE 0)
      BY <3>1, <1>a, <1>b, StoredMore
    <3>3. PICK m \in {0, 1} : m = IF c < schedCh THEN 1 ELSE 0
      OBVIOUS
    <3>4. Below(out', NumChannels) = a + 1 /\ Below(out', schedCh) = l + m
      BY <3>2, <3>3, <1>b, <1>d
    <3>5. Enough(a + 1, l + m, n + (k + 1), sched)
      BY <1>e DEF Enough
    <3>6. Cardinality(Posting(dec')) = k + 1
      BY <2>2, <2>5
    <3> QED
      BY <3>4, <3>5, <3>6, <2>1, <1>d DEF FramesTokened
  <2>6. CASE /\ out[c] # << >> /\ out' = [out EXCEPT ![c] = Append(Tail(out[c]), img)]
             /\ dec' = [dec EXCEPT ![c] = "post"]
    <3>1. \A e \in Channels : Len(out'[e]) = Len(out[e])
      <4>1. out'[c] = Append(Tail(out[c]), img) /\ \A e \in Channels : e # c => out'[e] = out[e]
        BY <2>6, <1>a DEF Pipes
      <4>2. /\ Tail(out[c]) \in Seq(Images) /\ Len(Tail(out[c])) = Len(out[c]) - 1
            /\ Len(out[c]) \in Nat
        BY <2>4, <2>6, PopHead
      <4>3. Len(Append(Tail(out[c]), img)) = Len(Tail(out[c])) + 1
        BY <2>3, <4>2, PushTail
      <4>4. Len(out'[c]) = Len(out[c])
        BY <4>1, <4>2, <4>3
      <4> QED
        BY <4>1, <4>4
    <3>2. Below(out', NumChannels) = a /\ Below(out', schedCh) = l
      BY <3>1, <1>b, <1>d, StoredSame
    <3>3. Enough(a, l, n + (k + 1), sched)
      BY <1>e DEF Enough
    <3>4. Cardinality(Posting(dec')) = k + 1
      BY <2>2, <2>6
    <3> QED
      BY <3>2, <3>3, <3>4, <2>1, <1>d DEF FramesTokened
  <2>7. CASE out' = out /\ dec' = [dec EXCEPT ![c] = "done"]
    <3>1. Posting(dec') = Posting(dec)
      BY <2>1, <2>7, <1>a DEF Posting
    <3> QED
      BY <2>1, <2>7, <3>1, <1>d, <1>e DEF FramesTokened
  <2> QED
    BY <1>1, <2>5, <2>6, <2>7 DEF DecStore, DecGoto
<1>2. ASSUME NEW c \in Channels, DecPost(c) PROVE FramesTokened'
  <2>1. /\ UNCHANGED <<out, sched, schedCh>> /\ dec[c] = "post"
        /\ gNewtaskAvaiable' = gNewtaskAvaiable + 1
        /\ \E x \in {"get", "loop", "done"} : dec' = [dec EXCEPT ![c] = x]
    BY <1>2 DEF DecPost, DecGoto
  <2>2. Posting(dec') = Posting(dec) \ {c} /\ c \in Posting(dec)
    BY <2>1, <1>a DEF Posting
  <2>3. Cardinality(Posting(dec')) = k - 1
    BY <2>2, <1>c, <1>d, FS_RemoveElement
  <2>4. Enough(a, l, (n + 1) + (k - 1), sched)
    BY <1>e DEF Enough
  <2> QED
    BY <2>1, <2>3, <2>4, <1>d DEF FramesTokened
<1>3. ASSUME NEW c \in Channels, DecLeave(c) PROVE FramesTokened'
  <2>1. /\ UNCHANGED <<out, sched, schedCh, gNewtaskAvaiable>> /\ dec[c] = "loop"
        /\ dec' = [dec EXCEPT ![c] = "done"]
    BY <1>3 DEF DecLeave, DecGoto
  <2>2. Posting(dec') = Posting(dec)
    BY <2>1, <1>a DEF Posting
  <2> QED
    BY <2>1, <2>2, <1>d, <1>e DEF FramesTokened
<1>4. CASE SchedWait
  <2>1. /\ UNCHANGED <<out, dec>> /\ sched = "wait" /\ gNewtaskAvaiable > 0
        /\ gNewtaskAvaiable' = gNewtaskAvaiable - 1 /\ sched' = "load" /\ schedCh' = 0
    BY <1>4 DEF SchedWait
  <2>2. Below(out, 0) = 0
    BY StoredNone
  <2>3. Enough(a, 0, (n - 1) + k, "load")
    <3>1. a <= n + k /\ n > 0
      BY <2>1, <1>d, <1>e DEF Enough
    <3>2. a <= ((n - 1) + k) + 1 /\ 0 <= (n - 1) + k
      BY <3>1
    <3> QED
      BY <3>2 DEF Enough
  <2> QED
    BY <2>1, <2>2, <2>3, <1>d DEF FramesTokened
<1>n. ASSUME NextPipe, a <= n + k \/ (a <= n + k + 1 /\ Below(out, schedCh + 1) <= n + k),
             UNCHANGED <<out, dec, gNewtaskAvaiable>>
      PROVE  FramesTokened'
  <2>1. CASE schedCh < NumChannels - 1
    <3>1. sched' = "load" /\ schedCh' = schedCh + 1
      BY <1>n, <2>1 DEF NextPipe
    <3>2. Enough(a, Below(out, schedCh + 1), n + k, "load")
      BY <1>n DEF Enough
    <3> QED
      BY <3>1, <3>2, <1>n, <1>d DEF FramesTokened
  <2>2. CASE ~(schedCh < NumChannels - 1)
    <3>1. sched' # "load"
      BY <1>n, <2>2 DEF NextPipe, Top
    <3>2. schedCh + 1 = NumChannels
      BY <2>2, <1>b, Sizes
    <3>3. a <= n + k
      BY <3>2, <1>n, <1>d
    <3>4. \A x : Enough(a, x, n + k, sched')
      BY <3>1, <3>3 DEF Enough
    <3> QED
      BY <3>4, <1>n, <1>d DEF FramesTokened
  <2> QED
    BY <2>1, <2>2
<1>5. CASE SchedLoad
  <2>1. UNCHANGED <<dec, gNewtaskAvaiable>> /\ sched = "load"
    BY <1>5 DEF SchedLoad
  <2>2. CASE out[schedCh] # << >>
    <3>1. /\ out' = [out EXCEPT ![schedCh] = Tail(out[schedCh])] /\ sched' = "push"
      BY <1>5, <2>2 DEF SchedLoad
    <3>2. out'[schedCh] = Tail(out[schedCh]) /\ \A e \in Channels : e # schedCh => out'[e] = out[e]
      BY <3>1, <1>a DEF Pipes
    <3>3. Len(out[schedCh]) = Len(out'[schedCh]) + 1
      BY <3>2, <2>2, <1>a, <1>l
    <3>4. Below(out, NumChannels) = Below(out', NumChannels) + (IF schedCh < NumChannels THEN 1 ELSE 0)
      <4>1. \A e \in Channels : e # schedCh => Len(out[e]) = Len(out'[e])
        BY <3>2
      <4> QED
        BY <3>3, <4>1, <1>a, <1>b, StoredMore
    <3>5. Below(out', NumChannels) \in Nat
      BY <1>a, <1>b, StoredFinite
    <3>6. a = Below(out', NumChannels) + 1
      BY <3>4, <1>a, <1>b, <1>d
    <3>7. a <= n + k + 1
      BY <2>1, <1>e DEF Enough
    <3>8. Below(out', NumChannels) <= n + k
      BY <3>5, <3>6, <3>7
    <3> QED
      BY <3>1, <3>8, <2>1, <1>d DEF FramesTokened, Enough
  <2>3. CASE out[schedCh] = << >>
    <3>1. NextPipe /\ UNCHANGED out
      BY <1>5, <2>3 DEF SchedLoad
    <3>2. Below(out, schedCh + 1) = l
      <4>1. Len(out[schedCh]) = 0
        BY <2>3, <1>a, <1>l
      <4> QED
        BY <4>1, <1>b, <1>d, StoredNone
    <3>3. a <= n + k \/ (a <= n + k + 1 /\ Below(out, schedCh + 1) <= n + k)
      BY <3>2, <2>1, <1>e DEF Enough
    <3> QED
      BY <3>1, <3>3, <2>1, <1>n
  <2> QED
    BY <2>2, <2>3
<1>6. CASE SchedPush
  <2>1. UNCHANGED <<out, dec, gNewtaskAvaiable, schedCh>> /\ sched = "push" /\ sched' = "post"
    BY <1>6 DEF SchedPush
  <2> QED
    BY <2>1, <1>d, <1>e DEF FramesTokened, Enough
<1>7. CASE SchedPost
  <2>1. UNCHANGED <<out, dec, gNewtaskAvaiable>> /\ sched = "post" /\ NextPipe
    BY <1>7 DEF SchedPost
  <2>2. a <= n + k
    BY <2>1, <1>e DEF Enough
  <2> QED
    BY <2>1, <2>2, <1>n
<1>8. CASE MainStop
  <2>1. UNCHANGED <<out, dec, sched, schedCh>> /\ gNewtaskAvaiable' = gNewtaskAvaiable + 1
    BY <1>8 DEF MainStop
  <2>2. Enough(a, l, (n + 1) + k, sched)
    BY <1>e DEF Enough
  <2> QED
    BY <2>1, <2>2, <1>d DEF FramesTokened
<1>9. CASE MainCleanup
  <2>1. /\ UNCHANGED <<dec, sched, schedCh, gNewtaskAvaiable>>
        /\ out' = [c \in Channels |-> << >>]
    BY <1>9 DEF MainCleanup
  <2>2. StoredIn(out', NumChannels) = {}
    <3>1. \A c \in 0 .. NumChannels - 1 : Len(out'[c]) = 0
      BY <2>1 DEF Channels
    <3> QED
      BY <3>1 DEF StoredIn
  <2>3. Below(out', NumChannels) = 0
    BY <2>2, FS_EmptySet DEF Below
  <2>4. \A x : Enough(0, x, n + k, sched)
    BY DEF Enough
  <2> QED
    BY <2>1, <2>3, <2>4, <1>d DEF FramesTokened
<1>10. CASE \/ \E d \in Devices : InferStep(d)
            \/ DispStep \/ sigint_hanlder \/ MainJoin \/ UNCHANGED vars
  <2>1. UNCHANGED <<out, dec, sched, schedCh, gNewtaskAvaiable>>
    BY <1>10 DEF InferStep, InferWait, InferPop, InferInsert, InferResults, InferThrottle,
                 DispStep, DispWait, DispPop, sigint_hanlder, MainJoin, vars
  <2> QED
    BY <2>1 DEF FramesTokened
<1> QED
  BY <1>1, <1>2, <1>3, <1>4, <1>5, <1>6, <1>7, <1>8, <1>9, <1>10 DEF Next, DecStep, SchedStep

LEMMA TokensInductive == Spec => [](TasksHaveTokens /\ FramesTokened)
<1>1. Init => TasksHaveTokens /\ FramesTokened
  <2> SUFFICES ASSUME Init PROVE TasksHaveTokens /\ FramesTokened
    OBVIOUS
  <2>1. TasksHaveTokens
    BY DEF Init, TasksHaveTokens
  <2>2. StoredIn(out, NumChannels) = {}
    <3>1. \A c \in 0 .. NumChannels - 1 : Len(out[c]) = 0
      BY DEF Init, Channels
    <3> QED
      BY <3>1 DEF StoredIn
  <2>3. Below(out, NumChannels) = 0
    BY <2>2, FS_EmptySet DEF Below
  <2>4. Posting(dec) = {}
    BY DEF Init, Posting
  <2>5. gNewtaskAvaiable + Cardinality(Posting(dec)) = 0 /\ sched = "wait"
    <3>1. Cardinality(Posting(dec)) = 0
      BY <2>4, FS_EmptySet
    <3>2. gNewtaskAvaiable = 0 /\ sched = "wait"
      BY DEF Init
    <3> QED
      BY <3>1, <3>2
  <2> QED
    BY <2>1, <2>3, <2>5 DEF FramesTokened, Enough
<1>2. /\ IInv /\ IInv' /\ FramesTokened /\ [Next]_vars => FramesTokened'
      /\ IInv /\ TasksHaveTokens /\ [Next]_vars => TasksHaveTokens'
  BY FrameStep, TaskStep DEF IInv
<1> QED
  BY <1>1, <1>2, Inductive, PTL DEF Spec

(* A round of the scheduler takes one token and up to one frame of each     *)
(* pipe without waiting, an inference thread all tasks for one token: for   *)
(* any number of channels neither sleeps on what it was handed.             *)
THEOREM NothingStranded == Spec => []TokensKept
<1>1. TasksHaveTokens /\ FramesTokened => TokensKept
  BY DEF TokensKept, FramesHaveTokens, FramesTokened, Enough, Below
<1> QED
  BY <1>1, TokensInductive, PTL

-----------------------------------------------------------------------------
(* The order in which images are drawn.  The images of channel 0 pass eight *)
(* places, the first of which is the screen; each keeps them in the order   *)
(* of the stream, and all images of a place are behind those of the places  *)
(* before it.                                                               *)

Nums(s)   == {s[i][2] : i \in 1 .. Len(s)}
Rising(s) == \A i, j \in 1 .. Len(s) : i < j => s[i][2] < s[j][2]
Zero(s)   == \A i \in 1 .. Len(s) : s[i][1] = 0

(* The images of the queued batches q, n of the first of which are drawn. *)
Undrawn(q, n, i, a) == i \in 1 .. Len(q) /\ a \in {1, 2} /\ (i > 1 \/ a > n)

NumsQ(q, n)   == {y \in Nat : \E i \in 1 .. Len(q), a \in {1, 2} :
                                Undrawn(q, n, i, a) /\ y = q[i][a][2]}
RisingQ(q, n) == \A i, j \in 1 .. Len(q), a, b \in {1, 2} :
                   /\ Undrawn(q, n, i, a) /\ Undrawn(q, n, j, b)
                   /\ i < j \/ (i = j /\ a < b)
                   => q[i][a][2] < q[j][b][2]
ZeroQ(q, n)   == \A i \in 1 .. Len(q), a \in {1, 2} : Undrawn(q, n, i, a) => q[i][a][1] = 0

Places == 1 .. 8

(* The numbers in the places S rise from each place to the next, up to n. *)
Ordered(S, n) ==
  /\ \A k \in Places : \A x \in S[k] : x \in Nat /\ x <= n
  /\ \A k, m \in Places : k < m => \A x \in S[k], y \in S[m] : x < y

(* The first images of a place may go on to the place before it, and images *)
(* may be dropped anywhere.                                                 *)
LEMMA MoveOn ==
  ASSUME NEW S, NEW R, NEW n, Ordered(S, n), NEW k \in 1 .. 7, NEW X,
         \A x \in X : x \in S[k + 1] /\ \A y \in R[k + 1] : x < y,
         \A x \in R[k] : x \in S[k] \/ x \in X,
         \A j \in Places : j # k => \A x \in R[j] : x \in S[j]
  PROVE  Ordered(R, n)
<1>1. k \in Places /\ k + 1 \in Places
  BY DEF Places
<1>2. \A j \in Places : \A x \in R[j] : x \in Nat /\ x <= n
  <2> SUFFICES ASSUME NEW j \in Places, NEW x \in R[j] PROVE x \in Nat /\ x <= n
    OBVIOUS
  <2>1. x \in S[j] \/ x \in S[k + 1]
    OBVIOUS
  <2> QED
    BY <2>1, <1>1 DEF Ordered
<1>3. ASSUME NEW i \in Places, NEW j \in Places, i < j, NEW x \in R[i], NEW y \in R[j]
      PROVE  x < y
  <2>1. CASE x \in S[i] /\ y \in S[j]
    BY <2>1, <1>3 DEF Ordered
  <2>2. CASE i = k /\ x \in X
    <3>1. y \in S[j]
      BY <2>2, <1>3
    <3>2. CASE j = k + 1
      BY <2>2, <3>2
    <3>3. CASE j # k + 1
      <4>1. k + 1 < j
        BY <2>2, <3>3, <1>3 DEF Places
      <4> QED
        BY <4>1, <3>1, <2>2, <1>1 DEF Ordered
    <3> QED
      BY <3>2, <3>3
  <2>3. CASE j = k /\ y \in X
    <3>1. x \in S[i] /\ i < k + 1 /\ y \in S[k + 1]
      BY <2>3, <1>3 DEF Places
    <3> QED
      BY <3>1, <1>1 DEF Ordered
  <2> QED
    BY <2>1, <2>2, <2>3, <1>3
<1> QED
  BY <1>2, <1>3 DEF Ordered

(* Dropping numbers from the places keeps the order of the rest. *)
LEMMA DropSome ==
  ASSUME NEW S, NEW R, NEW n, Ordered(S, n),
         \A j \in Places : \A x \in R[j] : x \in S[j]
  PROVE  Ordered(R, n)
BY DEF Ordered

(* The next image is behind all others. *)
LEMMA NextImage ==
  ASSUME NEW S, NEW R, NEW n \in Nat, Ordered(S, n),
         \A j \in 1 .. 7 : \A x \in R[j] : x \in S[j],
         \A x \in R[8] : x = n + 1
  PROVE  Ordered(R, n + 1)
<1>1. \A j \in Places : j \in 1 .. 7 \/ j = 8
  BY DEF Places
<1>2. \A j \in 1 .. 7 : j \in Places
  BY DEF Places
<1>3. \A j \in Places : \A x \in R[j] : x \in Nat /\ x <= n + 1
  <2> SUFFICES ASSUME NEW j \in Places, NEW x \in R[j] PROVE x \in Nat /\ x <= n + 1
    OBVIOUS
  <2>1. CASE j = 8
    BY <2>1
  <2>2. CASE j \in 1 .. 7
    <3>1. x \in Nat /\ x <= n
      BY <2>2, <1>2 DEF Ordered
    <3> QED
      BY <3>1
  <2> QED
    BY <1>1, <2>1, <2>2
<1>4. ASSUME NEW i \in Places, NEW j \in Places, i < j, NEW x \in R[i], NEW y \in R[j]
      PROVE  x < y
  <2>1. i \in 1 .. 7 /\ x \in S[i]
    BY <1>4, <1>1 DEF Places
  <2>2. x \in Nat /\ x <= n
    BY <2>1, <1>2 DEF Ordered
  <2>3. CASE j = 8
    <3>1. y = n + 1
      BY <2>3
    <3> QED
      BY <2>2, <3>1
  <2>4. CASE j \in 1 .. 7
    BY <2>1, <2>4, <1>2, <1>4 DEF Ordered
  <2> QED
    BY <1>1, <2>3, <2>4
<1> QED
  BY <1>3, <1>4 DEF Ordered

(* Taking the first image of a queue. *)
LEMMA PopRising ==
  ASSUME NEW s \in Seq(Images), s # << >>, Rising(s)
  PROVE  /\ Rising(Tail(s)) /\ (Zero(s) => Zero(Tail(s)) /\ Head(s)[1] = 0)
         /\ Head(s) \in Images /\ Head(s)[2] \in Nums(s) /\ Tail(s) \in Seq(Images)
         /\ \A y \in Nums(Tail(s)) : y \in Nums(s) /\ Head(s)[2] < y
<1>1. /\ Head(s) \in Images /\ Tail(s) \in Seq(Images) /\ Len(s) \in Nat \ {0}
      /\ Len(Tail(s)) = Len(s) - 1 /\ Head(s) = s[1]
      /\ \A i \in 1 .. Len(s) - 1 : Tail(s)[i] = s[i + 1]
  BY PopHead
<1> DEFINE t == Tail(s)
<1>2. /\ 1 \in 1 .. Len(s)
      /\ \A i \in 1 .. Len(t) : i + 1 \in 1 .. Len(s) /\ t[i] = s[i + 1] /\ 1 < i + 1
      /\ \A i, j \in 1 .. Len(t) : i < j => i + 1 < j + 1
  BY <1>1
<1> HIDE DEF t
<1>3. Rising(t)
  BY <1>2 DEF Rising
<1>4. Zero(s) => Zero(t) /\ Head(s)[1] = 0
  BY <1>1, <1>2 DEF Zero
<1>5. Head(s)[2] \in Nums(s)
  BY <1>1, <1>2 DEF Nums
<1>6. \A y \in Nums(t) : y \in Nums(s) /\ Head(s)[2] < y
  <2> SUFFICES ASSUME NEW i \in 1 .. Len(t) PROVE t[i][2] \in Nums(s) /\ Head(s)[2] < t[i][2]
    BY DEF Nums
  <2> QED
    BY <1>1, <1>2 DEF Nums, Rising
<1> QED
  BY <1>1, <1>3, <1>4, <1>5, <1>6 DEF t

(* Appending an image that is behind those of the queue. *)
LEMMA PushRising ==
  ASSUME NEW s \in Seq(Images), NEW f \in Images, Rising(s), \A y \in Nums(s) : y < f[2]
  PROVE  /\ Rising(Append(s, f)) /\ (Zero(s) /\ f[1] = 0 => Zero(Append(s, f)))
         /\ \A y \in Nums(Append(s, f)) : y \in Nums(s) \/ y = f[2]
<1> DEFINE t == Append(s, f)
           n == Len(s)
<1>1. /\ n \in Nat /\ Len(t) = n + 1 /\ \A i \in 1 .. n : t[i] = s[i]
      /\ t[n + 1] = f
  BY PushTail
<1> HIDE DEF t
<1>2. /\ \A i \in 1 .. Len(t) : i \in 1 .. n \/ i = n + 1
      /\ \A i, j \in 1 .. Len(t) : i < j => i \in 1 .. n
  BY <1>1
<1>3. Rising(t)
  <2> SUFFICES ASSUME NEW i \in 1 .. Len(t), NEW j \in 1 .. Len(t), i < j
               PROVE  t[i][2] < t[j][2]
    BY DEF Rising
  <2>1. i \in 1 .. n /\ t[i] = s[i] /\ s[i][2] \in Nums(s)
    BY <1>1, <1>2 DEF Nums
  <2>2. CASE j \in 1 .. n
    BY <1>1, <2>1, <2>2 DEF Rising
  <2>3. CASE j = n + 1
    BY <1>1, <2>1, <2>3
  <2> QED
    BY <1>2, <2>2, <2>3
<1>4. Zero(s) /\ f[1] = 0 => Zero(t)
  BY <1>1, <1>2 DEF Zero
<1>5. \A y \in Nums(t) : y \in Nums(s) \/ y = f[2]
  BY <1>1, <1>2 DEF Nums
<1> QED
  BY <1>3, <1>4, <1>5 DEF t

(* A complete window: its first two images are reported, the others stay. *)
LEMMA CutWindow ==
  ASSUME NEW s \in Seq(Images), Len(s) = 4, Rising(s)
  PROVE  LET w == SubSeq(s, 1, 2)
             r == SubSeq(s, 3, 4)
         IN /\ w \in Seq(Images) /\ Len(w) = 2 /\ w[1][2] < w[2][2]
            /\ \A a \in {1, 2} : w[a][2] \in Nums(s) /\ \A y \in Nums(r) : w[a][2] < y
            /\ Rising(r) /\ (\A y \in Nums(r) : y \in Nums(s))
            /\ Zero(s) => Zero(r) /\ \A a \in {1, 2} : w[a][1] = 0
<1> DEFINE w == SubSeq(s, 1, 2)
           r == SubSeq(s, 3, 4)
<1>1. \A i \in 1 .. 4 : s[i] \in Images
  BY ElementOfSeq
<1>2. /\ w \in Seq(Images) /\ Len(w) = 2 /\ w[1] = s[1] /\ w[2] = s[2]
  <2>1. \A i \in 1 .. 2 : s[i] \in Images
    BY <1>1
  <2>2. /\ w \in Seq(Images) /\ Len(w) = IF 1 <= 2 THEN 2 - 1 + 1 ELSE 0
        /\ \A i \in 1 .. 2 - 1 + 1 : w[i] = s[1 + i - 1]
    BY <2>1, SubSeqProperties
  <2> HIDE DEF w
  <2> QED
    BY <2>2
<1>3. /\ Len(r) = 2 /\ r[1] = s[3] /\ r[2] = s[4]
  <2>1. \A i \in 3 .. 4 : s[i] \in Images
    BY <1>1
  <2>2. /\ Len(r) = IF 3 <= 4 THEN 4 - 3 + 1 ELSE 0
        /\ \A i \in 1 .. 4 - 3 + 1 : r[i] = s[3 + i - 1]
    BY <2>1, SubSeqProperties
  <2> HIDE DEF r
  <2> QED
    BY <2>2
<1> HIDE DEF w, r
<1>4. /\ s[1][2] < s[2][2] /\ s[1][2] < s[3][2] /\ s[1][2] < s[4][2]
      /\ s[2][2] < s[3][2] /\ s[2][2] < s[4][2] /\ s[3][2] < s[4][2]
  <2>1. \A i, j \in 1 .. 4 : i < j => s[i][2] < s[j][2]
    BY DEF Rising
  <2> QED
    BY <2>1
<1>5. \A i \in 1 .. Len(r) : i = 1 \/ i = 2
  BY <1>3
<1>6. \A i \in 1 .. 4 : s[i][2] \in Nums(s)
  BY DEF Nums
<1>7. \A y \in Nums(r) : y = s[3][2] \/ y = s[4][2]
  BY <1>3, <1>5 DEF Nums
<1>8. Rising(r)
  <2> SUFFICES ASSUME NEW i \in 1 .. Len(r), NEW j \in 1 .. Len(r), i < j
               PROVE  r[i][2] < r[j][2]
    BY DEF Rising
  <2>1. i = 1 /\ j = 2
    BY <1>3
  <2> QED
    BY <2>1, <1>3, <1>4
<1>9. Zero(s) => Zero(r) /\ \A a \in {1, 2} : w[a][1] = 0
  <2>1. Zero(s) => s[1][1] = 0 /\ s[2][1] = 0 /\ s[3][1] = 0 /\ s[4][1] = 0
    BY DEF Zero
  <2> QED
    BY <2>1, <1>2, <1>3, <1>5 DEF Zero
<1>10. \A a \in {1, 2} : w[a][2] \in Nums(s) /\ \A y \in Nums(r) : w[a][2] < y
  BY <1>2, <1>4, <1>6, <1>7
<1> QED
  BY <1>2, <1>4, <1>6, <1>7, <1>8, <1>9, <1>10 DEF w, r

(* Two reported images are queued behind the batches that wait. *)
LEMMA QueueBatch ==
  ASSUME NEW q \in Seq(Seq(Images)), NEW n, NEW w \in Seq(Images), RisingQ(q, n),
         w[1][2] < w[2][2], \A a \in {1, 2} : \A y \in NumsQ(q, n) : y < w[a][2],
         \A i \in 1 .. Len(q), a \in {1, 2} : q[i][a][2] \in Nat
  PROVE  /\ RisingQ(Append(q, w), n)
         /\ \A y \in NumsQ(Append(q, w), n) : y \in NumsQ(q, n) \/ y \in {w[1][2], w[2][2]}
         /\ ZeroQ(q, n) /\ (\A a \in {1, 2} : w[a][1] = 0) => ZeroQ(Append(q, w), n)
<1> DEFINE p == Append(q, w)
           l == Len(q)
<1>1. /\ l \in Nat /\ Len(p) = l + 1 /\ (\A i \in 1 .. l : p[i] = q[i]) /\ p[l + 1] = w
  BY PushTail
<1> HIDE DEF p
<1>2. /\ \A i \in 1 .. Len(p) : i \in 1 .. l \/ i = l + 1
      /\ \A i, j \in 1 .. Len(p) : i < j => i \in 1 .. l
      /\ ~(l + 1 < l + 1) /\ \A i \in 1 .. l : ~(l + 1 < i) /\ i # l + 1
  BY <1>1
<1>3. \A i \in 1 .. l, a \in {1, 2} : Undrawn(p, n, i, a) => Undrawn(q, n, i, a)
  BY <1>1 DEF Undrawn
<1>4. \A i \in 1 .. l, a \in {1, 2} : Undrawn(p, n, i, a) => q[i][a][2] \in NumsQ(q, n)
  BY <1>3 DEF NumsQ
<1>5. RisingQ(p, n)
  <2> SUFFICES ASSUME NEW i \in 1 .. Len(p), NEW j \in 1 .. Len(p),
                      NEW a \in {1, 2}, NEW b \in {1, 2},
                      Undrawn(p, n, i, a), Undrawn(p, n, j, b), i < j \/ (i = j /\ a < b)
               PROVE  p[i][a][2] < p[j][b][2]
    BY DEF RisingQ
  <2>1. CASE i \in 1 .. l /\ j \in 1 .. l
    BY <2>1, <1>1, <1>3 DEF RisingQ
  <2>2. CASE i \in 1 .. l /\ j = l + 1
    BY <2>2, <1>1, <1>4
  <2>3. CASE i = l + 1
    <3>1. j = l + 1 /\ a = 1 /\ b = 2
      <4>1. j = l + 1
        BY <2>3, <1>2
      <4>2. a < b
        BY <4>1, <2>3, <1>2
      <4> QED
        BY <4>1, <4>2
    <3> QED
      BY <3>1, <2>3, <1>1
  <2> QED
    BY <1>2, <2>1, <2>2, <2>3
<1>6. \A y \in NumsQ(p, n) : y \in NumsQ(q, n) \/ y \in {w[1][2], w[2][2]}
  <2> SUFFICES ASSUME NEW y \in NumsQ(p, n) PROVE y \in NumsQ(q, n) \/ y \in {w[1][2], w[2][2]}
    OBVIOUS
  <2>1. PICK i \in 1 .. Len(p), a \in {1, 2} : Undrawn(p, n, i, a) /\ y = p[i][a][2]
    BY DEF NumsQ
  <2> QED
    BY <2>1, <1>1, <1>2, <1>4
<1>7. ZeroQ(q, n) /\ (\A a \in {1, 2} : w[a][1] = 0) => ZeroQ(p, n)
  BY ZenonT(60), <1>1, <1>2, <1>3 DEF ZeroQ
<1> QED
  BY <1>5, <1>6, <1>7 DEF p

(* Drawing one image of the first batch. *)
LEMMA DrawOne ==
  ASSUME NEW q \in Seq(Seq(Images)), q # << >>, NEW n \in {0, 1}, RisingQ(q, n),
         \A i \in 1 .. Len(q), a \in {1, 2} : q[i][a] \in Images
  PROVE  LET f == q[1][n + 1]
             p == IF n = 1 THEN Tail(q) ELSE q
             m == 1 - n
         IN /\ f \in Images /\ f[2] \in NumsQ(q, n) /\ RisingQ(p, m)
            /\ \A y \in NumsQ(p, m) : y \in NumsQ(q, n) /\ f[2] < y
            /\ ZeroQ(q, n) => f[1] = 0 /\ ZeroQ(p, m)
<1> DEFINE f == q[1][n + 1]
<1>1. /\ Len(q) \in Nat \ {0} /\ Len(Tail(q)) = Len(q) - 1
      /\ \A i \in 1 .. Len(q) - 1 : Tail(q)[i] = q[i + 1]
  BY PopHead
<1>2. 1 \in 1 .. Len(q) /\ n + 1 \in {1, 2} /\ Undrawn(q, n, 1, n + 1)
  BY <1>1 DEF Undrawn
<1>3. f \in Images /\ f[2] \in Nat
  BY <1>2, ImageFacts
<1>4. f[2] \in NumsQ(q, n)
  BY <1>2, <1>3 DEF NumsQ
<1>5. ZeroQ(q, n) => f[1] = 0
  BY <1>2 DEF ZeroQ
<1>6. CASE n = 0
  <2>1. /\ \A i \in 1 .. Len(q), a \in {1, 2} : Undrawn(q, 1, i, a) =>
             Undrawn(q, 0, i, a) /\ (1 < i \/ (i = 1 /\ 1 < a))
    BY <1>1 DEF Undrawn
  <2>2. RisingQ(q, 1)
    BY <2>1, <1>6 DEF RisingQ
  <2>3. \A y \in NumsQ(q, 1) : y \in NumsQ(q, n) /\ f[2] < y
    <3> SUFFICES ASSUME NEW y \in NumsQ(q, 1) PROVE y \in NumsQ(q, n) /\ f[2] < y
      OBVIOUS
    <3>1. PICK i \in 1 .. Len(q), a \in {1, 2} : Undrawn(q, 1, i, a) /\ y = q[i][a][2] /\ y \in Nat
      BY DEF NumsQ
    <3>2. Undrawn(q, 0, i, a) /\ (1 < i \/ (1 = i /\ 1 < a))
      BY <2>1, <3>1
    <3>3. f[2] < y
      BY <3>1, <3>2, <1>2, <1>6 DEF RisingQ
    <3>4. y \in NumsQ(q, n)
      BY <3>1, <3>2, <1>6 DEF NumsQ
    <3> QED
      BY <3>3, <3>4
  <2>4. ZeroQ(q, n) => ZeroQ(q, 1)
    BY <2>1, <1>6 DEF ZeroQ
  <2> QED
    BY <1>3, <1>4, <1>5, <1>6, <2>2, <2>3, <2>4
<1>7. CASE n = 1
  <2> DEFINE t == Tail(q)
  <2>1. /\ \A i \in 1 .. Len(t) : i + 1 \in 1 .. Len(q) /\ t[i] = q[i + 1] /\ 1 < i + 1
        /\ \A i, j \in 1 .. Len(t) : (i < j => i + 1 < j + 1) /\ (i = j => i + 1 = j + 1)
    BY <1>1
  <2>2. \A i \in 1 .. Len(t), a \in {1, 2} : Undrawn(q, 1, i + 1, a)
    BY <2>1 DEF Undrawn
  <2> HIDE DEF t
  <2>3. RisingQ(t, 0)
    <3> SUFFICES ASSUME NEW i \in 1 .. Len(t), NEW j \in 1 .. Len(t),
                        NEW a \in {1, 2}, NEW b \in {1, 2}, i < j \/ (i = j /\ a < b)
                 PROVE  t[i][a][2] < t[j][b][2]
      BY DEF RisingQ
    <3>1. i + 1 < j + 1 \/ (i + 1 = j + 1 /\ a < b)
      BY <2>1
    <3>2. /\ Undrawn(q, n, i + 1, a) /\ i + 1 \in 1 .. Len(q) /\ t[i] = q[i + 1]
          /\ Undrawn(q, n, j + 1, b) /\ j + 1 \in 1 .. Len(q) /\ t[j] = q[j + 1]
      BY <2>1, <2>2, <1>7
    <3>3. q[i + 1][a][2] < q[j + 1][b][2]
      BY <3>1, <3>2 DEF RisingQ
    <3> QED
      BY <3>2, <3>3
  <2>4. \A y \in NumsQ(t, 0) : y \in NumsQ(q, n) /\ f[2] < y
    <3> SUFFICES ASSUME NEW y \in NumsQ(t, 0) PROVE y \in NumsQ(q, n) /\ f[2] < y
      OBVIOUS
    <3>1. PICK i \in 1 .. Len(t), a \in {1, 2} : y = t[i][a][2] /\ y \in Nat
      BY DEF NumsQ
    <3>2. /\ i + 1 \in 1 .. Len(q) /\ 1 < i + 1 /\ Undrawn(q, 1, i + 1, a)
          /\ y = q[i + 1][a][2]
      BY <2>1, <2>2, <3>1
    <3>3. f[2] < y
      BY <3>2, <1>2, <1>7 DEF RisingQ
    <3>4. y \in NumsQ(q, n)
      BY <3>1, <3>2, <1>7 DEF NumsQ
    <3> QED
      BY <3>3, <3>4
  <2>5. ZeroQ(q, n) => ZeroQ(t, 0)
    <3> SUFFICES ASSUME ZeroQ(q, n), NEW i \in 1 .. Len(t), NEW a \in {1, 2}
                 PROVE  t[i][a][1] = 0
      BY DEF ZeroQ
    <3>1. Undrawn(q, n, i + 1, a) /\ i + 1 \in 1 .. Len(q) /\ t[i] = q[i + 1]
      BY <2>1, <2>2, <1>7
    <3>2. q[i + 1][a][1] = 0
      BY <3>1 DEF ZeroQ
    <3> QED
      BY <3>1, <3>2
  <2> QED
    BY <1>3, <1>4, <1>5, <1>7, <2>3, <2>4, <2>5 DEF t
<1> QED
  BY <1>6, <1>7

(* The eight places: drawn, queued for display, not reported by the         *)
(* detector, copied by the inference thread, queued for it, held by the     *)
(* scheduler, stored in the pipe, held by the decoder.                      *)
Line == [k \in Places |->
           CASE k = 1 -> Nums(shown)
             [] k = 2 -> NumsQ(gresultque1, dispNum)
             [] k = 3 -> Nums(imginfoque[CPU])
             [] k = 4 -> {x \in {cur[CPU][2]} : inf[CPU] = "put"}
             [] k = 5 -> Nums(gtaskque[CPU])
             [] k = 6 -> {x \in {task[2]} : sched = "push" /\ schedCh = 0}
             [] k = 7 -> Nums(out[0])
             [] k = 8 -> {x \in {decoded[0]} : dec[0] = "get"}]

Risen == /\ Rising(shown) /\ RisingQ(gresultque1, dispNum) /\ Rising(imginfoque[CPU])
         /\ Rising(gtaskque[CPU]) /\ Rising(out[0])

Zeroed == /\ Zero(shown) /\ ZeroQ(gresultque1, dispNum) /\ Zero(imginfoque[CPU])
          /\ inf[CPU] = "put" => cur[CPU][1] = 0
          /\ Zero(gtaskque[CPU])

Drawing == Ordered(Line, decoded[0]) /\ Risen /\ Zeroed

(* The eight places of a CPU frame, one by one. *)
LEMMA LinePlaces ==
  /\ Line[1] = Nums(shown) /\ Line[2] = NumsQ(gresultque1, dispNum)
  /\ Line[3] = Nums(imginfoque[CPU]) /\ Line[4] = {x \in {cur[CPU][2]} : inf[CPU] = "put"}
  /\ Line[5] = Nums(gtaskque[CPU])
  /\ Line[6] = {x \in {task[2]} : sched = "push" /\ schedCh = 0}
  /\ Line[7] = Nums(out[0]) /\ Line[8] = {x \in {decoded[0]} : dec[0] = "get"}
BY DEF Line, Places

(* The same places after a step. *)
LEMMA LinePlacesNext ==
  /\ Line'[1] = Nums(shown') /\ Line'[2] = NumsQ(gresultque1', dispNum')
  /\ Line'[3] = Nums(imginfoque'[CPU]) /\ Line'[4] = {x \in {cur'[CPU][2]} : inf'[CPU] = "put"}
  /\ Line'[5] = Nums(gtaskque'[CPU])
  /\ Line'[6] = {x \in {task'[2]} : sched' = "push" /\ schedCh' = 0}
  /\ Line'[7] = Nums(out'[0]) /\ Line'[8] = {x \in {decoded'[0]} : dec'[0] = "get"}
BY DEF Line, Places, Nums, NumsQ, Undrawn

(* There are eight places. *)
LEMMA EightPlaces ==
  \A k \in Places : k = 1 \/ k = 2 \/ k = 3 \/ k = 4 \/ k = 5 \/ k = 6 \/ k = 7 \/ k = 8
BY DEF Places

(* Threads other than those of channel 0 leave the places alone; a thread   *)
(* that puts its image down without handing it on drops it.                 *)
Kept4 == inf'[CPU] = "put" => inf[CPU] = "put" /\ cur'[CPU] = cur[CPU]
Kept6 == sched' = "push" /\ schedCh' = 0 => sched = "push" /\ schedCh = 0 /\ task' = task
Kept8 == dec'[0] = "get" => dec[0] = "get"

(* A step that leaves the places alone keeps the order. *)
LEMMA DrawFrame ==
  ASSUME Drawing, Kept4, Kept6, Kept8,
         shown' = shown, gresultque1' = gresultque1, dispNum' = dispNum,
         imginfoque'[CPU] = imginfoque[CPU], gtaskque'[CPU] = gtaskque[CPU],
         decoded'[0] = decoded[0], out'[0] = out[0]
  PROVE  Drawing'
<1>1. Ordered(Line', decoded'[0])
  <2>1. /\ Line'[1] = Line[1] /\ Line'[2] = Line[2] /\ Line'[3] = Line[3]
        /\ Line'[5] = Line[5] /\ Line'[7] = Line[7]
    BY LinePlaces, LinePlacesNext
  <2>2. /\ \A x \in Line'[4] : x \in Line[4]
        /\ \A x \in Line'[6] : x \in Line[6]
        /\ \A x \in Line'[8] : x \in Line[8]
    BY LinePlaces, LinePlacesNext DEF Kept4, Kept6, Kept8
  <2>3. \A k \in Places : \A x \in Line'[k] : x \in Line[k]
    BY <2>1, <2>2, EightPlaces
  <2>4. Ordered(Line, decoded[0])
    BY DEF Drawing
  <2> QED
    BY <2>3, <2>4, DropSome
<1>2. Risen' /\ Zeroed'
  BY DEF Drawing, Risen, Zeroed, Kept4, Rising, RisingQ, Undrawn, Zero, ZeroQ
<1> QED
  BY <1>1, <1>2 DEF Drawing, Ordered

(* The images X leave place k + 1 for the end of place k. *)
MovesOn(S, R, k, X) ==
  /\ \A x \in X : x \in S[k + 1] /\ \A y \in R[k + 1] : x < y
  /\ \A x \in R[k] : x \in S[k] \/ x \in X
  /\ \A j \in Places : j # k => \A x \in R[j] : x \in S[j]

(* A step that moves one frame to the next place keeps the order. *)
LEMMA DrawMove ==
  ASSUME Drawing, NEW k \in 1 .. 7, NEW X, MovesOn(Line, Line', k, X),
         decoded'[0] = decoded[0], Risen', Zeroed'
  PROVE  Drawing'
<1>1. Ordered(Line, decoded[0])
  BY DEF Drawing
<1>2. Ordered(Line', decoded[0])
  BY <1>1, MoveOn DEF MovesOn
<1> QED
  BY <1>2 DEF Drawing, Ordered

(* The images of a place are behind those of the place before. *)
LEMMA Behind ==
  ASSUME Drawing, NEW k \in 1 .. 7, NEW x \in Line[k + 1]
  PROVE  \A y \in Line[k] : y < x
<1>1. k \in Places /\ k + 1 \in Places /\ k < k + 1
  BY DEF Places
<1> QED
  BY <1>1 DEF Drawing, Ordered

(* Every step keeps the frames of the CPU channel in decoding order along the places. *)
LEMMA DrawStep ==
  ASSUME NUM_OF_CPU_BATCH = 2, IInv, Drawing, [Next]_vars
  PROVE  Drawing'
<1>i. TypeOK /\ Hands /\ Windows
  BY DEF IInv
<1>a. /\ out \in [Channels -> Seq(Images)] /\ schedCh \in Channels
      /\ gtaskque \in [Devices -> Seq(Images)] /\ cur \in [Devices -> Images \cup {NoTask}]
      /\ imginfoque \in [Devices -> Seq(Images)] /\ shown \in Seq(Images)
      /\ inf \in [Devices -> {"wait", "empty", "put", "push", "throttle", "done"}]
      /\ dec \in [Channels -> {"loop", "get", "post", "done"}]
  BY <1>i DEF TypeOK
<1>b. /\ 0 \in Channels /\ CPU \in Devices /\ GPU # CPU
      /\ out[0] \in Seq(Images) /\ gtaskque[CPU] \in Seq(Images) /\ imginfoque[CPU] \in Seq(Images)
  BY <1>a, Sizes
<1>c. /\ decoded \in [Channels -> Nat \ {0}] /\ decoded[0] \in Nat /\ <<0, decoded[0]>> \in Images
  <2>1. decoded \in [Channels -> Nat \ {0}] /\ decoded[0] <= Bound(0)
    BY <1>i, Sizes DEF TypeOK
  <2>2. decoded[0] \in Nat \ {0} /\ Bound(0) \in Nat /\ Bound(0) <= MaxFrames + MaxOther
        /\ MaxFrames + MaxOther \in Nat
    BY <2>1, Sizes
  <2>3. decoded[0] \in 1 .. MaxFrames + MaxOther
    BY <2>1, <2>2
  <2> QED
    BY <2>1, <2>2, <2>3, Sizes, ImageFacts
<1>r. Risen /\ Zeroed
  BY DEF Drawing
<1>s. \A c \in Channels : DeviceFor(c) = CPU <=> c = 0
  BY DEF DeviceFor, CPU, GPU
<1>1. ASSUME NEW c \in Channels, DecStore(c) PROVE Drawing'
  <2>1. UNCHANGED <<decoded, gtaskque, sched, schedCh, task, inf, cur, imginfoque,
                    gresultque1, dispNum, shown>> /\ dec[c] = "get"
    BY <1>1 DEF DecStore
  <2>2. CASE c # 0
    <3>1. out'[0] = out[0] /\ dec'[0] = dec[0]
      BY <1>1, <2>2, <1>a, <1>b DEF DecStore, DecGoto
    <3> QED
      BY <2>1, <3>1, DrawFrame DEF Kept4, Kept6, Kept8
  <2>3. CASE c = 0 /\ out' = out
    <3>1. dec[0] = "get"
      BY <2>1, <2>3
    <3> QED
      BY <2>1, <2>3, <3>1, DrawFrame DEF Kept4, Kept6, Kept8
  <2>4. CASE c = 0 /\ out' # out
    <3> DEFINE img == <<0, decoded[0]>>
    <3>1. /\ dec' = [dec EXCEPT ![0] = "post"]
          /\ \/ out' = [out EXCEPT ![0] = Append(out[0], img)]
             \/ out[0] # << >> /\ out' = [out EXCEPT ![0] = Append(Tail(out[0]), img)]
      BY <1>1, <2>4 DEF DecStore, DecGoto
    <3>2. PICK s \in Seq(Images) :
            /\ out'[0] = Append(s, img) /\ Rising(s) /\ \A y \in Nums(s) : y \in Nums(out[0])
      <4>1. CASE out' = [out EXCEPT ![0] = Append(out[0], img)]
        <5>1. out'[0] = Append(out[0], img)
          BY <4>1, <1>a, <1>b
        <5> QED
          BY <5>1, <1>b, <1>r DEF Risen
      <4>2. CASE out[0] # << >> /\ out' = [out EXCEPT ![0] = Append(Tail(out[0]), img)]
        <5>1. out'[0] = Append(Tail(out[0]), img)
          BY <4>2, <1>a, <1>b
        <5> QED
          BY <5>1, <4>2, <1>b, <1>r, PopRising DEF Risen
      <4> QED
        BY <3>1, <4>1, <4>2
    <3>3. decoded[0] \in Line[7 + 1] /\ Line[7 + 1] = Line[8]
      BY <2>1, <2>4, LinePlaces
    <3>4. \A y \in Line[7] : y < decoded[0]
      BY <3>3, Behind
    <3>5. /\ Rising(out'[0]) /\ \A y \in Nums(out'[0]) : y \in Nums(s) \/ y = decoded[0]
      <4>1. \A y \in Nums(s) : y < img[2]
        BY <3>2, <3>4, LinePlaces
      <4> QED
        BY <4>1, <3>2, <1>c, PushRising
    <3>6. Line'[8] = {} /\ Line'[7 + 1] = Line'[8]
      BY <3>1, <1>a, <1>b, LinePlacesNext
    <3>7. \A x \in Line'[7] : x \in Line[7] \/ x \in {decoded[0]}
      BY <3>2, <3>5, LinePlaces, LinePlacesNext
    <3>8. /\ Line'[1] = Line[1] /\ Line'[2] = Line[2] /\ Line'[3] = Line[3]
          /\ Line'[4] = Line[4] /\ Line'[5] = Line[5] /\ Line'[6] = Line[6]
      BY <2>1, LinePlaces, LinePlacesNext
    <3>9. \A j \in Places : j # 7 => \A x \in Line'[j] : x \in Line[j]
      BY <3>6, <3>8, EightPlaces
    <3>10. Risen' /\ Zeroed'
      BY <2>1, <3>5, <1>r DEF Risen, Zeroed, Rising, RisingQ, Undrawn, Zero, ZeroQ
    <3>11. 7 \in 1 .. 7
      OBVIOUS
    <3>m. MovesOn(Line, Line', 7, {decoded[0]})
      BY <3>3, <3>6, <3>7, <3>9 DEF MovesOn
    <3> QED
      BY <3>m, <3>10, <3>11, <2>1, DrawMove
  <2> QED
    BY <2>2, <2>3, <2>4
<1>2. ASSUME NEW c \in Channels, DecPost(c) PROVE Drawing'
  <2>1. UNCHANGED <<out, gtaskque, sched, schedCh, task, inf, cur, imginfoque,
                    gresultque1, dispNum, shown>> /\ dec[c] = "post"
    BY <1>2 DEF DecPost
  <2>2. CASE decoded'[0] = decoded[0] /\ dec'[0] # "get"
    BY <2>1, <2>2, DrawFrame DEF Kept4, Kept6, Kept8
  <2>3. CASE c # 0
    <3>1. decoded'[0] = decoded[0] /\ dec'[0] = dec[0]
      BY <1>2, <2>3, <1>a, <1>b, <1>c DEF DecPost, DecGoto
    <3> QED
      BY <2>1, <3>1, DrawFrame DEF Kept4, Kept6, Kept8
  <2>4. CASE c = 0 /\ decoded' = [decoded EXCEPT ![0] = decoded[0] + 1]
    <3>1. decoded'[0] = decoded[0] + 1
      BY <2>4, <1>b, <1>c
    <3>2. /\ Line'[1] = Line[1] /\ Line'[2] = Line[2] /\ Line'[3] = Line[3]
          /\ Line'[4] = Line[4] /\ Line'[5] = Line[5] /\ Line'[6] = Line[6]
          /\ Line'[7] = Line[7]
      BY <2>1, LinePlaces, LinePlacesNext
    <3>3. \A j \in 1 .. 7 : \A x \in Line'[j] : x \in Line[j]
      <4>1. \A j \in 1 .. 7 : j = 1 \/ j = 2 \/ j = 3 \/ j = 4 \/ j = 5 \/ j = 6 \/ j = 7
        OBVIOUS
      <4> QED
        BY <3>2, <4>1
    <3>4. \A x \in Line'[8] : x = decoded[0] + 1
      BY <3>1, LinePlacesNext
    <3>5. Ordered(Line, decoded[0])
      BY DEF Drawing
    <3>6. Ordered(Line', decoded[0] + 1)
      BY <3>3, <3>4, <3>5, <1>c, NextImage
    <3>7. Risen' /\ Zeroed'
      BY <2>1, <1>r DEF Risen, Zeroed, Rising, RisingQ, Undrawn, Zero, ZeroQ
    <3> QED
      BY <3>1, <3>6, <3>7 DEF Drawing, Ordered
  <2>5. \/ c # 0
        \/ decoded'[0] = decoded[0] /\ dec'[0] # "get"
        \/ c = 0 /\ decoded' = [decoded EXCEPT ![0] = decoded[0] + 1]
    BY <1>2, <1>a, <1>b DEF DecPost, DecGoto
  <2> QED
    BY <2>2, <2>3, <2>4, <2>5
<1>3. ASSUME NEW c \in Channels, DecLeave(c) PROVE Drawing'
  <2>1. /\ UNCHANGED <<decoded, out, gtaskque, sched, schedCh, task, inf, cur, imginfoque,
                       gresultque1, dispNum, shown>>
        /\ dec' = [dec EXCEPT ![c] = "done"]
    BY <1>3 DEF DecLeave, DecGoto
  <2>2. dec'[0] = "get" => dec[0] = "get"
    BY <2>1, <1>a, <1>b
  <2> QED
    BY <2>1, <2>2, DrawFrame DEF Kept4, Kept6, Kept8
<1>4. CASE SchedLoad
  <2>1. UNCHANGED <<decoded, dec, gtaskque, inf, cur, imginfoque, gresultque1, dispNum, shown>>
        /\ sched = "load"
    BY <1>4 DEF SchedLoad
  <2>2. CASE out[schedCh] = << >>
    <3>1. out' = out /\ sched' # "push"
      BY <1>4, <2>2 DEF SchedLoad, NextPipe, Top
    <3> QED
      BY <2>1, <3>1, DrawFrame DEF Kept4, Kept6, Kept8
  <2>3. CASE out[schedCh] # << >> /\ schedCh # 0
    <3>1. out'[0] = out[0] /\ schedCh' = schedCh
      BY <1>4, <2>3, <1>a, <1>b DEF SchedLoad
    <3> QED
      BY <2>1, <2>3, <3>1, DrawFrame DEF Kept4, Kept6, Kept8
  <2>4. CASE out[schedCh] # << >> /\ schedCh = 0
    <3> DEFINE s == out[0]
    <3>1. /\ task' = Head(s) /\ sched' = "push" /\ schedCh' = 0 /\ out'[0] = Tail(s)
      BY <1>4, <2>4, <1>a, <1>b DEF SchedLoad
    <3>2. /\ Rising(Tail(s)) /\ Head(s)[2] \in Nums(s)
          /\ \A y \in Nums(Tail(s)) : y \in Nums(s) /\ Head(s)[2] < y
      BY <2>4, <1>b, <1>r, PopRising DEF Risen
    <3>3. /\ Line'[6] = {Head(s)[2]} /\ Line[7] = Nums(s) /\ Line'[7] = Nums(Tail(s))
      BY <3>1, LinePlaces, LinePlacesNext
    <3>4. /\ Line'[1] = Line[1] /\ Line'[2] = Line[2] /\ Line'[3] = Line[3]
          /\ Line'[4] = Line[4] /\ Line'[5] = Line[5] /\ Line'[8] = Line[8]
      BY <2>1, LinePlaces, LinePlacesNext
    <3>5. \A j \in Places : j # 6 => \A x \in Line'[j] : x \in Line[j]
      BY <3>2, <3>3, <3>4, EightPlaces
    <3>6. Risen' /\ Zeroed'
      BY <2>1, <3>1, <3>2, <1>r DEF Risen, Zeroed, Rising, RisingQ, Undrawn, Zero, ZeroQ
    <3>7. 6 \in 1 .. 7 /\ 6 + 1 = 7
      OBVIOUS
    <3>8. /\ \A x \in {Head(s)[2]} : x \in Line[6 + 1] /\ \A y \in Line'[6 + 1] : x < y
          /\ \A x \in Line'[6] : x \in Line[6] \/ x \in {Head(s)[2]}
      BY <3>2, <3>3, <3>7
    <3> HIDE DEF s
    <3>m. MovesOn(Line, Line', 6, {Head(s)[2]})
      BY <3>5, <3>8 DEF MovesOn
    <3> QED
      BY <3>m, <3>6, <3>7, <2>1, DrawMove
  <2> QED
    BY <2>2, <2>3, <2>4
<1>5. CASE SchedPush
  <2>1. /\ UNCHANGED <<decoded, dec, out, inf, cur, imginfoque, gresultque1, dispNum, shown>>
        /\ sched = "push" /\ sched' = "post" /\ schedCh' = schedCh
        /\ gtaskque' = [gtaskque EXCEPT ![DeviceFor(schedCh)]
                          = Append(gtaskque[DeviceFor(schedCh)], task)]
    BY <1>5 DEF SchedPush
  <2>2. CASE schedCh # 0
    <3>1. gtaskque'[CPU] = gtaskque[CPU]
      BY <2>1, <2>2, <1>a, <1>b, <1>s
    <3> QED
      BY <2>1, <3>1, DrawFrame DEF Kept4, Kept6, Kept8
  <2>3. CASE schedCh = 0
    <3> DEFINE s == gtaskque[CPU]
    <3>1. gtaskque'[CPU] = Append(s, task)
      <4>1. DeviceFor(schedCh) = CPU
        BY <2>3, <1>b, <1>s
      <4> QED
        BY <4>1, <2>1, <1>a, <1>b
    <3>2. task \in Images /\ task[1] = 0
      BY <2>1, <2>3, <1>i DEF Hands
    <3>3. 5 \in 1 .. 7 /\ 5 + 1 = 6
      OBVIOUS
    <3>4. /\ task[2] \in Line[6] /\ Line[5] = Nums(s) /\ Line'[6] = {}
          /\ Line'[5] = Nums(Append(s, task))
      BY <2>1, <2>3, <3>1, LinePlaces, LinePlacesNext
    <3>5. \A y \in Nums(s) : y < task[2]
      BY <3>3, <3>4, Behind
    <3>6. /\ Rising(Append(s, task)) /\ Zero(Append(s, task))
          /\ \A y \in Nums(Append(s, task)) : y \in Nums(s) \/ y = task[2]
      BY <3>2, <3>5, <1>b, <1>r, PushRising DEF Risen, Zeroed
    <3>7. /\ Line'[1] = Line[1] /\ Line'[2] = Line[2] /\ Line'[3] = Line[3]
          /\ Line'[4] = Line[4] /\ Line'[7] = Line[7] /\ Line'[8] = Line[8]
      BY <2>1, LinePlaces, LinePlacesNext
    <3>8. \A j \in Places : j # 5 => \A x \in Line'[j] : x \in Line[j]
      BY <3>4, <3>7, EightPlaces
    <3>9. Risen' /\ Zeroed'
      BY <2>1, <3>1, <3>6, <1>r DEF Risen, Zeroed, Rising, RisingQ, Undrawn, Zero, ZeroQ
    <3>10. /\ \A x \in {task[2]} : x \in Line[5 + 1] /\ \A y \in Line'[5 + 1] : x < y
           /\ \A x \in Line'[5] : x \in Line[5] \/ x \in {task[2]}
      BY <3>3, <3>4, <3>6
    <3> HIDE DEF s
    <3>m. MovesOn(Line, Line', 5, {task[2]})
      BY <3>8, <3>10 DEF MovesOn
    <3> QED
      BY <3>m, <3>3, <3>9, <2>1, DrawMove
  <2> QED
    BY <2>2, <2>3
<1>6. CASE SchedWait \/ SchedPost
  <2>1. /\ UNCHANGED <<decoded, dec, out, gtaskque, inf, cur, imginfoque, gresultque1,
                       dispNum, shown>>
        /\ sched' # "push"
    BY <1>6 DEF SchedWait, SchedPost, NextPipe, Top
  <2> QED
    BY <2>1, DrawFrame DEF Kept4, Kept6, Kept8
<1>7. ASSUME NEW d \in Devices, InferStep(d), d # CPU PROVE Drawing'
  <2>1. /\ UNCHANGED <<decoded, dec, sched, schedCh, task, dispNum, shown>>
        /\ d = GPU /\ gresultque1' = gresultque1 /\ out' = out
        /\ inf'[CPU] = inf[CPU] /\ cur'[CPU] = cur[CPU] /\ gtaskque'[CPU] = gtaskque[CPU]
        /\ imginfoque'[CPU] = imginfoque[CPU]
    <3>1. d = GPU
      BY <1>7 DEF Devices
    <3> QED
      BY <1>7, <3>1, <1>a, <1>b DEF InferStep, InferWait, InferPop, InferInsert, InferResults,
                                    InferThrottle, InfGoto
  <2> QED
    BY <2>1, DrawFrame DEF Kept4, Kept6, Kept8
<1>8. CASE InferWait(CPU) \/ InferThrottle(CPU)
  <2>1. /\ UNCHANGED <<decoded, dec, out, sched, schedCh, task, gtaskque, imginfoque,
                       gresultque1, dispNum, shown>>
        /\ inf'[CPU] # "put"
    BY <1>8, <1>a, <1>b DEF InferWait, InferThrottle, InfGoto
  <2> QED
    BY <2>1, DrawFrame DEF Kept4, Kept6, Kept8
<1>9. CASE InferPop(CPU)
  <2>1. UNCHANGED <<decoded, dec, out, sched, schedCh, task, imginfoque, gresultque1,
                    dispNum, shown>> /\ inf[CPU] = "empty"
    BY <1>9 DEF InferPop
  <2>2. CASE gtaskque[CPU] = << >>
    <3>1. gtaskque' = gtaskque /\ inf'[CPU] # "put"
      BY <1>9, <2>2, <1>a, <1>b DEF InferPop, InfGoto, Top
    <3> QED
      BY <2>1, <3>1, DrawFrame DEF Kept4, Kept6, Kept8
  <2>3. CASE gtaskque[CPU] # << >>
    <3> DEFINE s == gtaskque[CPU]
    <3>1. /\ cur'[CPU] = Head(s) /\ inf'[CPU] = "put" /\ gtaskque'[CPU] = Tail(s)
      BY <1>9, <2>3, <1>a, <1>b DEF InferPop, InfGoto
    <3>2. /\ Rising(Tail(s)) /\ Zero(Tail(s)) /\ Head(s)[1] = 0 /\ Head(s)[2] \in Nums(s)
          /\ \A y \in Nums(Tail(s)) : y \in Nums(s) /\ Head(s)[2] < y
      BY <2>3, <1>b, <1>r, PopRising DEF Risen, Zeroed
    <3>3. /\ Line'[4] = {Head(s)[2]} /\ Line[5] = Nums(s) /\ Line'[5] = Nums(Tail(s))
      BY <3>1, LinePlaces, LinePlacesNext
    <3>4. /\ Line'[1] = Line[1] /\ Line'[2] = Line[2] /\ Line'[3] = Line[3]
          /\ Line'[6] = Line[6] /\ Line'[7] = Line[7] /\ Line'[8] = Line[8]
      BY <2>1, LinePlaces, LinePlacesNext
    <3>5. \A j \in Places : j # 4 => \A x \in Line'[j] : x \in Line[j]
      BY <3>2, <3>3, <3>4, EightPlaces
    <3>6. Risen' /\ Zeroed'
      BY <2>1, <3>1, <3>2, <1>r DEF Risen, Zeroed, Rising, RisingQ, Undrawn, Zero, ZeroQ
    <3>7. 4 \in 1 .. 7 /\ 4 + 1 = 5
      OBVIOUS
    <3>8. /\ \A x \in {Head(s)[2]} : x \in Line[4 + 1] /\ \A y \in Line'[4 + 1] : x < y
          /\ \A x \in Line'[4] : x \in Line[4] \/ x \in {Head(s)[2]}
      BY <3>2, <3>3, <3>7
    <3> HIDE DEF s
    <3>m. MovesOn(Line, Line', 4, {Head(s)[2]})
      BY <3>5, <3>8 DEF MovesOn
    <3> QED
      BY <3>m, <3>6, <3>7, <2>1, DrawMove
  <2> QED
    BY <2>2, <2>3
<1>10. CASE InferInsert(CPU)
  <2> DEFINE s == imginfoque[CPU]
             f == cur[CPU]
  <2>1. /\ UNCHANGED <<decoded, dec, out, sched, schedCh, task, gtaskque, gresultque1,
                       dispNum, shown>> /\ inf[CPU] = "put"
        /\ imginfoque'[CPU] = Append(s, f) /\ inf'[CPU] # "put"
    BY <1>10, <1>a, <1>b DEF InferInsert, Inserted, InfGoto
  <2>2. f \in Images /\ f[1] = 0
    BY <2>1, <1>b, <1>i, <1>r DEF Hands, Zeroed
  <2>3. 3 \in 1 .. 7 /\ 3 + 1 = 4
    OBVIOUS
  <2>4. /\ f[2] \in Line[4] /\ Line[3] = Nums(s) /\ Line'[4] = {}
        /\ Line'[3] = Nums(Append(s, f))
    BY <2>1, LinePlaces, LinePlacesNext
  <2>5. \A y \in Nums(s) : y < f[2]
    BY <2>3, <2>4, Behind
  <2>6. /\ Rising(Append(s, f)) /\ Zero(Append(s, f))
        /\ \A y \in Nums(Append(s, f)) : y \in Nums(s) \/ y = f[2]
    BY <2>2, <2>5, <1>b, <1>r, PushRising DEF Risen, Zeroed
  <2>7. /\ Line'[1] = Line[1] /\ Line'[2] = Line[2] /\ Line'[5] = Line[5]
        /\ Line'[6] = Line[6] /\ Line'[7] = Line[7] /\ Line'[8] = Line[8]
    BY <2>1, LinePlaces, LinePlacesNext
  <2>8. \A j \in Places : j # 3 => \A x \in Line'[j] : x \in Line[j]
    BY <2>4, <2>7, EightPlaces
  <2>9. Risen' /\ Zeroed'
    BY <2>1, <2>6, <1>r DEF Risen, Zeroed, Rising, RisingQ, Undrawn, Zero, ZeroQ
  <2>10. /\ \A x \in {f[2]} : x \in Line[3 + 1] /\ \A y \in Line'[3 + 1] : x < y
         /\ \A x \in Line'[3] : x \in Line[3] \/ x \in {f[2]}
    BY <2>3, <2>4, <2>6
  <2>11. decoded'[0] = decoded[0]
    BY <2>1
  <2> HIDE DEF s, f
  <2>m. MovesOn(Line, Line', 3, {f[2]})
    BY <2>8, <2>10 DEF MovesOn
  <2> QED
    BY <2>m, <2>3, <2>9, <2>11, DrawMove
<1>11. CASE InferResults(CPU)
  <2> DEFINE s == imginfoque[CPU]
             w == SubSeq(s, 1, 2)
             r == SubSeq(s, 3, 4)
  <2>1. Len(s) = 4 /\ Batch(CPU) = 2
    <3>1. inf[CPU] = "push" /\ Batch(CPU) = 2
      BY <1>11 DEF InferResults, Batch, CPU, GPU
    <3>2. Window(CPU)
      BY <1>b, <1>i DEF Windows
    <3> QED
      BY <3>1, <3>2 DEF Window
  <2>2. /\ UNCHANGED <<decoded, dec, out, sched, schedCh, task, gtaskque, cur, dispNum, shown>>
        /\ imginfoque'[CPU] = r /\ inf'[CPU] # "put" /\ inf[CPU] # "put"
        /\ gresultque1' = gresultque1 \/ gresultque1' = Append(gresultque1, w)
    BY <1>11, <2>1, <1>a, <1>b DEF InferResults, InfGoto, Results
  <2>3. /\ w \in Seq(Images) /\ Len(w) = 2 /\ w[1][2] < w[2][2]
        /\ \A a \in {1, 2} : w[a][2] \in Nums(s) /\ \A y \in Nums(r) : w[a][2] < y
        /\ Rising(r) /\ (\A y \in Nums(r) : y \in Nums(s))
        /\ Zero(r) /\ \A a \in {1, 2} : w[a][1] = 0
    BY <2>1, <1>b, <1>r, CutWindow DEF Risen, Zeroed
  <2> HIDE DEF s, w, r
  <2>4. /\ Line'[1] = Line[1] /\ Line'[5] = Line[5] /\ Line'[6] = Line[6]
        /\ Line'[7] = Line[7] /\ Line'[8] = Line[8] /\ Line'[4] = {} /\ Line[4] = {}
        /\ Line[3] = Nums(s) /\ Line'[3] = Nums(r)
    BY <2>2, LinePlaces, LinePlacesNext DEF s
  <2>5. \A j \in Places : j # 2 => \A x \in Line'[j] : x \in Line[j]
    BY <2>3, <2>4, EightPlaces
  <2>6. 2 \in 1 .. 7 /\ 2 + 1 = 3
    OBVIOUS
  <2>7. decoded'[0] = decoded[0]
    BY <2>2
  <2>8. CASE gresultque1' = gresultque1
    <3>1. Line'[2] = Line[2]
      BY <2>2, <2>8, LinePlaces, LinePlacesNext
    <3>2. Risen' /\ Zeroed'
      BY <2>2, <2>3, <2>8, <1>r DEF Risen, Zeroed, Rising, RisingQ, Undrawn, Zero, ZeroQ
    <3>m. MovesOn(Line, Line', 2, {})
      BY <3>1, <2>5 DEF MovesOn
    <3> QED
      BY <3>m, <3>2, <2>6, <2>7, DrawMove
  <2>9. CASE gresultque1' = Append(gresultque1, w)
    <3> DEFINE q == gresultque1
               n == dispNum
    <3>1. q \in Seq(Seq(Images)) /\ RisingQ(q, n) /\ ZeroQ(q, n)
      BY <1>i, <1>r DEF TypeOK, Risen, Zeroed
    <3>2. \A i \in 1 .. Len(q), a \in {1, 2} : q[i][a][2] \in Nat
      <4>1. \A i \in 1 .. Len(q) : q[i] \in Seq(Images) /\ Len(q[i]) = 2
        BY <3>1, <1>i, ElementOfSeq DEF TypeOK
      <4>2. \A i \in 1 .. Len(q), a \in {1, 2} : q[i][a] \in Images
        BY <4>1, ElementOfSeq
      <4> QED
        BY <4>2, ImageFacts
    <3>3. \A a \in {1, 2} : \A y \in NumsQ(q, n) : y < w[a][2]
      <4>1. \A a \in {1, 2} : w[a][2] \in Line[2 + 1]
        BY <2>3, <2>4, <2>6
      <4>2. \A a \in {1, 2} : \A y \in Line[2] : y < w[a][2]
        BY <4>1, <2>6, Behind
      <4> QED
        BY <4>2, LinePlaces
    <3>4. /\ RisingQ(Append(q, w), n) /\ ZeroQ(Append(q, w), n)
          /\ \A y \in NumsQ(Append(q, w), n) : y \in NumsQ(q, n) \/ y \in {w[1][2], w[2][2]}
      BY <3>1, <3>2, <3>3, <2>3, QueueBatch
    <3>5. Line'[2] = NumsQ(Append(q, w), n) /\ Line[2] = NumsQ(q, n)
      BY <2>2, <2>9, LinePlaces, LinePlacesNext
    <3>6. Risen' /\ Zeroed'
      BY <2>2, <2>3, <2>9, <3>4, <1>r DEF Risen, Zeroed, Rising, RisingQ, Undrawn, Zero, ZeroQ
    <3>7. \A x \in {w[1][2], w[2][2]} : x \in Line[2 + 1] /\ \A y \in Line'[2 + 1] : x < y
      BY <2>3, <2>4, <2>6
    <3>8. \A x \in Line'[2] : x \in Line[2] \/ x \in {w[1][2], w[2][2]}
      BY <3>4, <3>5
    <3>m. MovesOn(Line, Line', 2, {w[1][2], w[2][2]})
      BY <3>7, <3>8, <2>5 DEF MovesOn
    <3> QED
      BY <3>m, <3>6, <2>6, <2>7, DrawMove
  <2> QED
    BY <2>2, <2>8, <2>9
<1>12. CASE DispPop
  <2>1. UNCHANGED <<decoded, dec, out, sched, schedCh, task, gtaskque, inf, cur, imginfoque>>
    BY <1>12 DEF DispPop
  <2>2. CASE UNCHANGED <<gresultque1, dispNum, shown>>
    BY <2>1, <2>2, DrawFrame DEF Kept4, Kept6, Kept8
  <2>3. CASE Draw1 /\ gresultque1 # << >>
    <3> DEFINE q == gresultque1
               n == dispNum
               f == q[1][n + 1]
               p == IF n = 1 THEN Tail(q) ELSE q
    <3>1. /\ q \in Seq(Seq(Images)) /\ RisingQ(q, n) /\ ZeroQ(q, n) /\ n \in {0, 1}
          /\ shown \in Seq(Images) /\ Rising(shown) /\ Zero(shown)
      BY <1>i, <1>r DEF TypeOK, Risen, Zeroed
    <3>2. \A i \in 1 .. Len(q), a \in {1, 2} : q[i][a] \in Images
      <4>1. \A i \in 1 .. Len(q) : q[i] \in Seq(Images) /\ Len(q[i]) = 2
        BY <3>1, <1>i, ElementOfSeq DEF TypeOK
      <4> QED
        BY <4>1, ElementOfSeq
    <3>3. /\ f \in Images /\ f[2] \in NumsQ(q, n) /\ RisingQ(p, 1 - n)
          /\ \A y \in NumsQ(p, 1 - n) : y \in NumsQ(q, n) /\ f[2] < y
          /\ f[1] = 0 /\ ZeroQ(p, 1 - n)
      BY <3>1, <3>2, <2>3, DrawOne
    <3>4. shown' = Append(shown, f) /\ gresultque1' = p /\ dispNum' = 1 - n
      <4>1. Head(q) = q[1]
        BY <3>1, <2>3, PopHead
      <4>2. (n + 1) % 2 = 1 - n
        BY <3>1
      <4> QED
        BY <4>1, <4>2, <2>3 DEF Draw1
    <3> HIDE DEF f, p
    <3>5. /\ Line[2] = NumsQ(q, n) /\ Line'[2] = NumsQ(p, 1 - n)
          /\ Line[1] = Nums(shown) /\ Line'[1] = Nums(Append(shown, f))
      BY <3>4, LinePlaces, LinePlacesNext
    <3>6. 1 \in 1 .. 7 /\ 1 + 1 = 2
      OBVIOUS
    <3>7. \A y \in Nums(shown) : y < f[2]
      <4>1. f[2] \in Line[1 + 1]
        BY <3>3, <3>5, <3>6
      <4>2. \A y \in Line[1] : y < f[2]
        BY <4>1, <3>6, Behind
      <4> QED
        BY <4>2, <3>5
    <3>8. /\ Rising(Append(shown, f)) /\ Zero(Append(shown, f))
          /\ \A y \in Nums(Append(shown, f)) : y \in Nums(shown) \/ y = f[2]
      BY <3>1, <3>3, <3>7, PushRising
    <3>9. Risen' /\ Zeroed'
      BY <2>1, <3>3, <3>4, <3>8, <1>r DEF Risen, Zeroed, Rising, RisingQ, Undrawn, Zero, ZeroQ
    <3>10. /\ Line'[3] = Line[3] /\ Line'[4] = Line[4] /\ Line'[5] = Line[5]
           /\ Line'[6] = Line[6] /\ Line'[7] = Line[7] /\ Line'[8] = Line[8]
      BY <2>1, LinePlaces, LinePlacesNext
    <3>11. \A j \in Places : j # 1 => \A x \in Line'[j] : x \in Line[j]
      BY <3>3, <3>5, <3>10, EightPlaces
    <3>12. /\ \A x \in {f[2]} : x \in Line[1 + 1] /\ \A y \in Line'[1 + 1] : x < y
           /\ \A x \in Line'[1] : x \in Line[1] \/ x \in {f[2]}
      BY <3>3, <3>5, <3>6, <3>8
    <3>13. decoded'[0] = decoded[0]
      BY <2>1
    <3>m. MovesOn(Line, Line', 1, {f[2]})
      BY <3>11, <3>12 DEF MovesOn
    <3> QED
      BY <3>m, <3>6, <3>9, <3>13, DrawMove
  <2> QED
    BY <1>12, <2>2, <2>3 DEF DispPop, Draw1
<1>13. CASE MainCleanup
  <2>1. /\ UNCHANGED <<decoded, dec, sched, schedCh, task, gtaskque, inf, cur, imginfoque,
                       gresultque1, dispNum, shown>>
        /\ out'[0] = << >>
    BY <1>13, <1>b DEF MainCleanup
  <2>2. Nums(out'[0]) = {} /\ Rising(out'[0])
    BY <2>1 DEF Nums, Rising
  <2>3. /\ Line'[1] = Line[1] /\ Line'[2] = Line[2] /\ Line'[3] = Line[3] /\ Line'[4] = Line[4]
        /\ Line'[5] = Line[5] /\ Line'[6] = Line[6] /\ Line'[8] = Line[8] /\ Line'[7] = {}
    BY <2>1, <2>2, LinePlaces, LinePlacesNext
  <2>4. \A j \in Places : \A x \in Line'[j] : x \in Line[j]
    BY <2>3, EightPlaces
  <2>5. Ordered(Line', decoded[0])
    BY <2>4, DropSome DEF Drawing
  <2>6. Risen' /\ Zeroed'
    BY <2>1, <2>2, <1>r DEF Risen, Zeroed, Rising, RisingQ, Undrawn, Zero, ZeroQ
  <2> QED
    BY <2>1, <2>5, <2>6 DEF Drawing, Ordered
<1>14. CASE DispWait \/ sigint_hanlder \/ MainStop \/ MainJoin \/ UNCHANGED vars
  <2>1. UNCHANGED <<decoded, dec, out, sched, schedCh, task, gtaskque, inf, cur, imginfoque,
                    gresultque1, dispNum, shown>>
    BY <1>14 DEF DispWait, sigint_hanlder, MainStop, MainJoin, vars
  <2> QED
    BY <2>1, DrawFrame DEF Kept4, Kept6, Kept8
<1> QED
  BY <1>1, <1>2, <1>3, <1>4, <1>5, <1>6, <1>7, <1>8, <1>9, <1>10, <1>11, <1>12, <1>13, <1>14
     DEF Next, DecStep, SchedStep, InferStep, DispStep

(* The display takes the images of channel 0 out of their batches one by    *)
(* one, with a counter that lives between its wake-ups: with the batch of   *)
(* two of the code they come in the order of the stream, each once,         *)
(* whatever dpipe_get or an inference result without a box drops.           *)
THEOREM DrawnAsDecoded ==
  ASSUME NUM_OF_CPU_BATCH = 2
  PROVE  Spec => []DrawnInOrder
<1>1. Init => Drawing
  <2> SUFFICES ASSUME Init PROVE Drawing
    OBVIOUS
  <2>1. /\ shown = << >> /\ gresultque1 = << >> /\ dispNum = 0 /\ sched = "wait"
        /\ inf[CPU] = "wait" /\ gtaskque[CPU] = << >> /\ out[0] = << >> /\ decoded[0] = 3
        /\ imginfoque[CPU] = [i \in 1 .. 2 |-> <<0, i>>]
    BY Sizes DEF Init, First, Batch, GPU, CPU
  <2>2. Len(shown) = 0 /\ Len(gresultque1) = 0 /\ Len(gtaskque[CPU]) = 0 /\ Len(out[0]) = 0
    BY <2>1
  <2>3. /\ Len(imginfoque[CPU]) = 2
        /\ \A i \in 1 .. 2 : imginfoque[CPU][i][1] = 0 /\ imginfoque[CPU][i][2] = i
    BY <2>1
  <2>4. Risen /\ Zeroed
    BY <2>1, <2>2, <2>3 DEF Risen, Zeroed, Rising, RisingQ, Zero, ZeroQ
  <2>5. /\ Nums(shown) = {} /\ NumsQ(gresultque1, dispNum) = {} /\ Nums(gtaskque[CPU]) = {}
        /\ Nums(out[0]) = {}
    BY <2>2 DEF Nums, NumsQ
  <2>6. \A x \in Nums(imginfoque[CPU]) : x = 1 \/ x = 2
    BY <2>3 DEF Nums
  <2>7. /\ Line[1] = {} /\ Line[2] = {} /\ Line[4] = {} /\ Line[5] = {} /\ Line[6] = {}
        /\ Line[7] = {} /\ \A x \in Line[3] : x = 1 \/ x = 2
        /\ \A x \in Line[8] : x = 3
    BY <2>1, <2>5, <2>6, LinePlaces
  <2>8. Ordered(Line, 3)
    <3>1. \A k \in Places : \A x \in Line[k] : (k = 3 /\ (x = 1 \/ x = 2)) \/ (k = 8 /\ x = 3)
      BY <2>7, EightPlaces
    <3> QED
      BY <3>1 DEF Ordered
  <2> QED
    BY <2>1, <2>4, <2>8 DEF Drawing
<1>2. IInv /\ Drawing /\ [Next]_vars => Drawing'
  BY DrawStep
<1>3. IInv /\ Drawing => DrawnInOrder
  <2> SUFFICES ASSUME IInv, Drawing, NEW i \in DOMAIN shown, NEW j \in DOMAIN shown, i < j
               PROVE  shown[i][1] = 0 /\ shown[i][2] < shown[j][2]
    BY DEF DrawnInOrder
  <2>1. DOMAIN shown = 1 .. Len(shown)
    BY LenProperties DEF IInv, TypeOK
  <2> QED
    BY <2>1 DEF Drawing, Risen, Zeroed, Rising, Zero
<1> QED
  BY <1>1, <1>2, <1>3, Inductive, PTL DEF Spec
-----------------------------------------------------------------------------
(* What the threads wait for. *)

(* A decoder is at its bound only with all its frames decoded, and every    *)
(* batch in gresultque has a token or the display at work.                  *)
Rests ==
  /\ \A c \in Channels : dec[c] = "loop" => decoded[c] = Bound(c)
  /\ gresultque <= g_semtshow + (IF disp = "pop" THEN 1 ELSE 0)

(* The GPU's thread posts for each batch it queues; the display takes a     *)
(* token before it takes a batch.                                           *)
LEMMA RestsStep == TypeOK /\ Rests /\ [Next]_vars => Rests'
<1> SUFFICES ASSUME TypeOK, Rests, [Next]_vars PROVE Rests'
  OBVIOUS
<1>a. /\ dec \in [Channels -> {"loop", "get", "post", "done"}]
      /\ decoded \in [Channels -> Nat \ {0}]
      /\ gresultque \in Nat /\ g_semtshow \in Nat
  BY DEF TypeOK
<1> USE DEF Rests
<1>1. ASSUME NEW c \in Channels, DecStep(c) PROVE Rests'
  <2>1. UNCHANGED <<gresultque, g_semtshow, disp>>
    BY <1>1 DEF DecStep, DecStore, DecPost, DecLeave
  <2>2. \/ \E l \in {"get", "post", "done"} : DecGoto(c, l) /\ UNCHANGED decoded
        \/ DecGoto(c, "get") /\ decoded' = [decoded EXCEPT ![c] = decoded[c] + 1]
        \/ DecGoto(c, "loop") /\ decoded[c] = Bound(c) /\ UNCHANGED decoded
    BY <1>1 DEF DecStep, DecStore, DecPost, DecLeave
  <2>3. ASSUME NEW e \in Channels, dec'[e] = "loop" PROVE decoded'[e] = Bound(e)
    BY <2>2, <2>3, <1>a DEF DecGoto
  <2> QED
    BY <2>1, <2>3 DEF Bound
<1>2. CASE SchedStep
  BY <1>2 DEF SchedStep, SchedWait, SchedLoad, SchedPush, SchedPost, Bound
<1>3. CASE DispStep
  <2>1. UNCHANGED <<dec, decoded>>
    BY <1>3 DEF DispStep, DispWait, DispPop
  <2>2. \/ disp = "wait" /\ disp' = "pop" /\ g_semtshow' = g_semtshow - 1
           /\ gresultque' = gresultque
        \/ disp = "pop" /\ disp' # "pop" /\ g_semtshow' = g_semtshow
           /\ \/ gresultque' = gresultque - 1
              \/ gresultque = 0 /\ gresultque' = 0
    BY <1>3 DEF DispStep, DispWait, DispPop, Top
  <2>3. gresultque' <= g_semtshow' + (IF disp' = "pop" THEN 1 ELSE 0)
    BY <2>2, <1>a
  <2> QED
    BY <2>1, <2>3 DEF Bound
<1>4. ASSUME NEW d \in Devices, InferStep(d) PROVE Rests'
  <2>1. UNCHANGED <<dec, decoded, disp>>
    BY <1>4 DEF InferStep, InferWait, InferPop, InferInsert, InferResults, InferThrottle
  <2>2. \/ UNCHANGED <<gresultque, g_semtshow>>
        \/ g_semtshow' = g_semtshow + 1 /\ gresultque' \in {gresultque, gresultque + 1}
    BY <1>4 DEF InferStep, InferWait, InferPop, InferInsert, InferResults, InferThrottle
  <2>3. gresultque' <= g_semtshow' + (IF disp' = "pop" THEN 1 ELSE 0)
    BY <2>1, <2>2, <1>a
  <2> QED
    BY <2>1, <2>3 DEF Bound
<1>5. CASE MainStop
  <2>1. UNCHANGED <<dec, decoded, disp, gresultque>> /\ g_semtshow' = g_semtshow + 1
    BY <1>5 DEF MainStop
  <2> QED
    BY <2>1, <1>a DEF Bound
<1>6. CASE sigint_hanlder \/ MainJoin \/ MainCleanup \/ UNCHANGED vars
  <2>1. UNCHANGED <<dec, decoded, disp, gresultque, g_semtshow>>
    BY <1>6 DEF sigint_hanlder, MainJoin, MainCleanup, vars
  <2> QED
    BY <2>1 DEF Bound
<1> QED
  BY <1>1, <1>2, <1>3, <1>4, <1>5, <1>6 DEF Next

(* Why the threads are never at rest with work left: no batch is queued for *)
(* a display without a token, so the GPU's thread is not in its throttle;   *)
(* with both inference threads waiting no task is queued, with the          *)
(* scheduler waiting no frame is stored; hence all buffers are free, and no *)
(* decoder waits for one.                                                   *)
LEMMA RestingMeansDone ==
  IInv /\ Rests /\ TasksHaveTokens /\ FramesTokened => RestsWhenDone
<1> SUFFICES ASSUME IInv, Rests, TasksHaveTokens, FramesTokened,
                    SchedWaits, DispWaits,
                    \A c \in Channels : dec[c] = "loop" \/ DecWaits(c),
                    \A d \in Devices : InferWaits(d)
             PROVE  /\ \A c \in Channels : /\ dec[c] = "loop" /\ decoded[c] = Bound(c)
                                           /\ out[c] = << >> /\ free[c] = NumBuffers
                    /\ \A d \in Devices : gtaskque[d] = << >>
                    /\ gresultque = 0
  BY DEF RestsWhenDone
<1>a. /\ out \in [Channels -> Seq(Images)] /\ gtaskque \in [Devices -> Seq(Images)]
      /\ gsemtInfer \in [Devices -> Nat] /\ free \in [Channels -> 0 .. NumBuffers]
      /\ gresultque \in Nat /\ NumBuffers \in Nat \ {0} /\ NumChannels \in Nat
  BY Sizes DEF IInv, TypeOK
<1>1. gresultque = 0
  BY <1>a DEF DispWaits, Rests
<1>2. \A d \in Devices : inf[d] = "wait" /\ gsemtInfer[d] = 0
  BY <1>1 DEF InferWaits
<1>3. \A d \in Devices : gtaskque[d] = << >>
  BY <1>2 DEF TasksHaveTokens, SchedWaits
<1>4. \A c \in Channels : out[c] = << >>
  <2>1. Posting(dec) = {}
    BY DEF Posting, DecWaits
  <2>2. Cardinality(Posting(dec)) = 0
    BY <2>1, FS_EmptySet
  <2>3. Below(out, NumChannels) <= 0
    BY <2>2 DEF FramesTokened, Enough, SchedWaits
  <2>4. IsFiniteSet(StoredIn(out, NumChannels))
    <3>1. out \in Pipes /\ NumChannels \in 0 .. NumChannels
      BY <1>a DEF Pipes
    <3> QED
      BY <3>1, StoredFinite
  <2>5. StoredIn(out, NumChannels) = {}
    BY <2>3, <2>4, FS_CardinalityType, FS_EmptySet DEF Below
  <2> SUFFICES ASSUME NEW c \in Channels, out[c] # << >> PROVE FALSE
    OBVIOUS
  <2>6. 1 \in 1 .. Len(out[c])
    BY <1>a
  <2>7. c \in 0 .. NumChannels - 1
    BY DEF Channels
  <2>8. <<c, 1>> \in StoredIn(out, NumChannels)
    BY <2>6, <2>7 DEF StoredIn
  <2> QED
    BY <2>5, <2>8
<1>5. main # "exit"
  BY DEF IInv, Joined, DispWaits
<1>6. ASSUME NEW c \in Channels PROVE free[c] = NumBuffers
  <2>1. Pooled(c)
    BY <1>5 DEF IInv, AllPooled
  <2>2. SchedHolds(c) = 0 /\ Len(out[c]) = 0
    BY <1>4 DEF SchedHolds, SchedWaits
  <2>3. InferHold(c) = {}
    BY <1>2 DEF InferHold
  <2>4. \A d \in Devices : OfChannel(gtaskque[d], c) = {}
    BY <1>3 DEF OfChannel
  <2>5. QueuedFor(gtaskque, GPU, c) = 0 /\ QueuedFor(gtaskque, CPU, c) = 0
        /\ Cardinality(InferHold(c)) = 0
    BY <2>3, <2>4, Sizes, FS_EmptySet DEF QueuedFor
  <2>6. free[c] \in Nat
    BY <1>a
  <2> QED
    BY <2>1, <2>2, <2>5, <2>6, <1>a DEF Pooled, Accounted
<1>7. \A c \in Channels : dec[c] = "loop"
  BY <1>6, <1>a DEF DecWaits
<1> QED
  BY <1>1, <1>3, <1>4, <1>6, <1>7 DEF Rests

(* The threads do not wait for each other in a circle, whatever the numbers *)
(* of channels and buffers and the batch sizes are: while the program runs, *)
(* all are at rest only when all frames have been through the inference.    *)
THEOREM NobodyWaitsInVain == Spec => []RestsWhenDone
<1>1. Init => Rests
  BY DEF Init, Rests
<1>2. IInv /\ Rests /\ [Next]_vars => Rests'
  BY RestsStep DEF IInv
<1> QED
  BY <1>1, <1>2, RestingMeansDone, TokensInductive, Inductive, PTL DEF Spec

-----------------------------------------------------------------------------
(* SIGINT. *)

Joins == {"join_assist", "join_infer", "join_sched", "join_dec"}

(* What the flag and main's posts have done once main joins. *)
Woken ==
  /\ main # "pause" => ~grunning
  /\ ~grunning => main # "pause"
  /\ main \in Joins =>
       /\ sched = "wait" => gNewtaskAvaiable > 0
       /\ disp = "wait" => g_semtshow > 0
       /\ \A d \in Devices : inf[d] = "wait" => gsemtInfer[d] > 0

(* A thread comes to its sem_wait only with grunning set, and main posts to *)
(* each after it was cleared.                                               *)
LEMMA WokenStep == TypeOK /\ Woken /\ [Next]_vars => Woken'
<1> SUFFICES ASSUME TypeOK, Woken, [Next]_vars PROVE Woken'
  OBVIOUS
<1>a. /\ gNewtaskAvaiable \in Nat /\ g_semtshow \in Nat /\ gsemtInfer \in [Devices -> Nat]
      /\ inf \in [Devices -> {"wait", "empty", "put", "push", "throttle", "done"}]
  BY DEF TypeOK
<1> USE DEF Woken, Joins
<1>1. ASSUME NEW c \in Channels, DecStep(c) PROVE Woken'
  <2>1. /\ UNCHANGED <<main, grunning, sched, disp, inf, gsemtInfer, g_semtshow>>
        /\ gNewtaskAvaiable' \in {gNewtaskAvaiable, gNewtaskAvaiable + 1}
    BY <1>1 DEF DecStep, DecStore, DecPost, DecLeave
  <2> QED
    BY <2>1, <1>a
<1>2. CASE SchedStep
  <2>1. /\ UNCHANGED <<main, grunning, disp, inf, g_semtshow>>
        /\ sched' = "wait" => grunning
    BY <1>2 DEF SchedStep, SchedWait, SchedLoad, SchedPush, SchedPost, NextPipe, Top
  <2>2. \/ gsemtInfer' = gsemtInfer
        \/ gsemtInfer' = [gsemtInfer EXCEPT ![DeviceFor(schedCh)] = gsemtInfer[DeviceFor(schedCh)] + 1]
    BY <1>2 DEF SchedStep, SchedWait, SchedLoad, SchedPush, SchedPost
  <2>3. \A d \in Devices : gsemtInfer'[d] >= gsemtInfer[d]
    BY <2>2, <1>a
  <2>4. \A d \in Devices : gsemtInfer[d] > 0 => gsemtInfer'[d] > 0
    BY <2>2, <1>a
  <2> QED
    BY <2>1, <2>4
<1>3. CASE DispStep
  <2>1. /\ UNCHANGED <<main, grunning, sched, gNewtaskAvaiable, inf, gsemtInfer>>
        /\ disp' = "wait" => grunning
    BY <1>3 DEF DispStep, DispWait, DispPop, Top
  <2> QED
    BY <2>1
<1>4. ASSUME NEW d \in Devices, InferStep(d) PROVE Woken'
  <2>1. /\ UNCHANGED <<main, grunning, sched, gNewtaskAvaiable, disp>>
        /\ g_semtshow' \in {g_semtshow, g_semtshow + 1}
    BY <1>4 DEF InferStep, InferWait, InferPop, InferInsert, InferResults, InferThrottle
  <2>2. /\ inf'[d] = "wait" => grunning
        /\ \A e \in Devices \ {d} : inf'[e] = inf[e] /\ gsemtInfer'[e] = gsemtInfer[e]
    BY <1>4, <1>a DEF InferStep, InferWait, InferPop, InferInsert, InferResults,
                      InferThrottle, InfGoto, Top
  <2> QED
    BY <2>1, <2>2, <1>a
<1>5. CASE MainStop
  <2>1. /\ main = "stop" /\ UNCHANGED <<grunning, sched, disp, inf>>
        /\ gNewtaskAvaiable' = gNewtaskAvaiable + 1 /\ g_semtshow' = g_semtshow + 1
    BY <1>5 DEF MainStop
  <2>2. \A d \in Devices : gsemtInfer'[d] > 0
    BY <1>5, <1>a DEF MainStop
  <2>3. gNewtaskAvaiable' > 0 /\ g_semtshow' > 0 /\ main' # "pause" /\ ~grunning'
    BY <1>5, <2>1, <1>a DEF MainStop
  <2> QED
    BY <2>2, <2>3
<1>6. CASE sigint_hanlder \/ MainJoin \/ MainCleanup \/ UNCHANGED vars
  <2>1. UNCHANGED <<sched, disp, inf, gNewtaskAvaiable, g_semtshow, gsemtInfer>>
    BY <1>6 DEF sigint_hanlder, MainJoin, MainCleanup, vars
  <2>2. /\ main' # "pause" => ~grunning'
        /\ ~grunning' => main' # "pause"
        /\ main' \in Joins => main \in Joins
    BY <1>6 DEF sigint_hanlder, MainJoin, MainCleanup, vars
  <2> QED
    BY <2>1, <2>2
<1> HIDE DEF Woken, Joins
<1> QED
  BY <1>1, <1>2, <1>3, <1>4, <1>5, <1>6 DEF Next

LEMMA WokenInductive == Spec => []Woken
<1>1. Init => Woken
  <2> SUFFICES ASSUME Init PROVE Woken
    OBVIOUS
  <2>1. grunning /\ main = "pause"
    BY DEF Init
  <2> QED
    BY <2>1 DEF Woken, Joins
<1>2. IInv /\ Woken /\ [Next]_vars => Woken'
  BY WokenStep DEF IInv
<1> QED
  BY <1>1, <1>2, Inductive, PTL DEF Spec

(* With workload balance no thread is left waiting when main joins: every   *)
(* semaphore has a token for a thread that is about to wait, the throttle   *)
(* looks at grunning, and dpipe_get returns after dpipe_stop.               *)
THEOREM NobodyBlocks == Spec => []ShutdownWakes
<1>1. Woken => ShutdownWakes
  BY DEF Woken, Joins, ShutdownWakes, SchedWaits, DispWaits, InferWaits, DecWaits, Stopped
<1> QED
  BY <1>1, WokenInductive, PTL

(* The numbers Work is the sum of. *)
LEMMA WorkTypes ==
  TypeOK => /\ DecWork \in Nat /\ RoundWork \in Nat /\ DispWork \in Nat /\ MainWork \in Nat
            /\ \A d \in Devices : InferWork(d) \in Nat
<1> SUFFICES ASSUME TypeOK
             PROVE  /\ DecWork \in Nat /\ RoundWork \in Nat /\ DispWork \in Nat
                    /\ MainWork \in Nat /\ \A d \in Devices : InferWork(d) \in Nat
  OBVIOUS
<1>1. NumChannels \in Nat \ {0} /\ schedCh \in 0 .. NumChannels - 1
  BY Sizes DEF TypeOK, Channels
<1>2. IsFiniteSet(Channels) /\ 0 \in Channels
  BY <1>1, FS_Interval DEF Channels
<1>3. ASSUME NEW P PROVE DecAt(P) \in Nat
  <2>1. DecAt(P) = CountIn(dec, Channels, P)
    BY DEF DecAt, CountIn
  <2>2. CountIn(dec, Channels, P) \in Nat
    BY <1>2, CountOne
  <2> QED
    BY <2>1, <2>2
<1>4. DecWork \in Nat
  BY <1>3 DEF DecWork
<1>5. RoundWork \in Nat
  BY <1>1 DEF RoundWork
<1>6. ASSUME NEW d \in Devices PROVE InferWork(d) \in Nat
  <2>1. gtaskque[d] \in Seq(Images)
    BY DEF TypeOK
  <2>2. Len(gtaskque[d]) \in Nat /\ InferAt(d) \in Nat
    BY <2>1 DEF InferAt
  <2> QED
    BY <2>2 DEF InferWork
<1> QED
  BY <1>4, <1>5, <1>6 DEF DispWork, MainWork

(* A decoder's step, with grunning cleared, lowers its share. *)
LEMMA DecWorkStep ==
  ASSUME TypeOK, NEW c \in Channels, NEW l,
         \/ dec[c] = "get" /\ l \in {"post", "done"}
         \/ dec[c] \in {"post", "loop"} /\ l = "done",
         DecGoto(c, l)
  PROVE  DecWork' \in Nat /\ DecWork' < DecWork
<1>1. dec \in [Channels -> {"loop", "get", "post", "done"}]
  BY DEF TypeOK
<1>2. IsFiniteSet(Channels)
  BY Sizes, FS_Interval DEF Channels
<1>3. dec'[c] = l /\ \A x \in Channels \ {c} : dec'[x] = dec[x]
  BY <1>1 DEF DecGoto
<1>4. ASSUME NEW P
      PROVE  /\ DecAt(P) \in Nat /\ DecAt(P)' \in Nat
             /\ (dec[c] \in P <=> l \in P) => DecAt(P)' = DecAt(P)
             /\ dec[c] \in P /\ l \notin P => DecAt(P)' = DecAt(P) - 1
  <2>1. DecAt(P) = CountIn(dec, Channels, P) /\ DecAt(P)' = CountIn(dec', Channels, P)
    BY DEF DecAt, CountIn, Channels
  <2> DEFINE n == CountIn(dec, Channels, P)
             m == CountIn(dec', Channels, P)
  <2>2. /\ n \in Nat /\ m \in Nat
        /\ dec[c] \in P /\ dec'[c] \in P => m = n
        /\ dec[c] \notin P /\ dec'[c] \notin P => m = n
        /\ dec[c] \in P /\ dec'[c] \notin P => m = n - 1
    BY <1>2, <1>3, CountOne
  <2> QED
    BY <1>3, <2>1, <2>2
<1>5. CASE dec[c] = "get" /\ l \in {"post", "done"}
  <2>1. DecAt({"get"})' = DecAt({"get"}) - 1
    BY <1>4, <1>5
  <2>2. DecAt({"get", "post", "loop"})' <= DecAt({"get", "post", "loop"})
    BY <1>4, <1>5
  <2> QED
    BY <1>4, <2>1, <2>2 DEF DecWork
<1>6. CASE dec[c] \in {"post", "loop"} /\ l = "done"
  <2>1. DecAt({"get"})' = DecAt({"get"})
    BY <1>4, <1>6
  <2>2. DecAt({"get", "post", "loop"})' = DecAt({"get", "post", "loop"}) - 1
    BY <1>4, <1>6
  <2> QED
    BY <1>4, <2>1, <2>2 DEF DecWork
<1> QED
  BY <1>5, <1>6

(* So does a step of an inference thread, which leaves the other's share. *)
LEMMA InferWorkStep ==
  ASSUME TypeOK, ~grunning, NEW d \in Devices, InferStep(d)
  PROVE  /\ InferWork(d)' \in Nat /\ InferWork(d)' < InferWork(d)
         /\ \A e \in Devices \ {d} : InferWork(e)' = InferWork(e)
<1>1. /\ gtaskque \in [Devices -> Seq(Images)]
      /\ inf \in [Devices -> {"wait", "empty", "put", "push", "throttle", "done"}]
  BY DEF TypeOK
<1>2. \A e \in Devices \ {d} : gtaskque'[e] = gtaskque[e] /\ inf'[e] = inf[e]
  BY <1>1 DEF InferStep, InferWait, InferPop, InferInsert, InferResults, InferThrottle,
              InfGoto
<1>3. \/ /\ gtaskque'[d] = gtaskque[d]
         /\ \/ inf[d] \in {"wait", "throttle"} /\ inf'[d] = "empty"
            \/ inf[d] = "empty" /\ inf'[d] = "done"
            \/ inf[d] = "put" /\ inf'[d] \in {"push", "empty"}
            \/ inf[d] = "push" /\ inf'[d] \in {"empty", "throttle"}
      \/ /\ gtaskque[d] # << >> /\ gtaskque'[d] = Tail(gtaskque[d])
         /\ inf[d] = "empty" /\ inf'[d] = "put"
  BY <1>1 DEF InferStep, InferWait, InferPop, InferInsert, InferResults, InferThrottle,
              InfGoto, Top
<1>8. \A e \in Devices \ {d} : InferWork(e)' = InferWork(e)
  BY <1>2 DEF InferWork, InferAt
<1>4. PICK n \in Nat : n = Len(gtaskque[d])
  BY <1>1
<1>5. PICK m : m = Len(gtaskque'[d])
  OBVIOUS
<1>6. CASE gtaskque'[d] = gtaskque[d]
  <2>1. m = n
    BY <1>4, <1>5, <1>6
  <2>2. gtaskque[d] = << >> \/ gtaskque'[d] # Tail(gtaskque[d])
    <3> SUFFICES ASSUME gtaskque[d] # << >>, gtaskque'[d] = Tail(gtaskque[d]) PROVE FALSE
      OBVIOUS
    <3>1. m = n - 1
      BY <1>1, <1>4, <1>5
    <3> QED
      BY <2>1, <3>1
  <2>3. InferAt(d) \in Nat /\ InferAt(d)' \in Nat /\ InferAt(d)' < InferAt(d)
    BY <1>3, <2>2 DEF InferAt
  <2>4. InferWork(d) = 5 * n + InferAt(d) /\ InferWork(d)' = 5 * n + InferAt(d)'
    BY <1>4, <1>5, <2>1 DEF InferWork
  <2>5. InferWork(d)' \in Nat /\ InferWork(d)' < InferWork(d)
    BY <2>3, <2>4
  <2> QED
    BY <2>5, <1>8
<1>7. CASE gtaskque[d] # << >> /\ gtaskque'[d] = Tail(gtaskque[d])
  <2>1. n > 0 /\ m = n - 1
    BY <1>1, <1>4, <1>5, <1>7
  <2>2. gtaskque'[d] # gtaskque[d]
    <3> SUFFICES ASSUME gtaskque'[d] = gtaskque[d] PROVE FALSE
      OBVIOUS
    <3>1. m = n
      BY <1>4, <1>5
    <3> QED
      BY <2>1, <3>1
  <2>3. InferAt(d) = 1 /\ InferAt(d)' = 4
    BY <1>3, <2>2 DEF InferAt
  <2>4. InferWork(d) = 5 * n + 1 /\ InferWork(d)' = 5 * m + 4
    BY <1>4, <1>5, <2>3 DEF InferWork
  <2>5. InferWork(d)' \in Nat /\ InferWork(d)' < InferWork(d)
    BY <2>1, <2>4
  <2> QED
    BY <2>5, <1>8
<1> QED
  BY <1>3, <1>6, <1>7

(* A frame the scheduler hands on gives an inference thread at most five    *)
(* more steps, which weigh less than the scheduler's.                       *)
LEMMA SchedWorkStep ==
  ASSUME TypeOK, ~grunning, SchedStep
  PROVE  /\ RoundWork' \in Nat /\ RoundWork' < RoundWork
         /\ \E d, e \in Devices :
              /\ d # e /\ InferWork(e)' = InferWork(e)
              /\ InferWork(d)' \in {InferWork(d), InferWork(d) + 5}
<1>t. schedCh \in Channels /\ gtaskque \in [Devices -> Seq(Images)]
  BY DEF TypeOK
<1>a. /\ NumChannels \in Nat \ {0} /\ schedCh \in 0 .. NumChannels - 1
      /\ gtaskque \in [Devices -> Seq(Images)] /\ DeviceFor(schedCh) \in Devices
  BY <1>t, Sizes DEF Channels
<1>1. RoundWork' \in Nat /\ RoundWork' < RoundWork
  <2>1. CASE SchedWait
    <3>1. sched = "wait" /\ sched' = "load" /\ schedCh' = 0
      BY <2>1 DEF SchedWait
    <3> QED
      BY <3>1, <1>a DEF RoundWork
  <2>2. CASE sched' # "wait" /\ SchedLoad /\ sched' = "push"
    <3>1. sched = "load" /\ schedCh' = schedCh
      BY <2>2, <1>a DEF SchedLoad, NextPipe, Top
    <3> QED
      BY <3>1, <2>2, <1>a DEF RoundWork
  <2>3. CASE SchedPush
    <3>1. sched = "push" /\ sched' = "post" /\ schedCh' = schedCh
      BY <2>3 DEF SchedPush
    <3> QED
      BY <3>1, <1>a DEF RoundWork
  <2>4. CASE sched \in {"load", "post"} /\ NextPipe
    <3>1. \/ schedCh < NumChannels - 1 /\ sched' = "load" /\ schedCh' = schedCh + 1
          \/ sched' = "done"
      BY <2>4 DEF NextPipe, Top
    <3> QED
      BY <3>1, <2>4, <1>a DEF RoundWork
  <2> QED
    BY <2>1, <2>2, <2>3, <2>4 DEF SchedStep, SchedLoad, SchedPost
<1>2. CASE ~SchedPush
  <2>1. UNCHANGED <<gtaskque, inf>>
    BY <1>2 DEF SchedStep, SchedWait, SchedLoad, SchedPost
  <2>2. \A d \in Devices : InferWork(d)' = InferWork(d)
    BY <2>1 DEF InferWork, InferAt
  <2> QED
    BY <1>1, <2>2, Sizes
<1>3. CASE SchedPush
  <2>1. PICK d \in Devices : d = DeviceFor(schedCh)
    BY <1>a
  <2>2. PICK e \in Devices : e # d
    BY Sizes
  <2>3. task \in Images \cup {NoTask}
    BY DEF TypeOK
  <2>4. /\ inf' = inf /\ gtaskque'[e] = gtaskque[e]
        /\ gtaskque'[d] = Append(gtaskque[d], task)
    BY <1>3, <1>a, <2>1, <2>2 DEF SchedPush
  <2>5. PICK n \in Nat : n = Len(gtaskque[d])
    BY <1>a
  <2>6. PICK m : m = Len(gtaskque'[d])
    OBVIOUS
  <2>7. m = n + 1
    BY <2>4, <2>5, <2>6, <1>a
  <2>8. InferWork(e)' = InferWork(e)
    BY <2>4 DEF InferWork, InferAt
  <2>9. InferWork(d)' = InferWork(d) + 5
    <3>1. InferAt(d)' = InferAt(d) /\ InferAt(d) \in Nat
      BY <2>4 DEF InferAt
    <3>2. InferWork(d) = 5 * n + InferAt(d) /\ InferWork(d)' = 5 * m + InferAt(d)
      BY <2>5, <2>6, <3>1 DEF InferWork
    <3> QED
      BY <2>7, <3>1, <3>2
  <2> QED
    BY <1>1, <2>2, <2>8, <2>9
<1> QED
  BY <1>2, <1>3

(* Every step with grunning cleared lowers Work. *)
LEMMA WorkStep ==
  ASSUME TypeOK, Woken, ~grunning, Next
  PROVE  Work' < Work
<1>a. /\ DecWork \in Nat /\ RoundWork \in Nat /\ DispWork \in Nat /\ MainWork \in Nat
      /\ InferWork(GPU) \in Nat /\ InferWork(CPU) \in Nat
  BY WorkTypes, Sizes
<1>b. main # "pause"
  BY DEF Woken
<1>c. /\ Work = DecWork + 6 * RoundWork + InferWork(GPU) + InferWork(CPU) + DispWork + MainWork
      /\ Work' = DecWork' + 6 * RoundWork' + InferWork(GPU)' + InferWork(CPU)' + DispWork'
                 + MainWork'
  BY DEF Work
<1>d. /\ UNCHANGED dec => DecWork' = DecWork
      /\ UNCHANGED <<sched, schedCh>> => RoundWork' = RoundWork
      /\ UNCHANGED disp => DispWork' = DispWork
      /\ UNCHANGED main => MainWork' = MainWork
      /\ UNCHANGED <<inf, gtaskque>> =>
           InferWork(GPU)' = InferWork(GPU) /\ InferWork(CPU)' = InferWork(CPU)
  BY DEF DecWork, DecAt, RoundWork, DispWork, MainWork, InferWork, InferAt, GPU, CPU
<1>1. ASSUME NEW c \in Channels, DecStep(c) PROVE Work' < Work
  <2>1. UNCHANGED <<sched, schedCh, disp, main, inf, gtaskque>>
    BY <1>1 DEF DecStep, DecStore, DecPost, DecLeave
  <2>2. \/ dec[c] = "get" /\ (DecGoto(c, "post") \/ DecGoto(c, "done"))
        \/ dec[c] \in {"post", "loop"} /\ DecGoto(c, "done")
    BY <1>1 DEF DecStep, DecStore, DecPost, DecLeave
  <2>3. DecWork' \in Nat /\ DecWork' < DecWork
    BY <2>2, DecWorkStep
  <2>4. PICK e : e = DecWork'
    OBVIOUS
  <2>5. e \in Nat /\ e < DecWork
    BY <2>3, <2>4
  <2>6. Work' = e + 6 * RoundWork + InferWork(GPU) + InferWork(CPU) + DispWork + MainWork
    BY <2>1, <2>4, <1>c, <1>d
  <2> QED
    BY <2>5, <2>6, <1>a, <1>c
<1>2. CASE SchedStep
  <2>1. UNCHANGED <<dec, disp, main>>
    BY <1>2 DEF SchedStep, SchedWait, SchedLoad, SchedPush, SchedPost
  <2>2. PICK r : r = RoundWork'
    OBVIOUS
  <2>3. r \in Nat /\ r < RoundWork
    BY <1>2, <2>2, SchedWorkStep
  <2>4. PICK g : g = InferWork(GPU)'
    OBVIOUS
  <2>5. PICK h : h = InferWork(CPU)'
    OBVIOUS
  <2>6. \/ g = InferWork(GPU) /\ h \in {InferWork(CPU), InferWork(CPU) + 5}
        \/ h = InferWork(CPU) /\ g \in {InferWork(GPU), InferWork(GPU) + 5}
    <3>1. PICK d, e \in Devices :
              /\ d # e /\ InferWork(e)' = InferWork(e)
              /\ InferWork(d)' \in {InferWork(d), InferWork(d) + 5}
      BY <1>2, SchedWorkStep
    <3>2. (d = GPU /\ e = CPU) \/ (d = CPU /\ e = GPU)
      BY <3>1 DEF Devices
    <3> QED
      BY <3>1, <3>2, <2>4, <2>5
  <2>7. Work' = DecWork + 6 * r + g + h + DispWork + MainWork
    BY <2>1, <2>2, <2>4, <2>5, <1>c, <1>d
  <2>8. 6 * r + g + h < 6 * RoundWork + InferWork(GPU) + InferWork(CPU)
        /\ g \in Nat /\ h \in Nat
    BY <2>3, <2>6, <1>a
  <2> QED
    BY <2>3, <2>7, <2>8, <1>a, <1>c
<1>3. ASSUME NEW d \in Devices, InferStep(d) PROVE Work' < Work
  <2>1. UNCHANGED <<dec, sched, schedCh, disp, main>>
    BY <1>3 DEF InferStep, InferWait, InferPop, InferInsert, InferResults, InferThrottle
  <2>2. PICK g : g = InferWork(GPU)'
    OBVIOUS
  <2>3. PICK h : h = InferWork(CPU)'
    OBVIOUS
  <2>4. \/ g \in Nat /\ g < InferWork(GPU) /\ h = InferWork(CPU)
        \/ h \in Nat /\ h < InferWork(CPU) /\ g = InferWork(GPU)
    <3>1. /\ InferWork(d)' \in Nat /\ InferWork(d)' < InferWork(d)
          /\ \A e \in Devices \ {d} : InferWork(e)' = InferWork(e)
      BY <1>3, InferWorkStep
    <3>2. CASE d = GPU
      BY <3>1, <3>2, <2>2, <2>3, Sizes
    <3>3. CASE d = CPU
      BY <3>1, <3>3, <2>2, <2>3, Sizes
    <3> QED
      BY <3>2, <3>3 DEF Devices
  <2>5. Work' = DecWork + 6 * RoundWork + g + h + DispWork + MainWork
    BY <2>1, <2>2, <2>3, <1>c, <1>d
  <2> QED
    BY <2>4, <2>5, <1>a, <1>c
<1>4. CASE DispStep
  <2>1. UNCHANGED <<dec, sched, schedCh, main, inf, gtaskque>>
    BY <1>4 DEF DispStep, DispWait, DispPop
  <2>2. (disp = "wait" /\ disp' = "pop") \/ (disp = "pop" /\ disp' = "done")
    <3>1. CASE DispWait
      BY <3>1 DEF DispWait
    <3>2. CASE DispPop
      BY <3>2 DEF DispPop, Top
    <3> QED
      BY <1>4, <3>1, <3>2 DEF DispStep
  <2>3. PICK e : e = DispWork'
    OBVIOUS
  <2>4. e \in Nat /\ e < DispWork
    BY <2>2, <2>3 DEF DispWork
  <2>5. Work' = DecWork + 6 * RoundWork + InferWork(GPU) + InferWork(CPU) + e + MainWork
    BY <2>1, <2>3, <1>c, <1>d
  <2> QED
    BY <2>4, <2>5, <1>a, <1>c
<1>5. CASE MainStop \/ MainJoin \/ MainCleanup
  <2>1. UNCHANGED <<dec, sched, schedCh, disp, inf, gtaskque>>
    BY <1>5 DEF MainStop, MainJoin, MainCleanup
  <2>2. \/ main = "stop" /\ main' = "join_assist"
        \/ main = "join_assist" /\ main' = "join_infer"
        \/ main = "join_infer" /\ main' = "join_sched"
        \/ main = "join_sched" /\ main' = "join_dec"
        \/ main = "join_dec" /\ main' = "cleanup"
        \/ main = "cleanup" /\ main' = "exit"
    BY <1>5 DEF MainStop, MainJoin, MainCleanup
  <2>3. PICK e : e = MainWork'
    OBVIOUS
  <2>4. e \in Nat /\ e < MainWork
    BY <2>2, <2>3 DEF MainWork
  <2>5. Work' = DecWork + 6 * RoundWork + InferWork(GPU) + InferWork(CPU) + DispWork + e
    BY <2>1, <2>3, <1>c, <1>d
  <2> QED
    BY <2>4, <2>5, <1>a, <1>c
<1>6. ~sigint_hanlder
  BY <1>b DEF sigint_hanlder
<1> QED
  BY <1>1, <1>2, <1>3, <1>4, <1>5, <1>6 DEF Next

(* SIGINT ends the work of the build with workload balance: in any order of *)
(* the threads only a bounded number of steps is left, and by NobodyBlocks  *)
(* no thread is left waiting when they are done.                            *)
THEOREM ShutdownComesToRest == Spec => ShutdownSteps
<1>1. IInv /\ Woken /\ [Next]_vars => [~grunning => Work' < Work]_vars
  <2> SUFFICES ASSUME IInv, Woken, [Next]_vars, ~grunning
               PROVE  Work' < Work \/ UNCHANGED vars
    OBVIOUS
  <2>1. TypeOK
    BY DEF IInv
  <2> QED
    BY <2>1, WorkStep
<1> QED
  BY <1>1, WokenInductive, Inductive, PTL DEF Spec, ShutdownSteps
=============================================================================
