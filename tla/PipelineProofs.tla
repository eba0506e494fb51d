--------------------------- MODULE PipelineProofs ---------------------------
(***************************************************************************)
(* TLAPS proofs about Pipeline, for every number of channels, buffers,     *)
(* batch size and frame numbers: no buffer is lost on its way between      *)
(* decoders and scheduler, the display queue is bounded and every batch in *)
(* it has its token, the scheduler does not sleep on frames, frame numbers *)
(* stay with their images until the buffer is taken again, everything has  *)
(* ended when main cleans up, no threads wait for each other in a circle,  *)
(* and the shutdown takes finitely many steps and can only be held up in   *)
(* dpipe_load.                                                             *)
(***************************************************************************)
EXTENDS Pipeline, QueueFacts

USE DEF pipeVars, decVars, taskVars, workVars, schedVars, showVars, auxVars, mainVars

-----------------------------------------------------------------------------
(* The inductive invariant behind BuffersAccounted. *)

(* Who holds a buffer, by the program counters. *)
HoldingPC ==
  /\ sched \in {"put", "insert"} => schedBuf \in Buffers
  /\ \A c \in Channels : dec[c] = "store" <=> decBuf[c] # NoBuffer

(* Threads that are still to be created have not started. *)
Startup ==
  /\ main = "create" => started < NumChannels
  /\ \A c \in Channels : started < c => dec[c] = "none"
  /\ main \in {"create", "sem_init", "threads"} => sched = "none"

TypeInv == TypeOK /\ HoldingPC /\ Startup

(* The pools of a pipe and two threads' hands have every buffer once. *)
Accounted(i, o, s, d) ==
  /\ Elems(i) \cup Elems(o) \cup s \cup d = Buffers
  /\ Len(i) + Len(o) + Cardinality(s) + Cardinality(d) = Cardinality(Buffers)

Pooled(c) == Accounted(in[c], out[c], SchedHolds(c), DecHolds(c))

AllPooled == main # "exit" => \A c \in Channels : Pooled(c)

IInv == TypeInv /\ AllPooled

(* The strengthened type invariant holds when the program starts. *)
LEMMA TypeInit == Init => TypeInv
<1> SUFFICES ASSUME Init PROVE TypeInv
  OBVIOUS
<1>1. \A s \in [1 .. Cardinality(Buffers) -> Buffers] : s \in Seq(Buffers)
  BY Enumeration, PipelineAssumption
<1>2. \E s \in [1 .. Cardinality(Buffers) -> Buffers] :
        \A b \in Buffers : \E i \in DOMAIN s : s[i] = b
  BY Enumeration, PipelineAssumption
<1>3. in \in [Channels -> Seq(Buffers)] /\ out \in [Channels -> Seq(Buffers)]
  <2>1. << >> \in Seq(Buffers)
    OBVIOUS
  <2> DEFINE list == CHOOSE s \in [1 .. Cardinality(Buffers) -> Buffers] :
                       \A b \in Buffers : \E i \in DOMAIN s : s[i] = b
  <2>2. list \in Seq(Buffers)
    BY <1>1, <1>2
  <2>3. in = [c \in Channels |-> list] /\ out = [c \in Channels |-> << >>]
    BY DEF Init
  <2> QED
    BY <2>1, <2>2, <2>3
<1>4. TypeOK
  <2>1. 0 \in 0 .. Labels - 1 /\ 0 \in 0 .. BatchSize - 1 /\ 1 \in Channels
    BY PipelineAssumption DEF Channels
  <2>2. /\ label \in [Channels -> [Buffers -> 0 .. Labels - 1]]
        /\ dec \in [Channels -> DecPC]
        /\ decBuf \in [Channels -> Buffers \cup {NoBuffer}]
        /\ nFrameProcessed \in [Channels -> 0 .. Labels - 1]
    BY <2>1 DEF Init, DecPC
  <2>3. /\ 0 \in 0 .. SemMax /\ 0 \in 0 .. NumChannels /\ gresultque \in Nat
        /\ gNewtaskAvaiable = 0 /\ g_semtshow = 0 /\ gsemtInfer = 0 /\ started = 0
    BY PipelineAssumption DEF Init
  <2> QED
    BY <1>3, <2>1, <2>2, <2>3 DEF Init, TypeOK, SchedPC, MainPC
<1>5. HoldingPC /\ Startup
  BY PipelineAssumption DEF Init, HoldingPC, Startup
<1> QED
  BY <1>4, <1>5 DEF TypeInv

(* Every step of a decoder, the scheduler, the display thread, the statistics thread and
   main keeps the types. *)
LEMMA TypeOKStep == TypeInv /\ [Next]_vars => TypeOK'
<1> SUFFICES ASSUME TypeInv, [Next]_vars PROVE TypeOK'
  OBVIOUS
<1> USE PipelineAssumption DEF TypeInv, Channels
<1>a. /\ gNewtaskAvaiable \in 0 .. SemMax /\ g_semtshow \in 0 .. SemMax
      /\ gsemtInfer \in 0 .. SemMax /\ gresultque \in Nat /\ started \in 0 .. NumChannels
      /\ batchIndex \in 0 .. BatchSize - 1 /\ img \in 0 .. Labels - 1 /\ schedCh \in Channels
  BY DEF TypeOK
<1>b. /\ sched \in SchedPC /\ main \in MainPC /\ disp \in {"top", "wait", "pop", "done"}
      /\ infer \in {"none", "top", "wait", "done"} /\ fps \in {"run", "done"}
  BY DEF TypeOK
<1>c. /\ dec \in [Channels -> DecPC] /\ nFrameProcessed \in [Channels -> 0 .. Labels - 1]
      /\ in \in [Channels -> Seq(Buffers)] /\ out \in [Channels -> Seq(Buffers)]
      /\ label \in [Channels -> [Buffers -> 0 .. Labels - 1]]
  BY DEF TypeOK
<1>d. grunning \in BOOLEAN /\ lostPosts \in BOOLEAN
  BY DEF TypeOK
<1>1. ASSUME NEW c \in Channels, DecFrame(c) \/ FFFrame(c) PROVE TypeOK'
  <2>1. \A n \in 0 .. Labels - 1 : (n + 1) % Labels \in 0 .. Labels - 1
    OBVIOUS
  <2>2. nFrameProcessed' = [nFrameProcessed EXCEPT ![c] = (@ + 1) % Labels]
    BY <1>1 DEF DecFrame, FFFrame
  <2>3. nFrameProcessed' \in [Channels -> 0 .. Labels - 1]
    BY <2>1, <2>2, <1>c
  <2>4. dec' \in [Channels -> DecPC]
    BY <1>1, <1>c DEF DecFrame, FFFrame, DecGoto, DecPC
  <2> QED
    BY ZenonT(60), <1>1, <2>3, <2>4 DEF DecFrame, FFFrame, TypeOK
<1>2. ASSUME NEW c \in Channels, DecLeave(c) \/ DecGetNull(c) PROVE TypeOK'
  BY ZenonT(60), <1>2 DEF DecLeave, DecGetNull, DecGoto, TypeOK, DecPC
<1>3. ASSUME NEW c \in Channels, DecGet(c) PROVE TypeOK'
  <2>1. Head(in[c]) \in Buffers /\ Tail(in[c]) \in Seq(Buffers)
    BY <1>3, PopHead DEF DecGet, TypeOK
  <2> QED
    BY ZenonT(60), <1>3, <2>1 DEF DecGet, DecGoto, TypeOK, DecPC
<1>4. ASSUME NEW c \in Channels, DecGetEldest(c) PROVE TypeOK'
  <2>1. Head(out[c]) \in Buffers /\ Tail(out[c]) \in Seq(Buffers)
    BY <1>4, PopHead DEF DecGetEldest, TypeOK
  <2> QED
    BY <1>4, <2>1 DEF DecGetEldest, DecGoto, TypeOK, DecPC
<1>5. ASSUME NEW c \in Channels, DecStore(c) PROVE TypeOK'
  <2>1. decBuf[c] \in Buffers
    BY <1>5 DEF DecStore, TypeOK, HoldingPC
  <2>2. Append(out[c], decBuf[c]) \in Seq(Buffers)
    BY <2>1, PushTail DEF TypeOK
  <2> QED
    BY ZenonT(60), <1>5, <2>1, <2>2 DEF DecStore, DecGoto, TypeOK, DecPC
<1>6. ASSUME NEW c \in Channels, DecPost(c) PROVE TypeOK'
  <2>1. dec' \in [Channels -> DecPC] /\ gNewtaskAvaiable' \in 0 .. SemMax
    BY <1>6 DEF DecPost, Posted, DecGoto, TypeOK, DecPC
  <2> QED
    BY ZenonT(60), <1>6, <2>1 DEF DecPost, TypeOK
<1>7. CASE SchedTop \/ SchedWait \/ SchedPush \/ SchedPost
  <2>1. /\ sched' \in SchedPC /\ schedCh' \in Channels
        /\ gNewtaskAvaiable' \in 0 .. SemMax /\ g_semtshow' \in 0 .. SemMax
        /\ gresultque' \in Nat
    BY <1>7, <1>a, <1>b DEF SchedTop, SchedWait, SchedPush, SchedPost, Posted, SchedPC
  <2>2. UNCHANGED <<pipeVars, decVars, workVars, lostPosts, disp, auxVars, mainVars>>
    BY <1>7 DEF SchedTop, SchedWait, SchedPush, SchedPost
  <2> QED
    BY <2>1, <2>2 DEF TypeOK
<1>8. CASE SchedLoad
  <2>1. Head(out[schedCh]) \in Buffers /\ Tail(out[schedCh]) \in Seq(Buffers)
    BY <1>8, PopHead DEF SchedLoad, TypeOK
  <2>2. sched' \in SchedPC /\ schedBuf' \in Buffers
    BY <1>8, <2>1 DEF SchedLoad, SchedPC
  <2>3. img' \in 0 .. Labels - 1
    <3>1. label[schedCh] \in [Buffers -> 0 .. Labels - 1]
      BY <1>a, <1>c
    <3>2. img' = label[schedCh][Head(out[schedCh])]
      BY <1>8 DEF SchedLoad
    <3> QED
      BY <2>1, <3>1, <3>2
  <2>4. out' \in [Channels -> Seq(Buffers)]
    BY <1>8, <2>1, <1>a, <1>c DEF SchedLoad
  <2> QED
    BY <1>8, <2>2, <2>3, <2>4 DEF SchedLoad, TypeOK
<1>9. CASE SchedPut
  <2>1. schedBuf \in Buffers
    BY <1>9 DEF SchedPut, HoldingPC
  <2>2. <<schedBuf>> \o in[schedCh] \in Seq(Buffers)
    BY <2>1, PushFront DEF TypeOK, Push
  <2> QED
    BY <1>9, <2>1, <2>2 DEF SchedPut, TypeOK, SchedPC
<1>10. CASE SchedInsert
  <2>1. batchIndex' \in 0 .. BatchSize - 1 /\ img' \in 0 .. Labels - 1
    BY <1>10 DEF SchedInsert, TypeOK
  <2>2. sched' \in SchedPC /\ schedCh' \in Channels
    BY <1>10, <1>a DEF SchedInsert, NextChannel, SchedPC
  <2>3. primed' \in BOOLEAN
    BY <1>10 DEF SchedInsert
  <2> QED
    BY <1>10, <2>1, <2>2, <2>3 DEF SchedInsert, TypeOK
<1>11. CASE SchedThrottle
  <2>1. sched' \in SchedPC /\ schedCh' \in Channels
    BY <1>11 DEF SchedThrottle, NextChannel, TypeOK, SchedPC
  <2> QED
    BY ZenonT(60), <1>11, <2>1 DEF SchedThrottle, TypeOK
<1>12. CASE DispTop \/ DispWait \/ DispPop
  <2>1. /\ disp' \in {"top", "wait", "pop", "done"}
        /\ gresultque' \in Nat /\ g_semtshow' \in 0 .. SemMax
    BY <1>12, <1>a, <1>b DEF DispTop, DispWait, DispPop
  <2> QED
    BY <1>12, <2>1 DEF DispTop, DispWait, DispPop, TypeOK
<1>13. CASE InferTop \/ InferWait \/ FpsReset \/ FpsLeave
  <2>1. /\ infer' \in {"none", "top", "wait", "done"} /\ gsemtInfer' \in 0 .. SemMax
        /\ fps' \in {"run", "done"}
    BY <1>13, <1>a, <1>b DEF InferTop, InferWait, FpsReset, FpsLeave
  <2>2. 0 \in 0 .. Labels - 1
    OBVIOUS
  <2>3. nFrameProcessed' \in [Channels -> 0 .. Labels - 1]
    BY <1>13, <2>2 DEF InferTop, InferWait, FpsReset, FpsLeave, TypeOK
  <2> QED
    BY <1>13, <2>1, <2>3 DEF InferTop, InferWait, FpsReset, FpsLeave, TypeOK
<1>14. CASE MainCreate
  <2>1. started + 1 \in 0 .. NumChannels
    BY <1>14, <1>a DEF MainCreate, Startup
  <2>2. started' \in 0 .. NumChannels /\ main' \in MainPC /\ dec' \in [Channels -> DecPC]
    BY <1>14, <2>1, <1>c DEF MainCreate, DecPC, MainPC
  <2> QED
    BY <1>14, <2>2 DEF MainCreate, TypeOK
<1>15. CASE MainSemInit \/ MainThreads \/ MainPause \/ sigint_hanlder \/ MainStop
  <2>1. /\ main' \in MainPC /\ sched' \in SchedPC
        /\ infer' \in {"none", "top", "wait", "done"}
        /\ gNewtaskAvaiable' \in 0 .. SemMax /\ gsemtInfer' \in 0 .. SemMax
    BY <1>15, <1>a, <1>b DEF MainSemInit, MainThreads, MainPause, sigint_hanlder, MainStop,
                             Posted, MainPC, SchedPC
  <2>2. /\ grunning' = grunning \/ grunning' = FALSE
        /\ lostPosts' = lostPosts \/ lostPosts' = (gNewtaskAvaiable > 0)
    BY <1>15 DEF MainSemInit, MainThreads, MainPause, sigint_hanlder, MainStop
  <2>3. grunning' \in BOOLEAN /\ lostPosts' \in BOOLEAN
    BY <2>2, <1>d, (gNewtaskAvaiable > 0) \in BOOLEAN, Zenon
  <2> QED
    BY <1>15, <2>1, <2>3
       DEF MainSemInit, MainThreads, MainPause, sigint_hanlder, MainStop, TypeOK
<1>16. CASE MainPostTask \/ MainPostShow \/ MainDpipeStop \/ MainJoin \/ MainSetupFails
  <2>1. /\ main' \in MainPC
        /\ gNewtaskAvaiable' \in 0 .. SemMax /\ g_semtshow' \in 0 .. SemMax
    BY <1>16, <1>a, <1>b DEF MainPostTask, MainPostShow, MainDpipeStop, MainJoin,
                             MainSetupFails, Posted, MainPC
  <2>2. /\ UNCHANGED <<pipeVars, decVars, schedVars, lostPosts, disp, gresultque, auxVars,
                       ffmpeg, grunning, started>>
        /\ start' \in BOOLEAN
    BY <1>16 DEF MainPostTask, MainPostShow, MainDpipeStop, MainJoin, MainSetupFails, TypeOK
  <2> QED
    BY <2>1, <2>2 DEF TypeOK
<1>17. CASE MainCleanup
  <2>1. << >> \in Seq(Buffers)
    OBVIOUS
  <2>2. in' \in [Channels -> Seq(Buffers)] /\ out' \in [Channels -> Seq(Buffers)]
    BY <1>17, <2>1 DEF MainCleanup
  <2> QED
    BY ZenonT(60), <1>17, <2>2 DEF MainCleanup, TypeOK, MainPC
<1>18. CASE UNCHANGED vars
  BY ZenonT(60), <1>18 DEF vars, TypeOK
<1> QED
  BY <1>1, <1>2, <1>3, <1>4, <1>5, <1>6, <1>7, <1>8, <1>9, <1>10, <1>11, <1>12, <1>13,
     <1>14, <1>15, <1>16, <1>17, <1>18
     DEF Next, DecStep, SchedStep, DispStep, MainStep

(* A thread's program counter tells whether it holds a buffer, after every step. *)
LEMMA HoldingStep == TypeInv /\ [Next]_vars => HoldingPC'
<1> SUFFICES ASSUME TypeInv, [Next]_vars PROVE HoldingPC'
  OBVIOUS
<1> USE PipelineAssumption DEF TypeInv, HoldingPC
<1>1. ASSUME NEW c \in Channels, DecFrame(c) \/ FFFrame(c) \/ DecLeave(c) \/ DecGetNull(c)
                                 \/ DecPost(c)
      PROVE  HoldingPC'
  BY <1>1 DEF DecFrame, FFFrame, DecLeave, DecGetNull, DecPost, DecGoto, TypeOK
<1>2. ASSUME NEW c \in Channels, DecGet(c) \/ DecGetEldest(c) PROVE HoldingPC'
  <2>1. in[c] # << >> => Head(in[c]) \in Buffers
    BY PopHead DEF TypeOK
  <2>2. out[c] # << >> => Head(out[c]) \in Buffers
    BY PopHead DEF TypeOK
  <2> QED
    BY <1>2, <2>1, <2>2 DEF DecGet, DecGetEldest, DecGoto, TypeOK
<1>3. ASSUME NEW c \in Channels, DecStore(c) PROVE HoldingPC'
  BY <1>3 DEF DecStore, DecGoto, TypeOK
<1>4. CASE SchedLoad
  <2>1. Head(out[schedCh]) \in Buffers
    BY <1>4, PopHead DEF SchedLoad, TypeOK
  <2> QED
    BY <1>4, <2>1 DEF SchedLoad
<1>5. CASE SchedTop \/ SchedWait \/ SchedPut \/ SchedInsert \/ SchedPush \/ SchedPost
             \/ SchedThrottle
  BY <1>5 DEF SchedTop, SchedWait, SchedPut, SchedInsert, SchedPush, SchedPost,
              SchedThrottle, NextChannel
<1>6. CASE DispStep \/ InferTop \/ InferWait \/ FpsReset \/ FpsLeave
  BY <1>6 DEF DispStep, DispTop, DispWait, DispPop, InferTop, InferWait, FpsReset, FpsLeave
<1>7. CASE MainCreate
  <2>1. started + 1 \in Channels /\ dec[started + 1] = "none"
    BY <1>7 DEF MainCreate, Startup, TypeOK, Channels
  <2> QED
    BY <1>7, <2>1 DEF MainCreate, TypeOK
<1>8. CASE MainSemInit \/ MainThreads \/ MainPause \/ sigint_hanlder \/ MainStop
             \/ MainPostTask \/ MainPostShow
  BY <1>8 DEF MainSemInit, MainThreads, MainPause, sigint_hanlder, MainStop, MainPostTask,
              MainPostShow
<1>9. CASE MainDpipeStop \/ MainJoin \/ MainSetupFails \/ MainCleanup
  BY <1>9 DEF MainDpipeStop, MainJoin, MainSetupFails, MainCleanup
<1>10. CASE UNCHANGED vars
  BY <1>10 DEF vars
<1> QED
  BY <1>1, <1>2, <1>3, <1>4, <1>5, <1>6, <1>7, <1>8, <1>9, <1>10
     DEF Next, DecStep, SchedStep, MainStep

(* No thread runs before main has created it, after every step. *)
LEMMA StartupStep == TypeInv /\ [Next]_vars => Startup'
<1> SUFFICES ASSUME TypeInv, [Next]_vars PROVE Startup'
  OBVIOUS
<1> USE PipelineAssumption DEF TypeInv, Startup
<1>1. ASSUME NEW c \in Channels, DecStep(c) \/ DecLeave(c) PROVE Startup'
  <2>1. dec[c] # "none" /\ UNCHANGED <<main, started, sched>>
    BY <1>1 DEF DecStep, DecFrame, FFFrame, DecLeave, DecGet, DecGetEldest, DecGetNull,
                DecStore, DecPost
  <2>2. \A d \in Channels : d # c => dec'[d] = dec[d]
    BY <1>1 DEF DecStep, DecFrame, FFFrame, DecLeave, DecGet, DecGetEldest, DecGetNull,
                DecStore, DecPost, DecGoto, TypeOK
  <2> QED
    BY <2>1, <2>2
<1>2. CASE SchedStep
  BY <1>2 DEF SchedStep, SchedTop, SchedWait, SchedLoad, SchedPut, SchedInsert, SchedPush,
              SchedPost, SchedThrottle
<1>3. CASE DispStep \/ InferTop \/ InferWait \/ FpsReset \/ FpsLeave
  BY <1>3 DEF DispStep, DispTop, DispWait, DispPop, InferTop, InferWait, FpsReset, FpsLeave
<1>4. CASE MainCreate
  BY <1>4 DEF MainCreate, TypeOK, Channels
<1>5. CASE MainSemInit \/ MainThreads \/ MainPause \/ sigint_hanlder \/ MainStop
             \/ MainPostTask \/ MainPostShow
  BY <1>5 DEF MainSemInit, MainThreads, MainPause, sigint_hanlder, MainStop, MainPostTask,
              MainPostShow
<1>6. CASE MainDpipeStop \/ MainJoin \/ MainSetupFails \/ MainCleanup
  BY <1>6 DEF MainDpipeStop, MainJoin, MainSetupFails, MainCleanup
<1>7. CASE UNCHANGED vars
  BY <1>7 DEF vars
<1> QED
  BY <1>1, <1>2, <1>3, <1>4, <1>5, <1>6, <1>7 DEF Next, MainStep

(* The parts of the type invariant together are inductive. *)
LEMMA TypeStep == TypeInv /\ [Next]_vars => TypeInv'
BY TypeOKStep, HoldingStep, StartupStep DEF TypeInv

-----------------------------------------------------------------------------
(* Conservation of the buffers. *)

(* All buffers are free when the program starts. *)
LEMMA PoolInit == Init => AllPooled
<1> SUFFICES ASSUME Init, NEW c \in Channels PROVE Pooled(c)
  BY DEF AllPooled
<1> DEFINE list == CHOOSE s \in [1 .. Cardinality(Buffers) -> Buffers] :
                     \A b \in Buffers : \E i \in DOMAIN s : s[i] = b
<1>1. /\ list \in [1 .. Cardinality(Buffers) -> Buffers]
      /\ \A b \in Buffers : \E i \in DOMAIN list : list[i] = b
  BY Enumeration, PipelineAssumption
<1>2. list \in Seq(Buffers) /\ Len(list) = Cardinality(Buffers)
  BY <1>1, Enumeration, PipelineAssumption
<1>3. in[c] = list /\ out[c] = << >>
  BY DEF Init
<1> HIDE DEF list
<1>4. Elems(in[c]) = Buffers
  BY <1>1, <1>3 DEF Elems
<1>5. Elems(out[c]) = {} /\ Len(out[c]) = 0
  BY <1>3 DEF Elems
<1>6. SchedHolds(c) = {} /\ DecHolds(c) = {}
  BY DEF Init, SchedHolds, DecHolds
<1>7. Cardinality({}) = 0 /\ Cardinality(Buffers) \in Nat
  BY FS_EmptySet, FS_CardinalityType, PipelineAssumption
<1> QED
  BY <1>2, <1>3, <1>4, <1>5, <1>6, <1>7 DEF Pooled, Accounted

(* What a channel's pipe has does not depend on anything else. *)
LEMMA PooledFrame ==
  ASSUME NEW c \in Channels, Pooled(c), in'[c] = in[c], out'[c] = out[c],
         SchedHolds(c)' = SchedHolds(c), DecHolds(c)' = DecHolds(c)
  PROVE  Pooled(c)'
BY DEF Pooled

(* Elems of the model is Entries of QueueFacts. *)
LEMMA ElemsEntries == \A s : Elems(s) = Entries(s)
BY DEF Elems, Entries

(* dpipe_get moves a buffer from the input pool, or the output pool, to the *)
(* decoder, dpipe_load one from the output pool to the scheduler,           *)
LEMMA Taken ==
  ASSUME NEW i \in Seq(Buffers), NEW o \in Seq(Buffers), NEW s, NEW d,
         Cardinality(s) \in Nat, Cardinality(d) \in Nat
  PROVE  /\ Accounted(i, o, s, {}) /\ i # << >> => Accounted(Tail(i), o, s, {Head(i)})
         /\ Accounted(i, o, s, {}) /\ o # << >> => Accounted(i, Tail(o), s, {Head(o)})
         /\ Accounted(i, o, {}, d) /\ o # << >> => Accounted(i, Tail(o), {Head(o)}, d)
<1>1. Len(i) \in Nat /\ Len(o) \in Nat /\ Cardinality(Buffers) \in Nat
  BY LenProperties, FS_CardinalityType, PipelineAssumption
<1>2. Cardinality({}) = 0 /\ Cardinality({Head(i)}) = 1 /\ Cardinality({Head(o)}) = 1
  BY FS_EmptySet, FS_Singleton
<1>3. i # << >> => Len(Tail(i)) = Len(i) - 1 /\ Elems(i) = Elems(Tail(i)) \cup {Head(i)}
  BY PopHead, ElemsEntries
<1>4. o # << >> => Len(Tail(o)) = Len(o) - 1 /\ Elems(o) = Elems(Tail(o)) \cup {Head(o)}
  BY PopHead, ElemsEntries
<1>5. Accounted(i, o, s, {}) /\ i # << >> => Accounted(Tail(i), o, s, {Head(i)})
  <2> SUFFICES ASSUME Accounted(i, o, s, {}) /\ i # << >> PROVE Accounted(Tail(i), o, s, {Head(i)})
    OBVIOUS
  <2>1. Elems(Tail(i)) \cup Elems(o) \cup s \cup {Head(i)} = Buffers
    BY <1>3 DEF Accounted
  <2>2. Len(Tail(i)) + Len(o) + Cardinality(s) + Cardinality({Head(i)})
          = Cardinality(Buffers)
    BY <1>1, <1>2, <1>3 DEF Accounted
  <2> QED
    BY <2>1, <2>2 DEF Accounted
<1>6. Accounted(i, o, s, {}) /\ o # << >> => Accounted(i, Tail(o), s, {Head(o)})
  <2> SUFFICES ASSUME Accounted(i, o, s, {}) /\ o # << >> PROVE Accounted(i, Tail(o), s, {Head(o)})
    OBVIOUS
  <2>1. Elems(i) \cup Elems(Tail(o)) \cup s \cup {Head(o)} = Buffers
    BY <1>4 DEF Accounted
  <2>2. Len(i) + Len(Tail(o)) + Cardinality(s) + Cardinality({Head(o)})
          = Cardinality(Buffers)
    BY <1>1, <1>2, <1>4 DEF Accounted
  <2> QED
    BY <2>1, <2>2 DEF Accounted
<1>7. Accounted(i, o, {}, d) /\ o # << >> => Accounted(i, Tail(o), {Head(o)}, d)
  <2> SUFFICES ASSUME Accounted(i, o, {}, d) /\ o # << >> PROVE Accounted(i, Tail(o), {Head(o)}, d)
    OBVIOUS
  <2>1. Elems(i) \cup Elems(Tail(o)) \cup {Head(o)} \cup d = Buffers
    BY <1>4 DEF Accounted
  <2>2. Len(i) + Len(Tail(o)) + Cardinality({Head(o)}) + Cardinality(d)
          = Cardinality(Buffers)
    BY <1>1, <1>2, <1>4 DEF Accounted
  <2> QED
    BY <2>1, <2>2 DEF Accounted
<1> QED
  BY <1>5, <1>6, <1>7

(* and dpipe_store and dpipe_put give them back. *)
LEMMA Given ==
  ASSUME NEW i \in Seq(Buffers), NEW o \in Seq(Buffers), NEW s, NEW d, NEW b \in Buffers,
         Cardinality(s) \in Nat, Cardinality(d) \in Nat
  PROVE  /\ Accounted(i, o, s, {b}) => Accounted(i, Append(o, b), s, {})
         /\ Accounted(i, o, {b}, d) => Accounted(<<b>> \o i, o, {}, d)
<1>1. Len(i) \in Nat /\ Len(o) \in Nat /\ Cardinality(Buffers) \in Nat
  BY LenProperties, FS_CardinalityType, PipelineAssumption
<1>2. Cardinality({}) = 0 /\ Cardinality({b}) = 1
  BY FS_EmptySet, FS_Singleton
<1>3. Len(Append(o, b)) = Len(o) + 1 /\ Elems(Append(o, b)) = Elems(o) \cup {b}
  BY PushTail, ElemsEntries
<1>4. Len(<<b>> \o i) = Len(i) + 1 /\ Elems(<<b>> \o i) = Elems(i) \cup {b}
  BY PushFront, ElemsEntries DEF Push
<1>5. Accounted(i, o, s, {b}) => Accounted(i, Append(o, b), s, {})
  <2> SUFFICES ASSUME Accounted(i, o, s, {b}) PROVE Accounted(i, Append(o, b), s, {})
    OBVIOUS
  <2>1. Elems(i) \cup Elems(Append(o, b)) \cup s \cup {} = Buffers
    BY <1>3 DEF Accounted
  <2>2. Len(i) + Len(Append(o, b)) + Cardinality(s) + Cardinality({})
          = Cardinality(Buffers)
    BY <1>1, <1>2, <1>3 DEF Accounted
  <2> QED
    BY <2>1, <2>2 DEF Accounted
<1>6. Accounted(i, o, {b}, d) => Accounted(<<b>> \o i, o, {}, d)
  <2> SUFFICES ASSUME Accounted(i, o, {b}, d) PROVE Accounted(<<b>> \o i, o, {}, d)
    OBVIOUS
  <2>1. Elems(<<b>> \o i) \cup Elems(o) \cup {} \cup d = Buffers
    BY <1>4 DEF Accounted
  <2>2. Len(<<b>> \o i) + Len(o) + Cardinality({}) + Cardinality(d)
          = Cardinality(Buffers)
    BY <1>1, <1>2, <1>4 DEF Accounted
  <2> QED
    BY <2>1, <2>2 DEF Accounted
<1> QED
  BY <1>5, <1>6

(* A thread holds at most one buffer of a pipe. *)
LEMMA HoldsOne ==
  ASSUME NEW c
  PROVE  /\ Cardinality(SchedHolds(c)) = IF SchedHolds(c) = {} THEN 0 ELSE 1
         /\ Cardinality(DecHolds(c)) = IF DecHolds(c) = {} THEN 0 ELSE 1
<1>1. Cardinality({}) = 0 /\ \A b : Cardinality({b}) = 1
  BY FS_EmptySet, FS_Singleton
<1>2. SchedHolds(c) = {} \/ SchedHolds(c) = {schedBuf}
  BY DEF SchedHolds
<1>3. DecHolds(c) = {} \/ DecHolds(c) = {decBuf[c]}
  BY DEF DecHolds
<1> QED
  BY <1>1, <1>2, <1>3, Zenon

(* A get, store, load or put moves one buffer between two places of its pipe, and
   dpipe_stop's path moves none. *)
LEMMA PoolStep == IInv /\ [Next]_vars => AllPooled'
<1> SUFFICES ASSUME IInv, [Next]_vars, main' # "exit", NEW c \in Channels
             PROVE  Pooled(c)'
  BY DEF AllPooled
<1> USE PipelineAssumption DEF IInv, TypeInv
<1>a. /\ in \in [Channels -> Seq(Buffers)] /\ out \in [Channels -> Seq(Buffers)]
      /\ dec \in [Channels -> DecPC] /\ decBuf \in [Channels -> Buffers \cup {NoBuffer}]
      /\ schedCh \in Channels
  BY DEF TypeOK
<1>b. in[c] \in Seq(Buffers) /\ out[c] \in Seq(Buffers)
  BY <1>a
<1>e. Cardinality(SchedHolds(c)) \in Nat /\ Cardinality(DecHolds(c)) \in Nat
  BY HoldsOne
<1>1. ASSUME NEW d \in Channels, main # "exit",
             DecFrame(d) \/ FFFrame(d) \/ DecLeave(d) \/ DecGetNull(d) \/ DecPost(d)
      PROVE  Pooled(c)'
  <2>1. UNCHANGED <<in, out, decBuf, sched, schedCh, schedBuf>>
    BY <1>1 DEF DecFrame, FFFrame, DecLeave, DecGetNull, DecPost
  <2> QED
    BY <1>1, <2>1, PooledFrame DEF AllPooled, SchedHolds, DecHolds
<1>2. ASSUME NEW d \in Channels, main # "exit", DecGet(d) PROVE Pooled(c)'
  <2>1. /\ decBuf' = [decBuf EXCEPT ![d] = Head(in[d])]
        /\ in' = [in EXCEPT ![d] = Tail(@)]
        /\ UNCHANGED <<out, sched, schedCh, schedBuf>> /\ dec[d] = "get" /\ in[d] # << >>
    BY <1>2 DEF DecGet
  <2>2. SchedHolds(c)' = SchedHolds(c) /\ out'[c] = out[c]
    BY <2>1 DEF SchedHolds
  <2>3. CASE c # d
    BY <1>2, <2>1, <2>2, <2>3, <1>a, PooledFrame DEF AllPooled, DecHolds
  <2>4. CASE c = d
    <3>1. Head(in[c]) \in Buffers
      BY <2>1, <2>4, <1>b, PopHead
    <3>2. DecHolds(c) = {} /\ DecHolds(c)' = {Head(in[c])} /\ in'[c] = Tail(in[c])
      BY <2>1, <2>4, <3>1, <1>a DEF DecHolds, HoldingPC
    <3>3. Accounted(in[c], out[c], SchedHolds(c), {})
      BY <1>2, <3>2 DEF AllPooled, Pooled
    <3>4. Accounted(Tail(in[c]), out[c], SchedHolds(c), {Head(in[c])})
      BY <2>1, <2>4, <3>3, <1>b, <1>e, Taken
    <3> QED
      BY <2>2, <3>2, <3>4 DEF Pooled
  <2> QED
    BY <2>3, <2>4
<1>3. ASSUME NEW d \in Channels, main # "exit", DecGetEldest(d) PROVE Pooled(c)'
  <2>1. /\ decBuf' = [decBuf EXCEPT ![d] = Head(out[d])]
        /\ out' = [out EXCEPT ![d] = Tail(@)]
        /\ UNCHANGED <<in, sched, schedCh, schedBuf>> /\ dec[d] = "get" /\ out[d] # << >>
    BY <1>3 DEF DecGetEldest
  <2>2. SchedHolds(c)' = SchedHolds(c) /\ in'[c] = in[c]
    BY <2>1 DEF SchedHolds
  <2>3. CASE c # d
    BY <1>3, <2>1, <2>2, <2>3, <1>a, PooledFrame DEF AllPooled, DecHolds
  <2>4. CASE c = d
    <3>1. Head(out[c]) \in Buffers
      BY <2>1, <2>4, <1>b, PopHead
    <3>2. DecHolds(c) = {} /\ DecHolds(c)' = {Head(out[c])} /\ out'[c] = Tail(out[c])
      BY <2>1, <2>4, <3>1, <1>a DEF DecHolds, HoldingPC
    <3>3. Accounted(in[c], out[c], SchedHolds(c), {})
      BY <1>3, <3>2 DEF AllPooled, Pooled
    <3>4. Accounted(in[c], Tail(out[c]), SchedHolds(c), {Head(out[c])})
      BY <2>1, <2>4, <3>3, <1>b, <1>e, Taken
    <3> QED
      BY <2>2, <3>2, <3>4 DEF Pooled
  <2> QED
    BY <2>3, <2>4
<1>4. ASSUME NEW d \in Channels, main # "exit", DecStore(d) PROVE Pooled(c)'
  <2>1. /\ decBuf' = [decBuf EXCEPT ![d] = NoBuffer]
        /\ out' = [out EXCEPT ![d] = Append(@, decBuf[d])]
        /\ UNCHANGED <<in, sched, schedCh, schedBuf>> /\ dec[d] = "store"
    BY <1>4 DEF DecStore
  <2>2. SchedHolds(c)' = SchedHolds(c) /\ in'[c] = in[c]
    BY <2>1 DEF SchedHolds
  <2>3. CASE c # d
    BY <1>4, <2>1, <2>2, <2>3, <1>a, PooledFrame DEF AllPooled, DecHolds
  <2>4. CASE c = d
    <3>1. decBuf[c] \in Buffers /\ out'[c] = Append(out[c], decBuf[c])
      BY <2>1, <2>4, <1>a DEF HoldingPC
    <3>2. DecHolds(c) = {decBuf[c]} /\ DecHolds(c)' = {}
      BY <2>1, <2>4, <3>1, <1>a DEF DecHolds
    <3>3. Accounted(in[c], out[c], SchedHolds(c), {decBuf[c]})
      BY <1>4, <3>2 DEF AllPooled, Pooled
    <3>4. Accounted(in[c], Append(out[c], decBuf[c]), SchedHolds(c), {})
      BY <3>1, <3>3, <1>b, <1>e, Given
    <3> QED
      BY <2>2, <3>1, <3>2, <3>4 DEF Pooled
  <2> QED
    BY <2>3, <2>4
<1>5. CASE SchedLoad
  <2>1. /\ schedBuf' = Head(out[schedCh]) /\ out' = [out EXCEPT ![schedCh] = Tail(@)]
        /\ UNCHANGED <<in, decBuf, schedCh, main>> /\ out[schedCh] # << >>
        /\ sched = "load" /\ sched' = "put"
    BY <1>5 DEF SchedLoad
  <2>2. DecHolds(c)' = DecHolds(c) /\ in'[c] = in[c] /\ SchedHolds(c) = {} /\ Pooled(c)
    BY <2>1 DEF SchedHolds, DecHolds, AllPooled
  <2>3. CASE c # schedCh
    BY <2>1, <2>2, <2>3, <1>a, PooledFrame DEF SchedHolds
  <2>4. CASE c = schedCh
    <3>1. SchedHolds(c)' = {Head(out[c])} /\ out'[c] = Tail(out[c])
      BY <2>1, <2>4, <1>a DEF SchedHolds
    <3>2. Accounted(in[c], out[c], {}, DecHolds(c))
      BY <2>2 DEF Pooled
    <3>3. Accounted(in[c], Tail(out[c]), {Head(out[c])}, DecHolds(c))
      BY <2>1, <2>4, <3>2, <1>b, <1>e, Taken
    <3> QED
      BY <2>2, <3>1, <3>3 DEF Pooled
  <2> QED
    BY <2>3, <2>4
<1>6. CASE SchedPut
  <2>1. /\ in' = [in EXCEPT ![schedCh] = <<schedBuf>> \o @]
        /\ UNCHANGED <<out, decBuf, schedCh, main>> /\ sched = "put" /\ sched' = "insert"
    BY <1>6 DEF SchedPut
  <2>2. DecHolds(c)' = DecHolds(c) /\ out'[c] = out[c] /\ SchedHolds(c)' = {} /\ Pooled(c)
    BY <2>1 DEF SchedHolds, DecHolds, AllPooled
  <2>3. CASE c # schedCh
    BY <2>1, <2>2, <2>3, <1>a, PooledFrame DEF SchedHolds
  <2>4. CASE c = schedCh
    <3>1. schedBuf \in Buffers /\ in'[c] = <<schedBuf>> \o in[c]
      BY <2>1, <2>4, <1>a DEF HoldingPC
    <3>2. SchedHolds(c) = {schedBuf}
      BY <2>1, <2>4 DEF SchedHolds
    <3>3. Accounted(in[c], out[c], {schedBuf}, DecHolds(c))
      BY <2>2, <3>2 DEF Pooled
    <3>4. Accounted(<<schedBuf>> \o in[c], out[c], {}, DecHolds(c))
      BY <3>1, <3>3, <1>b, <1>e, Given
    <3> QED
      BY <2>2, <3>1, <3>4 DEF Pooled
  <2> QED
    BY <2>3, <2>4
<1>7. CASE SchedTop \/ SchedWait \/ SchedInsert \/ SchedPush \/ SchedPost \/ SchedThrottle
  <2>1. UNCHANGED <<in, out, decBuf, main>> /\ sched # "put" /\ sched' # "put"
    BY <1>7 DEF SchedTop, SchedWait, SchedInsert, SchedPush, SchedPost, SchedThrottle,
                NextChannel
  <2> QED
    BY <2>1, PooledFrame DEF AllPooled, SchedHolds, DecHolds
<1>8. CASE DispStep \/ InferTop \/ InferWait \/ FpsReset \/ FpsLeave
  <2>1. UNCHANGED <<in, out, decBuf, sched, schedCh, schedBuf, main>>
    BY <1>8 DEF DispStep, DispTop, DispWait, DispPop, InferTop, InferWait, FpsReset, FpsLeave
  <2> QED
    BY <2>1, PooledFrame DEF AllPooled, SchedHolds, DecHolds
<1>9. CASE MainStep \/ MainSetupFails \/ sigint_hanlder
  <2>1. /\ UNCHANGED <<in, out, decBuf, schedCh, schedBuf>> /\ main # "exit"
        /\ sched' = sched \/ (main = "threads" /\ sched' = "top")
    BY <1>9 DEF MainStep, MainCreate, MainSemInit, MainThreads, MainPause, MainStop,
                MainPostTask, MainPostShow, MainDpipeStop, MainJoin, MainCleanup,
                MainSetupFails, sigint_hanlder
  <2>2. main = "threads" => sched = "none"
    BY DEF Startup
  <2>3. SchedHolds(c)' = SchedHolds(c)
    BY <2>1, <2>2 DEF SchedHolds
  <2> QED
    BY <2>1, <2>3, PooledFrame DEF AllPooled, DecHolds
<1>10. CASE UNCHANGED vars
  BY <1>10, PooledFrame DEF vars, AllPooled, SchedHolds, DecHolds
<1> QED
  BY <1>1, <1>2, <1>3, <1>4, <1>5, <1>6, <1>7, <1>8, <1>9, <1>10
     DEF Next, DecStep, SchedStep, Alive

(* The inductive invariant of the buffers holds initially. *)
LEMMA IInit == Init => IInv
BY TypeInit, PoolInit DEF IInv

(* The inductive invariant of the buffers is preserved. *)
LEMMA IStep == IInv /\ [Next]_vars => IInv'
BY TypeStep, PoolStep DEF IInv

(* IInv holds in every reachable state. *)
LEMMA Inductive == Spec => []IInv
BY IInit, IStep, PTL DEF Spec

(* Until the pipes are destroyed, every buffer of every channel is in one   *)
(* pool of its pipe or in the hands of one thread, and in one place only,   *)
(* whatever the decoders, the scheduler, a failing decoder or set-up, and   *)
(* the shutdown do.                                                         *)
THEOREM BuffersKept == Spec => []BuffersAccounted
<1>1. IInv => BuffersAccounted
  BY DEF IInv, TypeInv, AllPooled, Pooled, Accounted, BuffersAccounted
<1> QED
  BY <1>1, Inductive, PTL
-----------------------------------------------------------------------------
(* The display queue. *)

(* What is queued by the time the scheduler is at a channel: it goes on     *)
(* with fewer than 2 batches, or once SIGINT has been handled, when the     *)
(* round it is in may add one batch per channel.                            *)
QueueBound ==
  /\ sched \in {"none", "wait"} => gresultque <= 1
  /\ sched \in {"load", "put", "insert", "push"} => gresultque <= schedCh
  /\ sched \in {"post", "throttle"} => gresultque <= schedCh + 1
  /\ sched \in {"top", "done"} => gresultque <= NumChannels + 1
  /\ grunning => gresultque <= (IF sched \in {"post", "throttle"} THEN 2 ELSE 1)

(* The throttle at the scheduler's loop head keeps gresultque within one batch and one
   round. *)
LEMMA QueueStep == TypeInv /\ QueueBound /\ [Next]_vars => QueueBound'
<1> SUFFICES ASSUME TypeInv, QueueBound, [Next]_vars PROVE QueueBound'
  OBVIOUS
<1>a. /\ NumChannels \in Nat \ {0} /\ schedCh \in 1 .. NumChannels /\ gresultque \in Nat
      /\ sched \in SchedPC
  BY PipelineAssumption DEF TypeInv, TypeOK, Channels
<1> USE DEF QueueBound
<1>1. ASSUME NEW c \in Channels, DecStep(c) \/ DecLeave(c) PROVE QueueBound'
  <2>1. UNCHANGED <<sched, schedCh, gresultque, grunning>>
    BY <1>1 DEF DecStep, DecFrame, FFFrame, DecLeave, DecGet, DecGetEldest, DecGetNull,
                DecStore, DecPost
  <2> QED
    BY <2>1
<1>2. CASE SchedTop \/ SchedWait \/ SchedLoad \/ SchedPut
  BY <1>2, <1>a DEF SchedTop, SchedWait, SchedLoad, SchedPut
<1>3. CASE SchedInsert \/ SchedThrottle
  BY <1>3, <1>a DEF SchedInsert, SchedThrottle, NextChannel
<1>4. CASE SchedPush \/ SchedPost
  BY <1>4, <1>a DEF SchedPush, SchedPost
<1>5. CASE DispStep
  <2>1. UNCHANGED <<sched, schedCh, grunning>> /\ gresultque' \in Nat
        /\ gresultque' <= gresultque
    BY <1>5, <1>a DEF DispStep, DispTop, DispWait, DispPop
  <2> QED
    BY <2>1, <1>a
<1>6. CASE InferTop \/ InferWait \/ FpsReset \/ FpsLeave
  BY <1>6 DEF InferTop, InferWait, FpsReset, FpsLeave
<1>7. CASE MainThreads
  BY <1>7, <1>a DEF MainThreads, TypeInv, Startup
<1>8. CASE (MainStep /\ ~MainThreads) \/ MainSetupFails \/ sigint_hanlder
  <2>1. UNCHANGED <<sched, schedCh, gresultque>> /\ (grunning' => grunning)
    BY <1>8 DEF MainStep, MainCreate, MainSemInit, MainPause, MainStop, MainPostTask,
                MainPostShow, MainDpipeStop, MainJoin, MainCleanup, MainSetupFails,
                sigint_hanlder
  <2> QED
    BY <2>1
<1>9. CASE UNCHANGED vars
  BY <1>9 DEF vars
<1> QED
  BY <1>1, <1>2, <1>3, <1>4, <1>5, <1>6, <1>7, <1>8, <1>9 DEF Next, SchedStep

(* The bound on gresultque holds at all times. *)
LEMMA QueueInductive == Spec => [](TypeInv /\ QueueBound)
<1>1. Init => QueueBound
  BY PipelineAssumption DEF Init, QueueBound
<1> QED
  BY <1>1, TypeInit, TypeStep, QueueStep, PTL DEF Spec

(* "only cache 2 batch" (main.cpp:1243), for every number of channels: at   *)
(* most 2 batches are queued for display while the program runs, and during *)
(* the shutdown at most one more per channel, less one.                     *)
THEOREM QueueBounded == Spec => []CacheTwoBatches
<1>1. TypeInv /\ QueueBound => CacheTwoBatches
  <2> SUFFICES ASSUME TypeInv, QueueBound PROVE CacheTwoBatches
    OBVIOUS
  <2>1. /\ NumChannels \in Nat \ {0} /\ schedCh \in 1 .. NumChannels /\ gresultque \in Nat
        /\ sched \in SchedPC
    BY PipelineAssumption DEF TypeInv, TypeOK, Channels
  <2> QED
    BY <2>1 DEF QueueBound, CacheTwoBatches, SchedPC
<1> QED
  BY <1>1, QueueInductive, PTL

(* main has posted g_semtshow for the shutdown, or skipped all that. *)
ShowWoken == main \in {"dpipe_stop", "join_assist", "join_infer", "join_sched",
                       "join_dec", "cleanup", "exit"}

(* Tokens that stand for queued batches, the ones in the hands of the       *)
(* scheduler and of the display included.                                   *)
Tokens == g_semtshow + (IF sched = "post" THEN 1 ELSE 0) + (IF disp = "pop" THEN 1 ELSE 0)

Tokened == IF ShowWoken THEN gresultque <= Tokens ELSE gresultque = Tokens

(* A push on gresultque is followed by its sem_post, and the display thread pops after its
   sem_wait. *)
LEMMA TokenStep ==
  ASSUME SemMax > NumChannels
  PROVE  TypeInv /\ QueueBound /\ Tokened /\ [Next]_vars => Tokened'
<1> SUFFICES ASSUME TypeInv, QueueBound, Tokened, [Next]_vars PROVE Tokened'
  OBVIOUS
<1>a. /\ NumChannels \in Nat \ {0} /\ schedCh \in 1 .. NumChannels /\ gresultque \in Nat
      /\ sched \in SchedPC /\ SemMax \in Nat /\ g_semtshow \in 0 .. SemMax
      /\ main \in MainPC
  BY PipelineAssumption DEF TypeInv, TypeOK, Channels
<1> USE DEF Tokened, Tokens
<1>1. ASSUME NEW c \in Channels, DecStep(c) \/ DecLeave(c) PROVE Tokened'
  <2>1. UNCHANGED <<sched, gresultque, g_semtshow, disp, main>>
    BY <1>1 DEF DecStep, DecFrame, FFFrame, DecLeave, DecGet, DecGetEldest, DecGetNull,
                DecStore, DecPost
  <2> QED
    BY <2>1 DEF ShowWoken
<1>2. CASE SchedTop \/ SchedWait \/ SchedLoad \/ SchedPut \/ SchedInsert \/ SchedThrottle
  <2>1. UNCHANGED <<gresultque, g_semtshow, disp, main>> /\ sched # "post" /\ sched' # "post"
    BY <1>2 DEF SchedTop, SchedWait, SchedLoad, SchedPut, SchedInsert, SchedThrottle,
                NextChannel
  <2> QED
    BY <2>1 DEF ShowWoken
<1>3. CASE SchedPush
  <2>1. /\ gresultque' = gresultque + 1 /\ UNCHANGED <<g_semtshow, disp>>
        /\ sched = "push" /\ sched' = "post" /\ ShowWoken' = ShowWoken
    BY <1>3 DEF SchedPush, ShowWoken
  <2> QED
    BY <2>1, <1>a
<1>4. CASE SchedPost
  <2>1. /\ UNCHANGED <<gresultque, disp>> /\ g_semtshow' = Posted(g_semtshow)
        /\ sched = "post" /\ sched' = "throttle" /\ ShowWoken' = ShowWoken
    BY <1>4 DEF SchedPost, ShowWoken
  <2>2. gresultque <= SemMax
    BY <2>1, <1>a DEF QueueBound
  <2> QED
    BY <2>1, <2>2, <1>a DEF Posted
<1>5. CASE DispTop \/ DispWait
  <2>1. UNCHANGED <<gresultque, sched>> /\ ShowWoken' = ShowWoken
    BY <1>5 DEF DispTop, DispWait, ShowWoken
  <2>2. \/ disp # "pop" /\ disp' # "pop" /\ g_semtshow' = g_semtshow
        \/ disp # "pop" /\ disp' = "pop" /\ g_semtshow' = g_semtshow - 1
    BY <1>5 DEF DispTop, DispWait
  <2> QED
    BY <2>1, <2>2, <1>a
<1>6. CASE DispPop
  <2>1. /\ UNCHANGED <<g_semtshow, sched>> /\ ShowWoken' = ShowWoken
        /\ disp = "pop" /\ disp' = "top"
        /\ gresultque' = IF gresultque > 0 THEN gresultque - 1 ELSE gresultque
    BY <1>6 DEF DispPop, ShowWoken
  <2> QED
    BY <2>1, <1>a
<1>7. CASE InferTop \/ InferWait \/ FpsReset \/ FpsLeave
  BY <1>7 DEF InferTop, InferWait, FpsReset, FpsLeave, ShowWoken
<1>8. CASE MainPostShow
  <2>1. /\ UNCHANGED <<gresultque, sched, disp>> /\ g_semtshow' = Posted(g_semtshow)
        /\ ShowWoken' /\ ~ShowWoken
    BY <1>8 DEF MainPostShow, ShowWoken
  <2> QED
    BY <2>1, <1>a DEF Posted
<1>9. CASE MainThreads
  <2>1. UNCHANGED <<gresultque, g_semtshow, disp>> /\ ~ShowWoken /\ ~ShowWoken'
        /\ sched' = "top" /\ sched = "none"
    BY <1>9 DEF MainThreads, ShowWoken, TypeInv, Startup
  <2> QED
    BY <2>1
<1>10. CASE (MainStep /\ ~MainPostShow /\ ~MainThreads) \/ MainSetupFails \/ sigint_hanlder
  <2>1. UNCHANGED <<gresultque, g_semtshow, disp, sched>> /\ (ShowWoken => ShowWoken')
    BY <1>10 DEF MainStep, MainCreate, MainSemInit, MainPause, MainStop, MainPostTask,
                MainDpipeStop, MainJoin, MainCleanup, MainSetupFails, sigint_hanlder,
                ShowWoken
  <2> QED
    BY <2>1, <1>a
<1>11. CASE UNCHANGED vars
  BY <1>11 DEF vars, ShowWoken
<1> QED
  BY <1>1, <1>2, <1>3, <1>4, <1>5, <1>6, <1>7, <1>8, <1>9, <1>10, <1>11
     DEF Next, SchedStep, DispStep

(* The tokens match the queue at all times. *)
LEMMA TokensInductive ==
  ASSUME SemMax > NumChannels
  PROVE  Spec => [](TypeInv /\ QueueBound /\ Tokened)
<1>1. Init => Tokened
  BY DEF Init, Tokened, Tokens, ShowWoken
<1>2. TypeInv /\ QueueBound /\ Tokened /\ [Next]_vars => Tokened'
  BY TokenStep
<1> QED
  BY <1>1, <1>2, QueueInductive, PTL DEF Spec

(* Every batch queued for display has its token of g_semtshow or is being   *)
(* given one, and until the shutdown's own post the display thread always   *)
(* finds the batch it was woken for.  Semaphores can count to INT_MAX,      *)
(* which is all that is assumed: more than there are channels.  The queue   *)
(* is bounded as in QueueBounded.                                           *)
THEOREM TokensMatch == ASSUME SemMax > NumChannels PROVE Spec => []DisplayQueue
<1>1. Spec => [](TypeInv /\ QueueBound /\ Tokened)
  BY TokensInductive
<1>2. TypeInv /\ QueueBound /\ Tokened => ShowTokens
  <2> SUFFICES ASSUME TypeInv, Tokened PROVE ShowTokens
    OBVIOUS
  <2>1. gresultque \in Nat /\ SemMax \in Nat /\ g_semtshow \in 0 .. SemMax
    BY PipelineAssumption DEF TypeInv, TypeOK
  <2>2. gresultque <= Tokens
    BY <2>1 DEF Tokened, Tokens
  <2>3. disp = "pop" /\ gresultque = 0 => ShowWoken
    BY <2>1 DEF Tokened, Tokens
  <2> QED
    BY <2>2, <2>3 DEF ShowTokens, Tokens, ShowWoken
<1> QED
  BY <1>1, <1>2, QueueBounded, PTL DEF DisplayQueue

-----------------------------------------------------------------------------
(* The semaphore of the scheduler. *)

(* The round of the scheduler has still to come to channel c. *)
Due(c) == \/ sched = "load" /\ schedCh <= c
          \/ sched \in {"put", "insert", "push", "post", "throttle"} /\ schedCh < c

(* Frames of channel c that need no token of their own any more or yet. *)
Covered(c) == (IF dec[c] = "post" THEN 1 ELSE 0) + (IF Due(c) THEN 1 ELSE 0)

(* The tokens are enough for every single channel, although a round takes   *)
(* one frame of each for one token.                                         *)
FramesTokened ==
  /\ main \in {"create", "sem_init"} => ~lostPosts
  /\ ~lostPosts => \A c \in Channels : Len(out[c]) <= gNewtaskAvaiable + Covered(c)

(* A decoder stores its frame before it posts, and the scheduler waits before it loads. *)
LEMMA FrameTokenStep ==
  ASSUME Cardinality(Buffers) <= SemMax
  PROVE  IInv /\ FramesTokened /\ [Next]_vars => FramesTokened'
<1> SUFFICES ASSUME IInv, FramesTokened, [Next]_vars PROVE FramesTokened'
  OBVIOUS
<1>a. /\ NumChannels \in Nat \ {0} /\ Channels = 1 .. NumChannels /\ schedCh \in Channels
      /\ SemMax \in Nat /\ gNewtaskAvaiable \in 0 .. SemMax /\ sched \in SchedPC
  BY PipelineAssumption DEF IInv, TypeInv, TypeOK, Channels
<1>b. /\ out \in [Channels -> Seq(Buffers)] /\ in \in [Channels -> Seq(Buffers)]
      /\ dec \in [Channels -> DecPC]
  BY DEF IInv, TypeInv, TypeOK
<1>c. \A c \in Channels : Len(out[c]) \in Nat /\ Len(in[c]) \in Nat
  BY <1>b, LenProperties
<1>d. \A c \in Channels : Covered(c) \in {0, 1, 2}
  BY DEF Covered
<1>1. ASSUME NEW c \in Channels, DecFrame(c) \/ FFFrame(c) \/ DecLeave(c) \/ DecGetNull(c)
                                 \/ DecGet(c)
      PROVE  FramesTokened'
  <2>1. /\ UNCHANGED <<out, gNewtaskAvaiable, lostPosts, sched, schedCh, main>>
        /\ \A d \in Channels : dec'[d] = "post" <=> dec[d] = "post"
    BY <1>1, <1>b DEF DecFrame, FFFrame, DecLeave, DecGetNull, DecGet, DecGoto
  <2> QED
    BY <2>1 DEF FramesTokened, Covered, Due
<1>2. ASSUME NEW c \in Channels, DecGetEldest(c) PROVE FramesTokened'
  <2>1. /\ UNCHANGED <<gNewtaskAvaiable, lostPosts, sched, schedCh, main>>
        /\ \A d \in Channels : dec'[d] = "post" <=> dec[d] = "post"
        /\ out' = [out EXCEPT ![c] = Tail(@)] /\ out[c] # << >>
    BY <1>2, <1>b DEF DecGetEldest, DecGoto
  <2>2. Len(Tail(out[c])) = Len(out[c]) - 1
    BY <2>1, <1>b, PopHead
  <2>3. \A d \in Channels : Len(out'[d]) <= Len(out[d])
    BY <2>1, <2>2, <1>b, <1>c
  <2>4. \A d \in Channels : Covered(d)' = Covered(d) /\ Len(out'[d]) \in Nat
    BY <2>1, <2>2, <1>b, <1>c, PopHead DEF Covered, Due
  <2>5. ASSUME ~lostPosts, NEW d \in Channels
        PROVE  Len(out'[d]) <= gNewtaskAvaiable' + Covered(d)'
    <3>1. Len(out[d]) <= gNewtaskAvaiable + Covered(d)
      BY <2>5 DEF FramesTokened
    <3> QED
      BY <2>1, <2>3, <2>4, <3>1, <1>a, <1>c, <1>d
  <2> QED
    BY <2>1, <2>5 DEF FramesTokened
<1>3. ASSUME NEW c \in Channels, DecStore(c) PROVE FramesTokened'
  <2>1. /\ UNCHANGED <<gNewtaskAvaiable, lostPosts, sched, schedCh, main>>
        /\ dec[c] = "store" /\ dec' = [dec EXCEPT ![c] = "post"]
        /\ out' = [out EXCEPT ![c] = Append(@, decBuf[c])] /\ decBuf[c] \in Buffers
    BY <1>3 DEF DecStore, DecGoto, IInv, TypeInv, TypeOK, HoldingPC
  <2>2. Len(Append(out[c], decBuf[c])) = Len(out[c]) + 1
    BY <2>1, <1>b, PushTail
  <2>3. \A d \in Channels : d # c => out'[d] = out[d] /\ Covered(d)' = Covered(d)
    BY <2>1, <1>b DEF Covered, Due
  <2>4. Len(out'[c]) = Len(out[c]) + 1 /\ Covered(c)' = Covered(c) + 1
    BY <2>1, <2>2, <1>b DEF Covered, Due
  <2>5. ASSUME ~lostPosts, NEW d \in Channels
        PROVE  Len(out'[d]) <= gNewtaskAvaiable' + Covered(d)'
    <3>1. Len(out[d]) <= gNewtaskAvaiable + Covered(d)
      BY <2>5 DEF FramesTokened
    <3> QED
      BY <2>1, <2>3, <2>4, <3>1, <1>a, <1>c, <1>d
  <2> QED
    BY <2>1, <2>5 DEF FramesTokened
<1>4. ASSUME NEW c \in Channels, DecPost(c), main # "exit" PROVE FramesTokened'
  <2>1. /\ UNCHANGED <<out, lostPosts, sched, schedCh, main>>
        /\ dec[c] = "post" /\ dec' = [dec EXCEPT ![c] = "loop"]
        /\ gNewtaskAvaiable' = Posted(gNewtaskAvaiable)
    BY <1>4 DEF DecPost, DecGoto
  <2>2. \A d \in Channels : Covered(d)' = IF d = c THEN Covered(d) - 1 ELSE Covered(d)
    BY <2>1, <1>b DEF Covered, Due
  <2>3. \A d \in Channels : Len(out[d]) <= SemMax
    <3> SUFFICES ASSUME NEW d \in Channels PROVE Len(out[d]) <= SemMax
      OBVIOUS
    <3>1. Len(in[d]) + Len(out[d]) + Cardinality(SchedHolds(d)) + Cardinality(DecHolds(d))
            = Cardinality(Buffers)
      BY <1>4 DEF IInv, AllPooled, Pooled, Accounted
    <3>2. /\ Cardinality(SchedHolds(d)) \in Nat /\ Cardinality(DecHolds(d)) \in Nat
          /\ Cardinality(Buffers) \in Nat
      BY HoldsOne, FS_CardinalityType, PipelineAssumption
    <3>3. \A i, o, m, n, t \in Nat : i + o + m + n = t => o <= t
      OBVIOUS
    <3>4. Len(out[d]) <= Cardinality(Buffers)
      BY <3>1, <3>2, <3>3, <1>c
    <3> QED
      BY <3>2, <3>4, <1>a, <1>c
  <2>4. Covered(c)' \in {0, 1}
    BY <2>1, <1>b DEF Covered
  <2>5. ASSUME ~lostPosts, NEW d \in Channels
        PROVE  Len(out'[d]) <= gNewtaskAvaiable' + Covered(d)'
    <3>1. Len(out[d]) <= gNewtaskAvaiable + Covered(d)
      BY <2>5 DEF FramesTokened
    <3>2. Len(out[d]) <= SemMax /\ Covered(d) \in {0, 1, 2}
          /\ Covered(d)' = IF d = c THEN Covered(d) - 1 ELSE Covered(d)
      BY <2>2, <2>3, <1>d
    <3> QED
      BY <2>1, <2>4, <3>1, <3>2, <1>a, <1>c DEF Posted
  <2> QED
    BY <2>1, <2>5 DEF FramesTokened
<1>5. CASE SchedWait
  <2>1. /\ UNCHANGED <<out, lostPosts, dec, main>> /\ sched = "wait" /\ sched' = "load"
        /\ gNewtaskAvaiable' = gNewtaskAvaiable - 1 /\ schedCh' = 1
    BY <1>5 DEF SchedWait
  <2>2. \A d \in Channels : Covered(d)' = Covered(d) + 1
    BY <2>1, <1>a DEF Covered, Due
  <2> QED
    BY <2>1, <2>2, <1>a, <1>c, <1>d DEF FramesTokened
<1>6. CASE SchedLoad
  <2>1. /\ UNCHANGED <<gNewtaskAvaiable, lostPosts, dec, schedCh, main>>
        /\ sched = "load" /\ sched' = "put"
        /\ out' = [out EXCEPT ![schedCh] = Tail(@)] /\ out[schedCh] # << >>
    BY <1>6 DEF SchedLoad
  <2>2. Len(Tail(out[schedCh])) = Len(out[schedCh]) - 1
    BY <2>1, <1>a, <1>b, PopHead
  <2>3. \A d \in Channels : d # schedCh => out'[d] = out[d] /\ Covered(d)' = Covered(d)
    BY <2>1, <1>a, <1>b DEF Covered, Due
  <2>4. Len(out'[schedCh]) = Len(out[schedCh]) - 1 /\ Covered(schedCh)' = Covered(schedCh) - 1
    BY <2>1, <2>2, <1>a, <1>b DEF Covered, Due
  <2>5. ASSUME ~lostPosts, NEW d \in Channels
        PROVE  Len(out'[d]) <= gNewtaskAvaiable' + Covered(d)'
    <3>1. Len(out[d]) <= gNewtaskAvaiable + Covered(d)
      BY <2>5 DEF FramesTokened
    <3> QED
      BY <2>1, <2>3, <2>4, <3>1, <1>a, <1>c, <1>d
  <2> QED
    BY <2>1, <2>5 DEF FramesTokened
<1>7. CASE SchedTop \/ SchedPut \/ SchedInsert \/ SchedPush \/ SchedPost \/ SchedThrottle
  <2>1. UNCHANGED <<out, gNewtaskAvaiable, lostPosts, dec, main>>
    BY <1>7 DEF SchedTop, SchedPut, SchedInsert, SchedPush, SchedPost, SchedThrottle
  <2>2. \A d \in Channels : Due(d)' <=> Due(d)
    BY <1>7, <1>a DEF SchedTop, SchedPut, SchedInsert, SchedPush, SchedPost, SchedThrottle,
                      NextChannel, Due
  <2>3. \A d \in Channels : Covered(d)' = Covered(d)
    BY <2>1, <2>2 DEF Covered
  <2> QED
    BY <2>1, <2>3 DEF FramesTokened
<1>8. CASE DispStep \/ InferTop \/ InferWait \/ FpsReset \/ FpsLeave
  <2>1. UNCHANGED <<out, gNewtaskAvaiable, lostPosts, dec, sched, schedCh, main>>
    BY <1>8 DEF DispStep, DispTop, DispWait, DispPop, InferTop, InferWait, FpsReset, FpsLeave
  <2> QED
    BY <2>1 DEF FramesTokened, Covered, Due
<1>9. CASE MainCreate
  <2>1. /\ UNCHANGED <<out, gNewtaskAvaiable, lostPosts, sched, schedCh>> /\ main = "create"
        /\ dec' = [dec EXCEPT ![started + 1] = "loop"]
        /\ started + 1 \in Channels /\ dec[started + 1] = "none"
    BY <1>9, <1>a DEF MainCreate, IInv, TypeInv, TypeOK, Startup
  <2>2. \A d \in Channels : Covered(d)' = Covered(d)
    BY <2>1, <1>b DEF Covered, Due
  <2> QED
    BY <2>1, <2>2 DEF FramesTokened
<1>10. CASE MainSemInit
  <2>1. /\ UNCHANGED <<out, dec, sched, schedCh>> /\ main = "sem_init" /\ main' = "threads"
        /\ gNewtaskAvaiable' = 0 /\ lostPosts' = (gNewtaskAvaiable > 0)
    BY <1>10 DEF MainSemInit
  <2>2. \A d \in Channels : Covered(d)' = Covered(d)
    BY <2>1 DEF Covered, Due
  <2>3. ~lostPosts' => gNewtaskAvaiable = 0 /\ ~lostPosts
    <3>1. ~lostPosts' => ~(gNewtaskAvaiable > 0)
      BY <2>1, Zenon
    <3> QED
      BY <2>1, <3>1, <1>a DEF FramesTokened
  <2> QED
    BY <2>1, <2>2, <2>3 DEF FramesTokened
<1>11. CASE MainThreads
  <2>1. /\ UNCHANGED <<out, dec, gNewtaskAvaiable, lostPosts, schedCh>> /\ main' = "handler"
        /\ sched = "none" /\ sched' = "top"
    BY <1>11 DEF MainThreads, IInv, TypeInv, Startup
  <2>2. \A d \in Channels : Covered(d)' = Covered(d)
    BY <2>1 DEF Covered, Due
  <2> QED
    BY <2>1, <2>2 DEF FramesTokened
<1>12. CASE MainPostTask
  <2>1. /\ UNCHANGED <<out, dec, lostPosts, sched, schedCh>> /\ main' = "post_show"
        /\ gNewtaskAvaiable' >= gNewtaskAvaiable /\ gNewtaskAvaiable' \in Nat
    BY <1>12, <1>a DEF MainPostTask, Posted
  <2>2. \A d \in Channels : Covered(d)' = Covered(d)
    BY <2>1 DEF Covered, Due
  <2> QED
    BY <2>1, <2>2, <1>a, <1>c, <1>d DEF FramesTokened
<1>13. CASE MainPause \/ sigint_hanlder \/ MainStop \/ MainPostShow \/ MainDpipeStop
              \/ MainJoin \/ MainSetupFails
  <2>1. /\ UNCHANGED <<out, dec, lostPosts, gNewtaskAvaiable, sched, schedCh>>
        /\ main' \notin {"create", "sem_init"}
    BY <1>13 DEF MainPause, sigint_hanlder, MainStop, MainPostShow, MainDpipeStop, MainJoin,
                 MainSetupFails
  <2> QED
    BY <2>1 DEF FramesTokened, Covered, Due
<1>14. CASE MainCleanup
  <2>1. /\ UNCHANGED <<dec, lostPosts, gNewtaskAvaiable, sched, schedCh>> /\ main' = "exit"
        /\ out' = [c \in Channels |-> << >>]
    BY <1>14 DEF MainCleanup
  <2>2. \A d \in Channels : Covered(d)' = Covered(d) /\ Len(out'[d]) = 0
    BY <2>1 DEF Covered, Due
  <2> QED
    BY <2>1, <2>2, <1>a, <1>d DEF FramesTokened
<1>15. CASE UNCHANGED vars
  BY <1>15 DEF vars, FramesTokened, Covered, Due
<1> QED
  BY <1>1, <1>2, <1>3, <1>4, <1>5, <1>6, <1>7, <1>8, <1>9, <1>10, <1>11, <1>12, <1>13,
     <1>14, <1>15 DEF Next, DecStep, SchedStep, MainStep, Alive

(* The tokens are enough at all times. *)
LEMMA FramesInductive ==
  ASSUME Cardinality(Buffers) <= SemMax
  PROVE  Spec => [](IInv /\ FramesTokened)
<1>1. Init => FramesTokened
  <2> SUFFICES ASSUME Init PROVE FramesTokened
    OBVIOUS
  <2>1. \A c \in Channels : out[c] = << >> /\ Covered(c) = 0
    BY DEF Init, Covered, Due
  <2>2. gNewtaskAvaiable = 0 /\ lostPosts = FALSE
    BY DEF Init
  <2> QED
    BY <2>1, <2>2 DEF FramesTokened
<1>2. IInv /\ FramesTokened /\ [Next]_vars => FramesTokened'
  BY FrameTokenStep
<1> QED
  BY <1>1, <1>2, Inductive, PTL DEF Spec

(* "wake-up when a new task avaiable" (main.cpp:1162): unless sem_init has  *)
(* wiped out posts of decoders that were already running, the scheduler     *)
(* does not sleep while every pipe has a frame and no decoder is about to   *)
(* post.  The semaphore must be able to count to the number of buffers.     *)
THEOREM SchedulerNotStranded ==
  ASSUME Cardinality(Buffers) <= SemMax
  PROVE  Spec => []SchedulerWakesAfterInit
<1>1. Spec => [](IInv /\ FramesTokened)
  BY FramesInductive
<1>2. IInv /\ FramesTokened => SchedulerWakesAfterInit
  <2> SUFFICES ASSUME IInv, FramesTokened, ~lostPosts, sched = "wait",
                      \A c \in Channels : out[c] # << >> /\ dec[c] # "post"
               PROVE  gNewtaskAvaiable > 0
    BY DEF SchedulerWakesAfterInit, SchedulerWakes
  <2>1. 1 \in Channels /\ gNewtaskAvaiable \in Nat
    BY PipelineAssumption DEF Channels, IInv, TypeInv, TypeOK
  <2>2. Covered(1) = 0
    BY <2>1 DEF Covered, Due
  <2>3. Len(out[1]) \in Nat \ {0}
    BY <2>1, PopHead DEF IInv, TypeInv, TypeOK
  <2>4. Len(out[1]) <= gNewtaskAvaiable + Covered(1)
    BY <2>1 DEF FramesTokened
  <2> QED
    BY <2>1, <2>2, <2>3, <2>4
<1> QED
  BY <1>1, <1>2, PTL
-----------------------------------------------------------------------------
(* The shutdown. *)

(* The joins main has behind it, and so the threads that have ended. *)
Joined ==
  /\ main \in {"join_infer", "join_sched", "join_dec", "cleanup", "exit"} =>
       disp = "done" /\ fps = "done"
  /\ main \in {"join_sched", "join_dec", "cleanup", "exit"} => infer = "done"
  /\ main \in {"join_dec", "cleanup", "exit"} => sched = "done"
  /\ main \in {"cleanup", "exit"} => \A c \in Channels : dec[c] = "done"

(* main destroys a pipe only after it joined the threads that use it. *)
LEMMA JoinStep == ASSUME ~SetupFails PROVE TypeInv /\ Joined /\ [Next]_vars => Joined'
<1> SUFFICES ASSUME TypeInv, Joined, [Next]_vars PROVE Joined'
  OBVIOUS
<1> USE DEF Joined
<1>1. ASSUME NEW c \in Channels, DecStep(c) \/ DecLeave(c) PROVE Joined'
  <2>1. dec[c] # "done" /\ UNCHANGED <<main, disp, fps, infer, sched>>
    BY <1>1 DEF DecStep, DecFrame, FFFrame, DecLeave, DecGet, DecGetEldest, DecGetNull,
                DecStore, DecPost
  <2> QED
    BY <2>1
<1>2. CASE SchedStep
  <2>1. sched # "done" /\ UNCHANGED <<main, disp, fps, infer>>
    BY <1>2 DEF SchedStep, SchedTop, SchedWait, SchedLoad, SchedPut, SchedInsert, SchedPush,
                SchedPost, SchedThrottle
  <2> QED
    BY <2>1
<1>3. CASE DispStep
  <2>1. disp # "done" /\ UNCHANGED <<main, sched, fps, infer, dec>>
    BY <1>3 DEF DispStep, DispTop, DispWait, DispPop
  <2> QED
    BY <2>1
<1>4. CASE InferTop \/ InferWait
  <2>1. infer # "done" /\ UNCHANGED <<main, sched, fps, disp, dec>>
    BY <1>4 DEF InferTop, InferWait
  <2> QED
    BY <2>1
<1>5. CASE FpsReset \/ FpsLeave
  <2>1. (fps' = fps \/ fps = "run") /\ UNCHANGED <<main, sched, infer, disp, dec>>
    BY <1>5 DEF FpsReset, FpsLeave
  <2> QED
    BY <2>1
<1>6. CASE MainCreate \/ MainSemInit \/ MainThreads \/ MainPause \/ MainStop \/ MainPostTask
            \/ MainPostShow \/ MainDpipeStop \/ sigint_hanlder
  <2>1. main' \notin {"join_infer", "join_sched", "join_dec", "cleanup", "exit"}
    BY <1>6 DEF MainCreate, MainSemInit, MainThreads, MainPause, MainStop, MainPostTask,
                MainPostShow, MainDpipeStop, sigint_hanlder
  <2> QED
    BY <2>1
<1>7. CASE MainJoin
  <2>1. UNCHANGED <<dec, sched, infer, disp, fps>>
    BY <1>7 DEF MainJoin
  <2>2. CASE main = "join_assist" /\ disp = "done" /\ fps = "done" /\ main' = "join_infer"
    BY <2>1, <2>2
  <2>3. CASE main = "join_infer" /\ infer = "done" /\ main' = "join_sched"
    BY <2>1, <2>3
  <2>4. CASE main = "join_sched" /\ sched = "done" /\ main' = "join_dec"
    BY <2>1, <2>4
  <2>5. CASE main = "join_dec" /\ (\A c \in Channels : dec[c] = "done") /\ main' = "cleanup"
    BY <2>1, <2>5
  <2> QED
    BY <1>7, <2>2, <2>3, <2>4, <2>5 DEF MainJoin
<1>8. CASE MainCleanup
  BY <1>8 DEF MainCleanup
<1>9. CASE UNCHANGED vars
  BY <1>9 DEF vars
<1> QED
  BY <1>1, <1>2, <1>3, <1>4, <1>5, <1>6, <1>7, <1>8, <1>9
     DEF Next, MainStep, MainSetupFails

(* "All thread is termined" (main.cpp:2278): if the set-up of no channel    *)
(* has failed, then by the time main destroys the pipes and semaphores      *)
(* every thread has ended and every buffer is back in a pool to be freed.   *)
THEOREM ExitsClean == ASSUME ~SetupFails PROVE Spec => []CleanExit
<1>1. Init => Joined
  BY DEF Init, Joined
<1>2. TypeInv /\ Joined /\ [Next]_vars => Joined'
  BY JoinStep
<1>3. IInv /\ Joined => CleanExit
  <2> SUFFICES ASSUME IInv, Joined, main = "cleanup" PROVE CleanExit
    BY DEF CleanExit
  <2>1. /\ sched = "done" /\ disp = "done" /\ infer = "done" /\ fps = "done"
        /\ \A c \in Channels : dec[c] = "done"
    BY DEF Joined
  <2>2. ASSUME NEW c \in Channels PROVE Len(in[c]) + Len(out[c]) = Cardinality(Buffers)
    <3>1. SchedHolds(c) = {} /\ DecHolds(c) = {}
      BY <2>1 DEF SchedHolds, DecHolds, IInv, TypeInv, HoldingPC
    <3>2. Cardinality({}) = 0
      BY FS_EmptySet
    <3>3. Accounted(in[c], out[c], {}, {})
      BY <3>1 DEF IInv, AllPooled, Pooled
    <3>4. in[c] \in Seq(Buffers) /\ out[c] \in Seq(Buffers)
      BY DEF IInv, TypeInv, TypeOK
    <3>5. Len(in[c]) \in Nat /\ Len(out[c]) \in Nat
      BY <3>4, LenProperties
    <3>6. Len(in[c]) + Len(out[c]) + 0 + 0 = Cardinality(Buffers)
      BY <3>2, <3>3, Zenon DEF Accounted
    <3>7. \A m, n \in Nat : m + n + 0 + 0 = m + n
      OBVIOUS
    <3>8. Len(in[c]) + Len(out[c]) + 0 + 0 = Len(in[c]) + Len(out[c])
      BY <3>5, <3>7, Zenon
    <3> QED
      BY <3>6, <3>8, Zenon
  <2> QED
    BY <2>1, <2>2 DEF CleanExit, Ended
<1> QED
  BY <1>1, <1>2, <1>3, Inductive, PTL DEF Spec, IInv

-----------------------------------------------------------------------------
(* Frame numbers. *)

(* A buffer in the hands of the decoder is in no other place. *)
LEMMA HeldApart ==
  ASSUME NEW i \in Seq(Buffers), NEW o \in Seq(Buffers), NEW b, NEW s, IsFiniteSet(s),
         Accounted(i, o, s, {b})
  PROVE  b \notin Elems(i) /\ b \notin s
<1> SUFFICES ASSUME b \in Elems(i) \cup s PROVE FALSE
  OBVIOUS
<1>1. Buffers = (Elems(i) \cup Elems(o)) \cup s
  BY DEF Accounted
<1>2. /\ IsFiniteSet(Elems(i)) /\ IsFiniteSet(Elems(o))
      /\ Cardinality(Elems(i)) \in Nat /\ Cardinality(Elems(i)) <= Len(i) /\ Len(i) \in Nat
      /\ Cardinality(Elems(o)) \in Nat /\ Cardinality(Elems(o)) <= Len(o) /\ Len(o) \in Nat
  BY ElementsFinite, ElemsEntries
<1>3. /\ IsFiniteSet(Elems(i) \cup Elems(o))
      /\ Cardinality(Elems(i) \cup Elems(o))
           = Cardinality(Elems(i)) + Cardinality(Elems(o))
               - Cardinality(Elems(i) \cap Elems(o))
      /\ Cardinality(Elems(i) \cap Elems(o)) \in Nat
  BY <1>2, FS_Union, FS_Intersection, FS_CardinalityType
<1>4. Cardinality(Elems(i) \cup Elems(o)) <= Len(i) + Len(o)
      /\ Cardinality(Elems(i) \cup Elems(o)) \in Nat
  BY <1>2, <1>3, FS_CardinalityType
<1> DEFINE T == Elems(i) \cup Elems(o)
<1>5. IsFiniteSet(T) /\ Cardinality(T) \in Nat /\ Cardinality(T) <= Len(i) + Len(o)
  BY <1>3, <1>4
<1> HIDE DEF T
<1>6. /\ Cardinality(T \cup s) = Cardinality(T) + Cardinality(s) - Cardinality(T \cap s)
      /\ Cardinality(T \cap s) \in Nat /\ Cardinality(s) \in Nat
  BY <1>5, FS_Union, FS_Intersection, FS_CardinalityType
<1>7. Cardinality(Buffers) <= Len(i) + Len(o) + Cardinality(s)
  BY <1>1, <1>2, <1>5, <1>6 DEF T
<1>8. Len(i) + Len(o) + Cardinality(s) + 1 = Cardinality(Buffers)
  BY FS_Singleton DEF Accounted
<1> QED
  BY <1>2, <1>6, <1>7, <1>8

(* The scheduler's image and the number in the buffer it came from. *)
Numbered ==
  /\ sched = "put" => FrameNo = img
  /\ sched = "insert" /\ schedBuf \in Elems(in[schedCh]) => FrameNo = img

(* Only the decoder that holds a free buffer writes its frame number. *)
LEMMA NumberStep == IInv /\ Numbered /\ [Next]_vars => Numbered'
<1> SUFFICES ASSUME IInv, Numbered, [Next]_vars PROVE Numbered'
  OBVIOUS
<1>a. /\ in \in [Channels -> Seq(Buffers)] /\ out \in [Channels -> Seq(Buffers)]
      /\ label \in [Channels -> [Buffers -> 0 .. Labels - 1]] /\ schedCh \in Channels
      /\ decBuf \in [Channels -> Buffers \cup {NoBuffer}]
  BY DEF IInv, TypeInv, TypeOK
<1>1. ASSUME NEW c \in Channels, DecFrame(c) \/ FFFrame(c) \/ DecLeave(c) \/ DecGetNull(c)
                                 \/ DecPost(c) \/ DecGetEldest(c)
      PROVE  Numbered'
  <2>1. UNCHANGED <<in, label, sched, schedCh, schedBuf, img>>
    BY <1>1 DEF DecFrame, FFFrame, DecLeave, DecGetNull, DecPost, DecGetEldest
  <2> QED
    BY <2>1 DEF Numbered, FrameNo
<1>2. ASSUME NEW c \in Channels, DecGet(c) PROVE Numbered'
  <2>1. /\ UNCHANGED <<label, sched, schedCh, schedBuf, img>>
        /\ in' = [in EXCEPT ![c] = Tail(@)] /\ in[c] # << >>
    BY <1>2 DEF DecGet
  <2>2. Elems(in[c]) = Elems(Tail(in[c])) \cup {Head(in[c])}
    BY <2>1, <1>a, PopHead, ElemsEntries
  <2>3. Elems(in'[schedCh]) \subseteq Elems(in[schedCh])
    BY <2>1, <2>2, <1>a
  <2> QED
    BY <2>1, <2>3 DEF Numbered, FrameNo
<1>3. ASSUME NEW c \in Channels, DecStore(c), main # "exit" PROVE Numbered'
  <2>1. /\ UNCHANGED <<in, sched, schedCh, schedBuf, img>> /\ dec[c] = "store"
        /\ label' = [label EXCEPT ![c][decBuf[c]] = nFrameProcessed[c]]
    BY <1>3 DEF DecStore
  <2>2. CASE c # schedCh
    <3>1. label'[schedCh] = label[schedCh]
      BY <2>1, <2>2, <1>a
    <3> QED
      BY <2>1, <3>1 DEF Numbered, FrameNo
  <2>3. CASE c = schedCh
    <3>1. DecHolds(c) = {decBuf[c]} /\ decBuf[c] \in Buffers
      BY <2>1, <1>a DEF DecHolds, IInv, TypeInv, HoldingPC
    <3>2. Accounted(in[c], out[c], SchedHolds(c), {decBuf[c]})
      BY <1>3, <3>1 DEF IInv, AllPooled, Pooled
    <3>3. IsFiniteSet(SchedHolds(c))
      BY FS_EmptySet, FS_Singleton DEF SchedHolds
    <3>4. in[c] \in Seq(Buffers) /\ out[c] \in Seq(Buffers)
      BY <1>a
    <3>5. decBuf[c] \notin Elems(in[c]) /\ decBuf[c] \notin SchedHolds(c)
      BY <3>2, <3>3, <3>4, HeldApart
    <3>6. label[c] \in [Buffers -> 0 .. Labels - 1]
          /\ label'[c] = [label[c] EXCEPT ![decBuf[c]] = nFrameProcessed[c]]
      BY <2>1, <1>a
    <3>7. sched \in {"put", "insert"} => schedBuf \in Buffers
      BY DEF IInv, TypeInv, HoldingPC
    <3>8. sched \in {"put", "insert"} /\ schedBuf # decBuf[c]
            => label'[c][schedBuf] = label[c][schedBuf]
      BY <3>6, <3>7
    <3>9. sched = "put" => schedBuf # decBuf[c]
      BY <2>3, <3>5 DEF SchedHolds
    <3> QED
      BY <2>1, <2>3, <3>5, <3>8, <3>9 DEF Numbered, FrameNo
  <2> QED
    BY <2>2, <2>3
<1>4. CASE SchedLoad
  BY <1>4 DEF SchedLoad, Numbered, FrameNo
<1>5. CASE SchedPut
  <2>1. UNCHANGED <<label, schedCh, schedBuf, img>> /\ sched = "put" /\ sched' = "insert"
    BY <1>5 DEF SchedPut
  <2> QED
    BY <2>1 DEF Numbered, FrameNo
<1>6. CASE SchedTop \/ SchedWait \/ SchedInsert \/ SchedPush \/ SchedPost \/ SchedThrottle
  <2>1. sched' \notin {"put", "insert"}
    BY <1>6 DEF SchedTop, SchedWait, SchedInsert, SchedPush, SchedPost, SchedThrottle,
                NextChannel
  <2> QED
    BY <2>1 DEF Numbered
<1>7. CASE DispStep \/ InferTop \/ InferWait \/ FpsReset \/ FpsLeave
  <2>1. UNCHANGED <<in, label, sched, schedCh, schedBuf, img>>
    BY <1>7 DEF DispStep, DispTop, DispWait, DispPop, InferTop, InferWait, FpsReset, FpsLeave
  <2> QED
    BY <2>1 DEF Numbered, FrameNo
<1>8. CASE (MainStep /\ ~MainThreads /\ ~MainCleanup) \/ MainSetupFails \/ sigint_hanlder
  <2>1. UNCHANGED <<in, label, sched, schedCh, schedBuf, img>>
    BY <1>8 DEF MainStep, MainCreate, MainSemInit, MainPause, MainStop, MainPostTask,
                MainPostShow, MainDpipeStop, MainJoin, MainSetupFails, sigint_hanlder
  <2> QED
    BY <2>1 DEF Numbered, FrameNo
<1>9. CASE MainThreads
  <2>1. sched' = "top"
    BY <1>9 DEF MainThreads
  <2> QED
    BY <2>1 DEF Numbered
<1>10. CASE MainCleanup
  <2>1. /\ UNCHANGED <<label, sched, schedCh, schedBuf, img>>
        /\ in' = [c \in Channels |-> << >>]
    BY <1>10 DEF MainCleanup
  <2>2. Elems(in'[schedCh]) = {}
    BY <2>1, <1>a DEF Elems
  <2> QED
    BY <2>1, <2>2 DEF Numbered, FrameNo
<1>11. CASE UNCHANGED vars
  BY <1>11 DEF vars, Numbered, FrameNo
<1> QED
  BY <1>1, <1>2, <1>3, <1>4, <1>5, <1>6, <1>7, <1>8, <1>9, <1>10, <1>11
     DEF Next, DecStep, SchedStep, Alive

(* The scheduler reads frameno after dpipe_put.  As long as the buffer has  *)
(* not been taken out of the pool again, what it reads is the number of the *)
(* image it copied before.                                                  *)
THEOREM NumberKept == Spec => []NumberUntilRecycled
<1>1. Init => Numbered
  BY DEF Init, Numbered
<1>2. Numbered => NumberUntilRecycled
  BY DEF Numbered, NumberUntilRecycled
<1> QED
  BY <1>1, <1>2, NumberStep, Inductive, PTL DEF Spec

-----------------------------------------------------------------------------
(* Who waits for whom. *)

(* A buffer that is neither free nor stored, nor with its decoder, is with  *)
(* the scheduler.                                                           *)
LEMMA AllBuffersOut ==
  ASSUME IInv, main # "exit", NEW c \in Channels,
         in[c] = << >>, out[c] = << >>, dec[c] = "get"
  PROVE  sched = "put" /\ schedCh = c
<1>1. Elems(in[c]) \cup Elems(out[c]) \cup SchedHolds(c) \cup DecHolds(c) = Buffers
  BY DEF IInv, AllPooled, Pooled, Accounted
<1>2. Elems(in[c]) = {} /\ Elems(out[c]) = {}
  BY DEF Elems
<1>3. DecHolds(c) = {}
  BY DEF IInv, TypeInv, HoldingPC, DecHolds
<1>4. SchedHolds(c) # {}
  BY <1>1, <1>2, <1>3, PipelineAssumption
<1> QED
  BY <1>4 DEF SchedHolds

(* The decoders, the scheduler and the display never wait for each other in *)
(* a circle, for any number of channels and buffers: what the scheduler     *)
(* waits for is the work of a thread that does not wait for the scheduler.  *)
(* The semaphores must be able to count to the number of buffers and of     *)
(* channels.                                                                *)
THEOREM NobodyWaitsInCircle ==
  ASSUME SemMax > NumChannels, Cardinality(Buffers) <= SemMax
  PROVE  Spec => []NoCircularWait
<1>1. Spec => [](IInv /\ FramesTokened)
  BY FramesInductive
<1>2. Spec => [](TypeInv /\ QueueBound /\ Tokened)
  BY TokensInductive
<1>3. IInv /\ FramesTokened /\ Tokened /\ SchedulerWakesAfterInit => NoCircularWait
  <2> SUFFICES ASSUME IInv, FramesTokened, Tokened, main # "exit"
               PROVE  /\ TaskWaits /\ ~lostPosts => \E c \in Channels : ~DecWaits(c)
                      /\ LoadWaits => ~DecWaits(schedCh)
                      /\ ThrottleWaits => ~DispWaits
    BY DEF NoCircularWait
  <2>1. ASSUME TaskWaits, ~lostPosts PROVE \E c \in Channels : ~DecWaits(c)
    <3>1. 1 \in Channels /\ out[1] \in Seq(Buffers)
      BY PipelineAssumption DEF Channels, IInv, TypeInv, TypeOK
    <3>2. SUFFICES ASSUME DecWaits(1) PROVE FALSE
      BY <3>1
    <3>3. dec[1] = "get" /\ in[1] = << >> /\ sched = "wait" /\ gNewtaskAvaiable = 0
      BY <2>1, <3>2 DEF DecWaits, TaskWaits
    <3>4. Covered(1) = 0
      BY <3>3 DEF Covered, Due
    <3>5. Len(out[1]) <= 0
      BY <2>1, <3>1, <3>3, <3>4 DEF FramesTokened
    <3>6. out[1] = << >>
      BY <3>1, <3>5, PopHead
    <3> QED
      BY <3>1, <3>3, <3>6, AllBuffersOut
  <2>2. ASSUME LoadWaits PROVE ~DecWaits(schedCh)
    <3>1. schedCh \in Channels
      BY DEF IInv, TypeInv, TypeOK
    <3> QED
      BY <2>2, <3>1, AllBuffersOut DEF LoadWaits, DecWaits
  <2>3. ASSUME ThrottleWaits PROVE ~DispWaits
    <3>1. gresultque \in Nat /\ SemMax \in Nat /\ g_semtshow \in 0 .. SemMax
      BY PipelineAssumption DEF IInv, TypeInv, TypeOK
    <3>2. gresultque <= Tokens
      BY <3>1 DEF Tokened, Tokens
    <3> QED
      BY <2>3, <3>1, <3>2 DEF Tokens, ThrottleWaits, DispWaits
  <2> QED
    BY <2>1, <2>2, <2>3
<1>4. Spec => []SchedulerWakesAfterInit
  BY SchedulerNotStranded
<1> QED
  BY <1>1, <1>2, <1>3, <1>4, PTL

(* main is in the part of the shutdown that begins with the given step. *)
AfterStop  == {"post_task", "post_show", "dpipe_stop", "join_assist", "join_infer",
               "join_sched", "join_dec"}
Joins      == {"join_assist", "join_infer", "join_sched", "join_dec"}

(* What main's posts and flags have done by then.  Before grunning is       *)
(* cleared the threads have been created.                                   *)
Woken ==
  /\ main \in {"stop"} \cup AfterStop => ~grunning
  /\ ~grunning => main \notin {"create", "sem_init", "threads"}
  /\ main \in AfterStop /\ infer = "wait" => gsemtInfer > 0
  /\ main \in AfterStop \ {"post_task"} /\ sched = "wait" => gNewtaskAvaiable > 0
  /\ main \in Joins \cup {"dpipe_stop"} /\ disp = "wait" => g_semtshow > 0
  /\ main \in Joins => ~start

(* A thread begins a sem_wait only with grunning set, and main posts to     *)
(* each after it was cleared.                                               *)
LEMMA WokenStep == TypeInv /\ Woken /\ [Next]_vars => Woken'
<1> SUFFICES ASSUME TypeInv, Woken, [Next]_vars PROVE Woken'
  OBVIOUS
<1>a. /\ SemMax \in Nat \ {0} /\ gsemtInfer \in Nat /\ gNewtaskAvaiable \in Nat
      /\ g_semtshow \in Nat
  BY PipelineAssumption DEF TypeInv, TypeOK
<1>b. \A n \in Nat : Posted(n) > 0
  BY <1>a DEF Posted
<1> USE DEF Woken, AfterStop, Joins
<1>1. ASSUME NEW c \in Channels, DecStep(c) \/ DecLeave(c) PROVE Woken'
  <2>1. /\ UNCHANGED <<main, grunning, start, sched, disp, infer, gsemtInfer, g_semtshow>>
        /\ gNewtaskAvaiable' \in {gNewtaskAvaiable, Posted(gNewtaskAvaiable)}
    BY <1>1 DEF DecStep, DecFrame, FFFrame, DecLeave, DecGet, DecGetEldest, DecGetNull,
                DecStore, DecPost
  <2> QED
    BY <2>1, <1>a, <1>b
<1>2. CASE SchedStep
  <2>1. /\ UNCHANGED <<main, grunning, start, disp, infer, gsemtInfer>>
        /\ sched' = "wait" => grunning
        /\ g_semtshow' \in {g_semtshow, Posted(g_semtshow)}
    BY <1>2 DEF SchedStep, SchedTop, SchedWait, SchedLoad, SchedPut, SchedInsert, SchedPush,
                SchedPost, SchedThrottle, NextChannel
  <2> QED
    BY <2>1, <1>a, <1>b
<1>3. CASE DispStep
  <2>1. /\ UNCHANGED <<main, grunning, start, sched, gNewtaskAvaiable, infer, gsemtInfer>>
        /\ disp' = "wait" => grunning
    BY <1>3 DEF DispStep, DispTop, DispWait, DispPop
  <2> QED
    BY <2>1
<1>4. CASE InferTop \/ InferWait
  <2>1. /\ UNCHANGED <<main, grunning, start, sched, gNewtaskAvaiable, disp, g_semtshow>>
        /\ infer' = "wait" => grunning
    BY <1>4 DEF InferTop, InferWait
  <2> QED
    BY <2>1
<1>5. CASE FpsReset \/ FpsLeave
  BY <1>5 DEF FpsReset, FpsLeave
<1>6. CASE MainCreate \/ MainSemInit \/ MainThreads \/ MainPause
  BY <1>6 DEF MainCreate, MainSemInit, MainThreads, MainPause
<1>7. CASE sigint_hanlder \/ MainCleanup \/ MainSetupFails
  BY <1>7 DEF sigint_hanlder, MainCleanup, MainSetupFails
<1>8. CASE MainStop \/ MainPostTask
  BY <1>8, <1>a, <1>b DEF MainStop, MainPostTask
<1>9. CASE MainPostShow \/ MainDpipeStop
  BY <1>9, <1>a, <1>b DEF MainPostShow, MainDpipeStop
<1>10. CASE MainJoin
  BY <1>10 DEF MainJoin
<1>11. CASE UNCHANGED vars
  BY <1>11 DEF vars
<1> QED
  BY <1>1, <1>2, <1>3, <1>4, <1>5, <1>6, <1>7, <1>8, <1>9, <1>10, <1>11 DEF Next, MainStep

(* The same, at all times. *)
LEMMA WokenInductive == Spec => [](IInv /\ Woken)
<1>1. Init => Woken
  BY DEF Init, Woken, AfterStop, Joins
<1>2. IInv => TypeInv
  BY DEF IInv
<1> QED
  BY <1>1, <1>2, WokenStep, Inductive, PTL DEF Spec

(* Once main joins, no thread waits for anything but the scheduler in       *)
(* dpipe_load on an empty pipe: the one way in which the shutdown can hang  *)
(* (main.cpp:1168) is the only one, for any number of channels, buffers and *)
(* either decoder.                                                          *)
THEOREM OnlyLoadBlocks == Spec => []ShutdownWakes
<1>1. IInv /\ Woken => ShutdownWakes
  <2> SUFFICES ASSUME IInv, Woken, main \in Joins
               PROVE  /\ ~TaskWaits /\ ~ThrottleWaits /\ ~DispWaits /\ ~InferWaits
                      /\ \A c \in Channels : DecWaits(c) => sched = "put" /\ schedCh = c
    BY DEF ShutdownWakes, Joins
  <2>1. main \in AfterStop \ {"post_task"} /\ main # "exit"
    BY DEF AfterStop, Joins
  <2>2. ~TaskWaits /\ ~ThrottleWaits /\ ~DispWaits /\ ~InferWaits
    BY <2>1 DEF Woken, TaskWaits, ThrottleWaits, DispWaits, InferWaits
  <2>3. ASSUME NEW c \in Channels, DecWaits(c) PROVE sched = "put" /\ schedCh = c
    BY <2>1, <2>3, AllBuffersOut DEF DecWaits, Woken
  <2> QED
    BY <2>2, <2>3
<1> QED
  BY <1>1, WokenInductive, PTL

(* The work that is left is a number. *)
LEMMA WorkTypes ==
  TypeInv => DecWork \in Nat /\ RoundWork \in Nat /\ OtherWork \in Nat /\ MainWork \in Nat
<1> SUFFICES ASSUME TypeInv
             PROVE  DecWork \in Nat /\ RoundWork \in Nat /\ OtherWork \in Nat /\ MainWork \in Nat
  OBVIOUS
<1>1. NumChannels \in Nat \ {0} /\ schedCh \in 1 .. NumChannels
  BY PipelineAssumption DEF TypeInv, TypeOK, Channels
<1>2. IsFiniteSet(Channels) /\ 1 \in Channels
  BY <1>1, FS_Interval DEF Channels
<1>3. ASSUME NEW P PROVE DecAt(P) \in Nat
  <2>1. DecAt(P) = CountIn(dec, Channels, P)
    BY DEF DecAt, CountIn
  <2>2. CountIn(dec, Channels, P) \in Nat
    BY <1>2, CountOne
  <2> QED
    BY <2>1, <2>2
<1>4. DecWork \in Nat
  BY <1>3 DEF DecWork
<1>5. RoundWork \in Nat
  BY <1>1 DEF RoundWork
<1> QED
  BY <1>4, <1>5 DEF OtherWork, MainWork

(* A step of a decoder lowers its share. *)
LEMMA DecWorkStep ==
  ASSUME TypeInv, NEW c \in Channels, NEW l,
         \/ dec[c] = "get" /\ l \in {"store", "done"}
         \/ dec[c] = "store" /\ l = "post"
         \/ dec[c] = "post" /\ l = "loop"
         \/ dec[c] = "loop" /\ l = "done",
         DecGoto(c, l)
  PROVE  DecWork' \in Nat /\ DecWork' < DecWork
<1>1. NumChannels \in Nat \ {0} /\ dec \in [Channels -> DecPC]
  BY PipelineAssumption DEF TypeInv, TypeOK
<1>2. IsFiniteSet(Channels)
  BY <1>1, FS_Interval DEF Channels
<1>3. dec'[c] = l /\ \A x \in Channels \ {c} : dec'[x] = dec[x]
  BY <1>1 DEF DecGoto
<1>4. ASSUME NEW P
      PROVE  /\ DecAt(P) \in Nat /\ DecAt(P)' \in Nat
             /\ (dec[c] \in P <=> l \in P) => DecAt(P)' = DecAt(P)
             /\ dec[c] \in P /\ l \notin P => DecAt(P)' = DecAt(P) - 1
  <2>1. DecAt(P) = CountIn(dec, Channels, P) /\ DecAt(P)' = CountIn(dec', Channels, P)
    BY DEF DecAt, CountIn, Channels
  <2> DEFINE n == CountIn(dec, Channels, P)
             m == CountIn(dec', Channels, P)
  <2>2. /\ n \in Nat /\ m \in Nat
        /\ dec[c] \in P /\ dec'[c] \in P => m = n
        /\ dec[c] \notin P /\ dec'[c] \notin P => m = n
        /\ dec[c] \in P /\ dec'[c] \notin P => m = n - 1
    BY <1>2, <1>3, CountOne
  <2> QED
    BY <1>3, <2>1, <2>2
<1>5. CASE dec[c] = "get" /\ l \in {"store", "done"}
  <2>1. DecAt({"get"})' = DecAt({"get"}) - 1
    BY <1>4, <1>5
  <2>2. /\ DecAt({"get", "store"})' <= DecAt({"get", "store"})
        /\ DecAt({"get", "store", "post"})' <= DecAt({"get", "store", "post"})
        /\ DecAt({"get", "store", "post", "loop"})' <= DecAt({"get", "store", "post", "loop"})
    BY <1>4, <1>5
  <2> QED
    BY <1>4, <2>1, <2>2 DEF DecWork
<1>6. CASE dec[c] = "store" /\ l = "post"
  BY <1>4, <1>6 DEF DecWork
<1>7. CASE dec[c] = "post" /\ l = "loop"
  BY <1>4, <1>7 DEF DecWork
<1>8. CASE dec[c] = "loop" /\ l = "done"
  BY <1>4, <1>8 DEF DecWork
<1> QED
  BY <1>5, <1>6, <1>7, <1>8

(* Every step with grunning cleared lowers the share of the thread that     *)
(* takes it, and no other.                                                  *)
LEMMA WorkStep ==
  ASSUME TypeInv, Woken, ~grunning, Next
  PROVE  Work' < Work \/ UNCHANGED vars
<1>a. /\ NumChannels \in Nat \ {0} /\ schedCh \in 1 .. NumChannels
      /\ DecWork \in Nat /\ RoundWork \in Nat /\ OtherWork \in Nat /\ MainWork \in Nat
  BY PipelineAssumption, WorkTypes DEF TypeInv, TypeOK, Channels
<1>b. (main \notin {"create", "sem_init", "threads"})
  BY DEF Woken
<1>c. /\ Work = DecWork + RoundWork + OtherWork + MainWork
      /\ Work' = DecWork' + RoundWork' + OtherWork' + MainWork'
  BY DEF Work
<1>1. ASSUME NEW c \in Channels, DecStep(c) \/ DecLeave(c) PROVE Work' < Work
  <2>1. UNCHANGED <<sched, schedCh, disp, infer, fps, main>>
    BY <1>1 DEF DecStep, DecFrame, FFFrame, DecLeave, DecGet, DecGetEldest, DecGetNull,
                DecStore, DecPost
  <2>2. RoundWork' = RoundWork /\ OtherWork' = OtherWork /\ MainWork' = MainWork
    BY <2>1 DEF RoundWork, OtherWork, MainWork
  <2>3. \/ dec[c] = "get" /\ (DecGoto(c, "store") \/ DecGoto(c, "done"))
        \/ dec[c] = "store" /\ DecGoto(c, "post")
        \/ dec[c] = "post" /\ DecGoto(c, "loop")
        \/ dec[c] = "loop" /\ DecGoto(c, "done")
    BY <1>1 DEF DecStep, DecFrame, FFFrame, DecLeave, DecGet, DecGetEldest, DecGetNull,
                DecStore, DecPost
  <2>4. DecWork' \in Nat /\ DecWork' < DecWork
    BY <2>3, DecWorkStep
  <2>p. PICK e : e = DecWork'
    OBVIOUS
  <2>q. e \in Nat /\ e < DecWork
    BY <2>4, <2>p
  <2>5. Work' = e + RoundWork + OtherWork + MainWork
    BY <2>2, <1>c, <2>p
  <2> QED
    BY <2>q, <2>5, <1>a, <1>c
<1>2. CASE SchedStep
  <2>1. UNCHANGED <<dec, disp, infer, fps, main>>
    BY <1>2 DEF SchedStep, SchedTop, SchedWait, SchedLoad, SchedPut, SchedInsert, SchedPush,
                SchedPost, SchedThrottle
  <2>2. DecWork' = DecWork /\ OtherWork' = OtherWork /\ MainWork' = MainWork
    BY <2>1 DEF DecWork, DecAt, OtherWork, MainWork
  <2>3. RoundWork' \in Nat /\ RoundWork' < RoundWork
    <3>1. CASE SchedTop
      <4>1. sched = "top" /\ sched' = "done"
        BY <3>1 DEF SchedTop
      <4> QED
        BY <4>1 DEF RoundWork
    <3>2. CASE SchedWait
      <4>1. sched = "wait" /\ sched' = "load" /\ schedCh' = 1
        BY <3>2 DEF SchedWait
      <4> QED
        BY <4>1, <1>a DEF RoundWork
    <3>3. CASE SchedLoad \/ SchedPut \/ SchedPush \/ SchedPost
      <4>1. /\ schedCh' = schedCh
            /\ \/ sched = "load" /\ sched' = "put"
               \/ sched = "put" /\ sched' = "insert"
               \/ sched = "push" /\ sched' = "post"
               \/ sched = "post" /\ sched' = "throttle"
        BY <3>3 DEF SchedLoad, SchedPut, SchedPush, SchedPost
      <4> QED
        BY <4>1, <1>a DEF RoundWork
    <3>4. CASE SchedInsert \/ SchedThrottle
      <4>1. /\ sched \in {"insert", "throttle"}
            /\ \/ schedCh < NumChannels /\ sched' = "load" /\ schedCh' = schedCh + 1
               \/ sched' = "top"
               \/ sched = "insert" /\ sched' = "push" /\ schedCh' = schedCh
        BY <3>4 DEF SchedInsert, SchedThrottle, NextChannel
      <4> QED
        BY <4>1, <1>a DEF RoundWork
    <3> QED
      BY <1>2, <3>1, <3>2, <3>3, <3>4 DEF SchedStep
  <2>p. PICK e : e = RoundWork'
    OBVIOUS
  <2>q. e \in Nat /\ e < RoundWork
    BY <2>3, <2>p
  <2>4. Work' = DecWork + e + OtherWork + MainWork
    BY <2>2, <1>c, <2>p
  <2> QED
    BY <2>q, <2>4, <1>a, <1>c
<1>3. CASE DispStep \/ InferTop \/ InferWait \/ FpsLeave
  <2>1. UNCHANGED <<dec, sched, schedCh, main>>
    BY <1>3 DEF DispStep, DispTop, DispWait, DispPop, InferTop, InferWait, FpsLeave
  <2>2. DecWork' = DecWork /\ RoundWork' = RoundWork /\ MainWork' = MainWork
    BY <2>1 DEF DecWork, DecAt, RoundWork, MainWork
  <2>3. \/ /\ UNCHANGED <<infer, fps>>
           /\ \/ disp = "top" /\ disp' = "done"
              \/ disp = "wait" /\ disp' = "pop"
              \/ disp = "pop" /\ disp' = "top"
        \/ /\ UNCHANGED <<disp, fps>>
           /\ \/ infer = "top" /\ infer' = "done"
              \/ infer = "wait" /\ infer' = "top"
        \/ UNCHANGED <<disp, infer>> /\ fps = "run" /\ fps' = "done"
    BY <1>3 DEF DispStep, DispTop, DispWait, DispPop, InferTop, InferWait, FpsLeave
  <2>4. OtherWork' \in Nat /\ OtherWork' < OtherWork
    BY <2>3 DEF OtherWork
  <2>p. PICK e : e = OtherWork'
    OBVIOUS
  <2>q. e \in Nat /\ e < OtherWork
    BY <2>4, <2>p
  <2>5. Work' = DecWork + RoundWork + e + MainWork
    BY <2>2, <1>c, <2>p
  <2> QED
    BY <2>q, <2>5, <1>a, <1>c
<1>4. CASE MainStep
  <2>1. UNCHANGED <<dec, sched, schedCh, disp, infer, fps>>
    BY <1>4, <1>b DEF MainStep, MainCreate, MainSemInit, MainThreads, MainPause, MainStop,
                MainPostTask, MainPostShow, MainDpipeStop, MainJoin, MainCleanup
  <2>2. DecWork' = DecWork /\ RoundWork' = RoundWork /\ OtherWork' = OtherWork
    BY <2>1 DEF DecWork, DecAt, RoundWork, OtherWork
  <2>3. \/ main = "handler" /\ main' = "pause"
        \/ main = "stop" /\ main' = "post_task"
        \/ main = "post_task" /\ main' = "post_show"
        \/ main = "post_show" /\ main' = "dpipe_stop"
        \/ main = "dpipe_stop" /\ main' = "join_assist"
        \/ main = "join_assist" /\ main' = "join_infer"
        \/ main = "join_infer" /\ main' = "join_sched"
        \/ main = "join_sched" /\ main' = "join_dec"
        \/ main = "join_dec" /\ main' = "cleanup"
        \/ main = "cleanup" /\ main' = "exit"
    BY <1>4, <1>b DEF MainStep, MainCreate, MainSemInit, MainThreads, MainPause, MainStop,
                MainPostTask, MainPostShow, MainDpipeStop, MainJoin, MainCleanup
  <2>4. MainWork' \in Nat /\ MainWork' < MainWork
    BY <2>3 DEF MainWork
  <2>p. PICK e : e = MainWork'
    OBVIOUS
  <2>q. e \in Nat /\ e < MainWork
    BY <2>4, <2>p
  <2>5. Work' = DecWork + RoundWork + OtherWork + e
    BY <2>2, <1>c, <2>p
  <2> QED
    BY <2>q, <2>5, <1>a, <1>c
<1>5. CASE sigint_hanlder
  <2>1. CASE main = "handler"
    <3>1. grunning \in BOOLEAN /\ grunning' = FALSE /\ main' = main
      BY <1>5, <2>1 DEF sigint_hanlder, TypeInv, TypeOK
    <3>2. grunning' = grunning
      BY <3>1
    <3> QED
      BY <1>5, <3>1, <3>2 DEF sigint_hanlder, vars
  <2>2. CASE main = "pause"
    <3>1. main' = "stop" /\ UNCHANGED <<dec, sched, schedCh, disp, infer, fps>>
      BY <1>5, <2>2 DEF sigint_hanlder
    <3>2. DecWork' = DecWork /\ RoundWork' = RoundWork /\ OtherWork' = OtherWork
      BY <3>1 DEF DecWork, DecAt, RoundWork, OtherWork
    <3>3. MainWork' \in Nat /\ MainWork' < MainWork
      BY <2>2, <3>1 DEF MainWork
    <3>p. PICK e : e = MainWork'
      OBVIOUS
    <3>q. e \in Nat /\ e < MainWork
      BY <3>3, <3>p
    <3>4. Work' = DecWork + RoundWork + OtherWork + e
      BY <3>2, <1>c, <3>p
    <3> QED
      BY <3>q, <3>4, <1>a, <1>c
  <2> QED
    BY <1>5, <2>1, <2>2 DEF sigint_hanlder
<1>6. ~FpsReset /\ ~MainSetupFails
  BY <1>b DEF FpsReset, MainSetupFails
<1> QED
  BY <1>1, <1>2, <1>3, <1>4, <1>5, <1>6 DEF Next

(* SIGINT ends the work: from then on every step of any thread, in any      *)
(* order, lowers a number, so that the program comes to rest after a        *)
(* bounded number of steps; by OnlyLoadBlocks it then has ended, or the     *)
(* scheduler waits in dpipe_load.                                           *)
THEOREM ShutdownComesToRest == Spec => ShutdownSteps
<1>1. IInv /\ Woken /\ [Next]_vars => [~grunning => Work' < Work]_vars
  <2> SUFFICES ASSUME IInv, Woken, [Next]_vars, ~grunning
               PROVE  Work' < Work \/ UNCHANGED vars
    OBVIOUS
  <2>1. TypeInv
    BY DEF IInv
  <2> QED
    BY <2>1, WorkStep
<1> QED
  BY <1>1, WokenInductive, PTL DEF Spec, ShutdownSteps
=============================================================================
