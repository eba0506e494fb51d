--------------------------- MODULE DetectorProofs ---------------------------
(***************************************************************************)
(* Theorems about Detector, for every batch size, any number of images and *)
(* both modes.                                                             *)
(*                                                                         *)
(* Base holds whatever the device does: InsertImage keeps its queue, its   *)
(* batch index and its two requests apart.  Attributed is not inductive:   *)
(* it relates only the caller's vector to itself.  Aligned says which      *)
(* images are in which blob until a request ends without a result: in      *)
(* asynchronous mode infer_request_curr_ holds the num_batch_ images that  *)
(* follow the reported ones and infer_request_next_ those after them; the  *)
(* queue holds the identities of both, in the same order.                  *)
(***************************************************************************)
EXTENDS Detector, TLAPS, SequenceTheorems

(* Enough identities are queued for the images in the blobs. *)
Queued ==
  /\ pc = "idle" => inserted - returned >= nbatch_index
  /\ pc = "wait" => nbatch_index = 0 /\ inserted - returned >= num_batch

Base == TypeOK /\ curr # next /\ QueueAligned /\ Queued /\ FillsIdleRequest

(* Request r holds the images base + 1 .. base + num_batch, and so does its *)
(* output once it is done.                                                  *)
Loaded(r, base) ==
  /\ state[r] \in {"busy", "done"}
  /\ \A k \in Slots : blob[r][k] = base + k
  /\ state[r] = "done" => \A k \in Slots : result[r][k] = base + k

(* Request r is idle and holds the first nbatch_index images of a batch     *)
(* whose predecessor ended with image base.                                 *)
Filling(r, base) ==
  /\ state[r] # "busy"
  /\ nbatch_index > 0 => wrapped = r
  /\ \A k \in Slots : k <= nbatch_index => blob[r][k] = base + k

AsyncIdle ==
  /\ Filling(next, inserted - nbatch_index)
  /\ state[curr] = "new" => returned = 0 /\ inserted = nbatch_index
  /\ state[curr] # "new" => /\ inserted = returned + num_batch + nbatch_index
                            /\ Loaded(curr, returned)

AsyncWait ==
  /\ nbatch_index = 0
  /\ Loaded(next, inserted - num_batch)
  /\ state[curr] = "new" => returned = 0 /\ inserted = num_batch
  /\ state[curr] # "new" => /\ inserted = returned + num_batch + num_batch
                            /\ Loaded(curr, returned)

SyncIdle ==
  /\ inserted = returned + nbatch_index
  /\ Filling(curr, returned)

SyncWait ==
  /\ nbatch_index = 0
  /\ inserted = returned + num_batch
  /\ Loaded(curr, returned)

Phase ==
  /\ bisASync /\ pc = "idle" => AsyncIdle
  /\ bisASync /\ pc = "wait" => AsyncWait
  /\ ~bisASync /\ pc = "idle" => SyncIdle
  /\ ~bisASync /\ pc = "wait" => SyncWait

Aligned ==
  /\ \A r \in Requests : state[r] # "failed"
  /\ inserted = 0 => \A r \in Requests : state[r] = "new"
  /\ Phase

Good == Aligned /\ ResultsMatch

IInv == Base /\ (~faulted => Good)

-----------------------------------------------------------------------------
(* Base: what holds whatever the device does. *)

(* Load leaves an empty queue and two idle requests. *)
LEMMA BaseInit == Init => Base
<1> SUFFICES ASSUME Init PROVE Base
  OBVIOUS
<1> USE BatchAssumption, ImagesAssumption
<1>1. TypeOK
  <2>1. bisASync \in BOOLEAN /\ faulted \in BOOLEAN
    BY DEF Init
  <2>2. /\ state \in [Requests -> {"new", "busy", "done", "failed"}]
        /\ blob \in [Requests -> [Slots -> Nat]]
        /\ result \in [Requests -> [Slots -> Nat]]
        /\ hits \in [Requests -> SUBSET Slots]
    BY DEF Init, NoImage
  <2> QED
    BY <2>1, <2>2 DEF Init, TypeOK, Requests, Status
<1>2. curr # next /\ Queued /\ FillsIdleRequest
  BY DEF Init, Requests, Queued, FillsIdleRequest, Target
<1>3. QueueAligned
  BY DEF Init, QueueAligned
<1> QED
  BY <1>1, <1>2, <1>3 DEF Base

(* Before the first image the queue is empty and no batch is begun. *)
LEMMA Fresh == ASSUME Base, inserted = 0, pc = "idle"
               PROVE  returned = 0 /\ nbatch_index = 0 /\ imginfoque = << >>
<1>1. returned = 0 /\ nbatch_index = 0
  BY BatchAssumption, ImagesAssumption DEF Base, TypeOK, Queued
<1>2. Len(imginfoque) = 0 /\ imginfoque \in Seq(Nat)
  BY <1>1 DEF Base, QueueAligned, TypeOK
<1> QED
  BY <1>1, <1>2

(* SetMode finds no request busy and no batch begun. *)
LEMMA BaseSetMode == ASSUME Base, NEW m \in BOOLEAN, SetMode(m) PROVE Base'
<1> USE BatchAssumption, ImagesAssumption
<1>1. inserted = 0 /\ returned = 0 /\ nbatch_index = 0 /\ imginfoque = << >>
  BY Fresh DEF SetMode
<1>2. TypeOK'
  BY DEF Base, TypeOK, SetMode
<1>3. curr' # next' /\ Queued' /\ QueueAligned'
  BY <1>1 DEF Base, SetMode, Queued, QueueAligned
<1>4. FillsIdleRequest'
  BY DEF Base, TypeOK, SetMode, FillsIdleRequest, Target
<1> QED
  BY <1>2, <1>3, <1>4 DEF Base

(* InsertImage writes into an idle request and queues one identity. *)
LEMMA BaseInsert == ASSUME Base, InsertImage PROVE Base'
<1> USE BatchAssumption, ImagesAssumption
<1> DEFINE W == IF nbatch_index = 0 THEN Target ELSE wrapped
<1>1. /\ pc = "idle" /\ inserted < MaxImages
      /\ wrapped' = W
      /\ blob' = [blob EXCEPT ![W] = [blob[W] EXCEPT ![nbatch_index + 1] = inserted + 1]]
      /\ imginfoque' = Append(imginfoque, inserted + 1)
      /\ inserted' = inserted + 1
      /\ UNCHANGED <<curr, next, result, hits, bisASync, returned, objects, faulted>>
  BY DEF InsertImage
<1>2. W = Target /\ Target \in Requests /\ state[Target] # "busy" /\ Target' = Target
  BY <1>1 DEF Base, TypeOK, Target, FillsIdleRequest
<1> HIDE DEF W
<1>3. /\ nbatch_index \in Nat /\ nbatch_index + 1 \in Slots
      /\ nbatch_index + 1 <= num_batch
      /\ inserted \in Nat /\ inserted + 1 \in 0 .. MaxImages /\ returned \in Nat
      /\ inserted - returned >= nbatch_index
  BY <1>1 DEF Base, TypeOK, Slots, Queued
<1>4. blob' \in [Requests -> [Slots -> Nat]]
  BY <1>1, <1>2, <1>3 DEF Base, TypeOK
<1>5. imginfoque' \in Seq(Nat)
  BY <1>1, <1>3 DEF Base, TypeOK
<1>6. QueueAligned'
  <2>1. imginfoque \in Seq(Nat) /\ inserted + 1 \in Nat
    BY <1>3 DEF Base, TypeOK
  <2>2. /\ Len(imginfoque') = Len(imginfoque) + 1
        /\ \A i \in 1 .. Len(imginfoque) : imginfoque'[i] = imginfoque[i]
        /\ imginfoque'[Len(imginfoque) + 1] = inserted + 1
    BY <1>1, <2>1
  <2>3. Len(imginfoque) \in Nat
    BY <2>1
  <2>4. /\ Len(imginfoque) = inserted - returned
        /\ \A i \in 1 .. Len(imginfoque) : imginfoque[i] = returned + i
    BY DEF Base, QueueAligned
  <2>5. /\ inserted' = inserted + 1 /\ returned' = returned
        /\ inserted \in Nat /\ returned \in Nat
    BY <1>1, <1>3
  <2>6. Len(imginfoque') = inserted' - returned'
    BY <2>2, <2>4, <2>5
  <2>7. \A i \in 1 .. Len(imginfoque') : imginfoque'[i] = returned' + i
    <3> SUFFICES ASSUME NEW i \in 1 .. Len(imginfoque') PROVE imginfoque'[i] = returned' + i
      OBVIOUS
    <3>1. CASE i \in 1 .. Len(imginfoque)
      BY <2>2, <2>4, <2>5, <3>1
    <3>2. CASE i = Len(imginfoque) + 1
      BY <2>2, <2>3, <2>4, <2>5, <3>2
    <3> QED
      BY <2>2, <2>3, <3>1, <3>2
  <2> QED
    BY <2>6, <2>7 DEF QueueAligned
<1>7. CASE BatchFull
  <2>1. /\ nbatch_index + 1 = num_batch
        /\ nbatch_index' = 0
        /\ state' = [state EXCEPT ![Target] = "busy"]
        /\ pc' = "wait" /\ ret' = ret
    BY <1>3, <1>7 DEF BatchFull, InsertImage
  <2>2. TypeOK'
    BY <1>1, <1>2, <1>3, <1>4, <1>5, <2>1 DEF Base, TypeOK
  <2>3. Queued' /\ FillsIdleRequest'
    BY <1>1, <1>3, <2>1 DEF Queued, FillsIdleRequest
  <2> QED
    BY <1>1, <1>6, <2>2, <2>3 DEF Base
<1>8. CASE ~BatchFull
  <2>1. /\ nbatch_index + 1 < num_batch
        /\ nbatch_index' = nbatch_index + 1
        /\ state' = state /\ pc' = pc /\ ret' = "INSERTIMG_INSERTED"
    BY <1>3, <1>8 DEF BatchFull, InsertImage
  <2>2. TypeOK'
    BY <1>1, <1>2, <1>3, <1>4, <1>5, <2>1 DEF Base, TypeOK, Status
  <2>3. Queued' /\ FillsIdleRequest'
    BY <1>1, <1>2, <1>3, <2>1 DEF Queued, FillsIdleRequest
  <2> QED
    BY <1>1, <1>6, <2>2, <2>3 DEF Base
<1> QED
  BY <1>7, <1>8

(* Wait returned OK: num_batch_ identities are there to be popped, and the  *)
(* request whose result was parsed is the next one to be filled.            *)
LEMMA BaseWaitOK ==
  ASSUME Base, WaitOK
  PROVE  /\ Base'
         /\ Len(objects') = num_batch /\ DOMAIN objects' = Slots
         /\ \A i \in Slots : objects'[i].img = returned + i
<1> USE BatchAssumption, ImagesAssumption
<1>1. /\ pc = "wait" /\ state[curr] = "done"
      /\ objects' = [i \in Slots |->
                       [img  |-> imginfoque[i],
                        boxs |-> IF i \in hits[curr] THEN result[curr][i] ELSE NoImage]]
      /\ imginfoque' = SubSeq(imginfoque, num_batch + 1, Len(imginfoque))
      /\ returned' = returned + num_batch
      /\ ret' \in Status
      /\ SwapRequests
      /\ pc' = "idle"
      /\ UNCHANGED <<state, blob, result, hits, wrapped, nbatch_index, bisASync, inserted,
                     faulted>>
  BY DEF WaitOK, Status
<1>2. /\ inserted \in Nat /\ returned \in Nat /\ returned + num_batch <= inserted
      /\ nbatch_index = 0
      /\ \A k \in Slots : result[curr][k] \in Nat
  BY <1>1 DEF Base, TypeOK, Queued
<1>3. /\ imginfoque \in Seq(Nat) /\ Len(imginfoque) \in Nat
      /\ Len(imginfoque) = inserted - returned
      /\ \A i \in 1 .. Len(imginfoque) : imginfoque[i] = returned + i
  BY DEF Base, TypeOK, QueueAligned
<1>4. /\ imginfoque' \in Seq(Nat)
      /\ Len(imginfoque') = inserted' - returned'
      /\ \A i \in 1 .. Len(imginfoque') : imginfoque'[i] = returned' + i
  <2> DEFINE m == num_batch + 1
             n == Len(imginfoque)
  <2>1. /\ m \in Int /\ n \in Int /\ n - m + 1 \in Nat
        /\ \A i \in m .. n : imginfoque[i] \in Nat
    BY <1>2, <1>3
  <2>2. /\ SubSeq(imginfoque, m, n) \in Seq(Nat)
        /\ Len(SubSeq(imginfoque, m, n)) = IF m <= n THEN n - m + 1 ELSE 0
        /\ \A i \in 1 .. n - m + 1 : SubSeq(imginfoque, m, n)[i] = imginfoque[m + i - 1]
    BY <2>1, SubSeqProperties
  <2>3. Len(imginfoque') = n - m + 1
    BY <1>1, <2>1, <2>2
  <2>4. \A i \in 1 .. n - m + 1 : imginfoque'[i] = returned' + i
    <3> SUFFICES ASSUME NEW i \in 1 .. n - m + 1 PROVE imginfoque'[i] = returned' + i
      OBVIOUS
    <3>1. imginfoque'[i] = imginfoque[m + i - 1]
      BY <1>1, <2>2
    <3>2. m + i - 1 \in 1 .. n
      BY <2>1
    <3>3. imginfoque[m + i - 1] = returned + (m + i - 1)
      BY <1>3, <3>2
    <3> QED
      BY <1>1, <1>2, <3>1, <3>3
  <2>5. imginfoque' \in Seq(Nat)
    BY <1>1, <2>2
  <2>6. n - m + 1 = inserted' - returned'
    BY <1>1, <1>2, <1>3
  <2> QED
    BY <2>3, <2>4, <2>5, <2>6
<1>5. \A i \in Slots : imginfoque[i] = returned + i /\ i \in Nat
  BY <1>2, <1>3 DEF Slots
<1>6. /\ DOMAIN objects' = Slots
      /\ objects' \in [Slots -> [img : Nat, boxs : Nat]]
      /\ \A i \in Slots : objects'[i].img = returned + i
  BY <1>1, <1>2, <1>5 DEF NoImage
<1>7. objects' \in Seq([img : Nat, boxs : Nat])
  <2>1. objects' \in UNION {[1 .. n -> [img : Nat, boxs : Nat]] : n \in Nat}
    BY <1>6 DEF Slots
  <2> QED
    BY <2>1, SeqDef
<1>8. Len(objects') = num_batch
  BY <1>6, <1>7 DEF Slots
<1>9. curr' \in Requests /\ next' \in Requests /\ curr' # next'
  BY <1>1 DEF Base, TypeOK, SwapRequests
<1>10. TypeOK'
  BY <1>1, <1>2, <1>4, <1>7, <1>9 DEF Base, TypeOK
<1>11. Queued' /\ FillsIdleRequest'
  BY <1>1, <1>2 DEF Queued, FillsIdleRequest, Target, SwapRequests
<1>12. QueueAligned'
  BY <1>4 DEF QueueAligned
<1> QED
  BY <1>6, <1>8, <1>9, <1>10, <1>11, <1>12 DEF Base

(* Wait did not return OK: the identities stay in the queue. *)
LEMMA BaseWaitNotOK == ASSUME Base, WaitNotOK PROVE Base'
<1> USE BatchAssumption, ImagesAssumption
<1>1. /\ pc = "wait" /\ state[curr] \in {"new", "failed"}
      /\ ret' = "INSERTIMG_INSERTED"
      /\ SwapRequests
      /\ pc' = "idle"
      /\ UNCHANGED <<state, blob, result, hits, wrapped, nbatch_index, imginfoque,
                     bisASync, inserted, returned, objects, faulted>>
  BY DEF WaitNotOK
<1>2. curr' \in Requests /\ next' \in Requests /\ curr' # next'
  BY <1>1 DEF Base, TypeOK, SwapRequests
<1>3. TypeOK'
  BY <1>1, <1>2 DEF Base, TypeOK, Status
<1>4. Queued' /\ FillsIdleRequest'
  BY <1>1 DEF Base, TypeOK, Queued, FillsIdleRequest, Target, SwapRequests
<1>5. QueueAligned'
  BY <1>1 DEF Base, QueueAligned
<1> QED
  BY <1>2, <1>3, <1>4, <1>5 DEF Base

(* The device ends a request, with a result or without. *)
LEMMA BaseDevice ==
  ASSUME Base, NEW r \in Requests, Complete(r) \/ Fail(r) PROVE Base'
<1>1. /\ state' \in [Requests -> {"new", "busy", "done", "failed"}]
      /\ \A q \in Requests : state[q] # "busy" => state'[q] # "busy"
      /\ result' \in [Requests -> [Slots -> Nat]]
      /\ hits' \in [Requests -> SUBSET Slots]
      /\ faulted' \in BOOLEAN
      /\ UNCHANGED <<curr, next, blob, wrapped, nbatch_index, imginfoque, bisASync,
                     inserted, returned, objects, ret, pc>>
  <2>1. CASE Complete(r)
    BY <2>1 DEF Base, TypeOK, Complete
  <2>2. CASE Fail(r)
    BY <2>2 DEF Base, TypeOK, Fail
  <2> QED
    BY <2>1, <2>2
<1>2. TypeOK'
  BY <1>1 DEF Base, TypeOK
<1>3. QueueAligned' /\ Queued' /\ curr' # next'
  BY <1>1 DEF Base, QueueAligned, Queued
<1>4. FillsIdleRequest'
  BY <1>1 DEF Base, TypeOK, FillsIdleRequest, Target
<1> QED
  BY <1>2, <1>3, <1>4 DEF Base

(* An empty image, and a step of something else. *)
LEMMA BaseQuiet == ASSUME Base, InsertEmpty \/ UNCHANGED vars PROVE Base'
<1>1. /\ ret' \in Status
      /\ UNCHANGED <<curr, next, state, blob, result, hits, wrapped, nbatch_index,
                     imginfoque, bisASync, inserted, returned, objects, faulted, pc>>
  BY DEF InsertEmpty, vars, Status, Base, TypeOK
<1>2. TypeOK'
  BY <1>1 DEF Base, TypeOK
<1>3. QueueAligned' /\ Queued' /\ curr' # next' /\ FillsIdleRequest'
  BY <1>1 DEF Base, QueueAligned, Queued, FillsIdleRequest, Target
<1> QED
  BY <1>2, <1>3 DEF Base

(* Every call and every end of a request keeps the base invariant. *)
LEMMA BaseStep == ASSUME Base, [Next]_vars PROVE Base'
<1>1. CASE \E m \in BOOLEAN : SetMode(m)
  BY <1>1, BaseSetMode
<1>2. CASE InsertEmpty \/ UNCHANGED vars
  BY <1>2, BaseQuiet
<1>3. CASE InsertImage
  BY <1>3, BaseInsert
<1>4. CASE WaitOK
  BY <1>4, BaseWaitOK
<1>5. CASE WaitNotOK
  BY <1>5, BaseWaitNotOK
<1>6. CASE \E r \in Requests : Complete(r) \/ Fail(r)
  BY <1>6, BaseDevice
<1> QED
  BY <1>1, <1>2, <1>3, <1>4, <1>5, <1>6 DEF Next

-----------------------------------------------------------------------------
(* Good: which images are where, until a request ends without a result. *)

(* Load leaves nothing in flight. *)
LEMMA GoodInit == Init => Good
<1> SUFFICES ASSUME Init PROVE Good
  OBVIOUS
<1> USE BatchAssumption, ImagesAssumption
<1>1. Aligned
  BY DEF Init, Aligned, Requests, Slots, Phase, AsyncIdle, Filling
<1>2. ResultsMatch
  BY DEF Init, ResultsMatch
<1> QED
  BY <1>1, <1>2 DEF Good

(* SetMode is called before the first image and changes nothing else. *)
LEMMA GoodSetMode == ASSUME Base, Good, NEW m \in BOOLEAN, SetMode(m) PROVE Good'
<1> USE BatchAssumption, ImagesAssumption
<1>1. inserted = 0 /\ returned = 0 /\ nbatch_index = 0
  BY Fresh DEF SetMode
<1>2. \A r \in Requests : state[r] = "new"
  BY <1>1 DEF Good, Aligned
<1>3. Phase'
  BY <1>1, <1>2 DEF Base, TypeOK, SetMode, Phase, AsyncIdle, SyncIdle, Filling, Slots
<1>4. Aligned'
  BY <1>3 DEF Good, SetMode, Aligned
<1>5. ResultsMatch'
  BY DEF Good, SetMode, ResultsMatch
<1> QED
  BY <1>4, <1>5 DEF Good

(* InsertImage up to the point where it returns or starts to wait: the new  *)
(* image gets the number that its slot calls for.                           *)
LEMMA GoodInsert == ASSUME Base, Good, InsertImage PROVE Good'
<1> USE BatchAssumption, ImagesAssumption
<1> DEFINE W == IF nbatch_index = 0 THEN Target ELSE wrapped
<1>1. /\ pc = "idle" /\ inserted < MaxImages
      /\ wrapped' = W
      /\ blob' = [blob EXCEPT ![W] = [blob[W] EXCEPT ![nbatch_index + 1] = inserted + 1]]
      /\ imginfoque' = Append(imginfoque, inserted + 1)
      /\ inserted' = inserted + 1
      /\ UNCHANGED <<curr, next, result, hits, bisASync, returned, objects, faulted>>
  BY DEF InsertImage
<1>2. W = Target /\ Target \in Requests /\ state[Target] # "busy"
  BY <1>1 DEF Base, Good, TypeOK, Target, Aligned, Phase, AsyncIdle, SyncIdle, Filling
<1> HIDE DEF W
<1>3. /\ nbatch_index \in Nat /\ nbatch_index + 1 \in Slots
      /\ nbatch_index + 1 <= num_batch
      /\ inserted \in Nat /\ inserted + 1 \in 0 .. MaxImages /\ returned \in Nat
  BY <1>1 DEF Base, Good, TypeOK, Slots
<1>4. blob' = [blob EXCEPT ![Target] =
                 [blob[Target] EXCEPT ![nbatch_index + 1] = inserted + 1]]
  BY <1>1, <1>2
<1>5. /\ blob' \in [Requests -> [Slots -> Nat]]
      /\ blob'[Target][nbatch_index + 1] = inserted + 1
      /\ \A k \in Slots : k # nbatch_index + 1 => blob'[Target][k] = blob[Target][k]
      /\ \A r \in Requests : r # Target => blob'[r] = blob[r]
  BY <1>2, <1>3, <1>4 DEF Base, Good, TypeOK
<1>11. ASSUME NEW base \in Int, base = inserted - nbatch_index,
               \A k \in Slots : k <= nbatch_index => blob[Target][k] = base + k
        PROVE  \A k \in Slots : k <= nbatch_index + 1 => blob'[Target][k] = base + k
  <2> SUFFICES ASSUME NEW k \in Slots, k <= nbatch_index + 1
               PROVE  blob'[Target][k] = base + k
    OBVIOUS
  <2>1. k \in Int
    BY DEF Slots
  <2>2. CASE k = nbatch_index + 1
    BY <1>3, <1>5, <1>11, <2>2
  <2>3. CASE k <= nbatch_index
    <3>1. k # nbatch_index + 1
      BY <1>3, <2>1, <2>3
    <3> QED
      BY <1>5, <1>11, <2>3, <3>1
  <2> QED
    BY <1>3, <2>1, <2>2, <2>3
<1>8. ResultsMatch'
  BY <1>1 DEF Base, Good, ResultsMatch
<1>9. CASE BatchFull
  <2>1. /\ nbatch_index + 1 = num_batch
        /\ nbatch_index' = 0
        /\ state' = [state EXCEPT ![Target] = "busy"]
        /\ pc' = "wait" /\ ret' = ret
    BY <1>3, <1>9 DEF BatchFull, InsertImage
  <2>3. /\ state'[Target] = "busy"
        /\ \A r \in Requests : r # Target => state'[r] = state[r]
    BY <1>2, <2>1 DEF Base, Good, TypeOK
  <2>4. CASE bisASync
    <3>1. Target = next /\ Target' = next /\ curr # next /\ curr \in Requests
      BY <2>4, <1>1 DEF Target, Base, Good, TypeOK, Aligned
    <3>2. AsyncIdle
      BY <1>1, <2>4 DEF Base, Good, Aligned, Phase
    <3>7. \A k \in Slots : blob'[next][k] = inserted' - num_batch + k
      <4>1. inserted - nbatch_index \in Int
        BY <1>3
      <4>2. \A k \in Slots : k <= nbatch_index + 1 =>
              blob'[next][k] = inserted - nbatch_index + k
        BY <1>11, <3>1, <3>2, <4>1 DEF AsyncIdle, Filling
      <4>3. \A k \in Slots : k <= nbatch_index + 1
        BY <1>3, <2>1 DEF Slots
      <4>4. inserted' - num_batch = inserted - nbatch_index
        BY <1>1, <1>3, <2>1
      <4> QED
        BY <4>2, <4>3, <4>4
    <3>3. Loaded(next, inserted - num_batch)'
      BY <1>1, <2>3, <3>1, <3>7 DEF Loaded
    <3>4. state[curr] # "new" => Loaded(curr, returned)'
      BY <1>1, <1>5, <2>3, <3>1, <3>2 DEF AsyncIdle, Loaded
    <3>8. /\ nbatch_index' = 0 /\ curr' = curr /\ returned' = returned
          /\ state'[curr] = state[curr]
          /\ inserted' = inserted + 1 /\ inserted' \in Nat
      BY <1>1, <1>3, <2>1, <2>3, <3>1
    <3>9. state'[curr'] = "new" => returned' = 0 /\ inserted' = num_batch
      BY <1>3, <2>1, <3>8, <3>2 DEF AsyncIdle
    <3>10. state'[curr'] # "new" => inserted' = returned' + num_batch + num_batch
      BY <1>3, <2>1, <3>8, <3>2 DEF AsyncIdle
    <3>5. AsyncWait'
      BY <3>8, <3>9, <3>10, <3>3, <3>4 DEF AsyncWait, Loaded
    <3>6. Phase'
      BY <1>1, <2>1, <2>4, <3>5 DEF Phase
    <3> QED
      BY <1>1, <1>2, <1>3, <2>1, <2>3, <1>8, <3>6 DEF Good, Aligned
  <2>5. CASE ~bisASync
    <3>1. Target = curr /\ curr \in Requests
      BY <2>5 DEF Target, Base, Good, TypeOK
    <3>2. SyncIdle
      BY <1>1, <2>5 DEF Base, Good, Aligned, Phase
    <3>7. \A k \in Slots : blob'[curr][k] = returned + k
      BY SMTT(60), <1>1, <1>3, <1>11, <2>1, <3>1, <3>2 DEF SyncIdle, Filling, Slots
    <3>3. Loaded(curr, returned)'
      BY <1>1, <2>3, <3>1, <3>7 DEF Loaded
    <3>4. SyncWait'
      BY <1>1, <1>3, <2>1, <3>2, <3>3 DEF SyncIdle, SyncWait
    <3>5. Phase'
      BY <1>1, <2>1, <2>5, <3>4 DEF Phase
    <3> QED
      BY <1>1, <1>2, <1>3, <2>1, <2>3, <1>8, <3>5 DEF Good, Aligned
  <2> QED
    BY <2>4, <2>5
<1>10. CASE ~BatchFull
  <2>1. /\ nbatch_index + 1 < num_batch
        /\ nbatch_index' = nbatch_index + 1
        /\ state' = state /\ pc' = pc /\ ret' = "INSERTIMG_INSERTED"
    BY <1>3, <1>10 DEF BatchFull, InsertImage
  <2>3. CASE bisASync
    <3>1. Target = next /\ curr # next /\ curr \in Requests
      BY <2>3 DEF Target, Base, Good, TypeOK, Aligned
    <3>2. AsyncIdle
      BY <1>1, <2>3 DEF Base, Good, Aligned, Phase
    <3>7. \A k \in Slots :
            k <= nbatch_index' => blob'[next][k] = inserted' - nbatch_index' + k
      BY <1>1, <1>3, <1>11, <2>1, <3>1, <3>2 DEF AsyncIdle, Filling
    <3>3. Filling(next, inserted - nbatch_index)'
      BY <1>1, <1>2, <2>1, <3>1, <3>7 DEF Filling
    <3>4. state[curr] # "new" => Loaded(curr, returned)'
      BY <1>1, <1>5, <2>1, <3>1, <3>2 DEF AsyncIdle, Loaded
    <3>8. /\ state[curr] = "new" => returned = 0 /\ inserted + 1 = nbatch_index + 1
          /\ state[curr] # "new" => inserted + 1 = returned + num_batch + (nbatch_index + 1)
      BY <1>3, <3>2, BatchAssumption DEF AsyncIdle
    <3>9. /\ (state[curr] = "new" => returned = 0 /\ inserted = nbatch_index)'
          /\ (state[curr] # "new" => inserted = returned + num_batch + nbatch_index)'
      BY <1>1, <2>1, <3>8
    <3>10. (state[curr] # "new" => Loaded(curr, returned))'
      BY <1>1, <2>1, <3>4
    <3>5. AsyncIdle'
      BY <3>3, <3>9, <3>10 DEF AsyncIdle
    <3>6. Phase'
      BY <1>1, <2>1, <2>3, <3>5 DEF Phase
    <3> QED
      BY <1>1, <1>3, <2>1, <1>8, <3>6 DEF Good, Aligned
  <2>4. CASE ~bisASync
    <3>1. Target = curr /\ curr \in Requests
      BY <2>4 DEF Target, Base, Good, TypeOK
    <3>2. SyncIdle
      BY <1>1, <2>4 DEF Base, Good, Aligned, Phase
    <3>7. \A k \in Slots : k <= nbatch_index' => blob'[curr][k] = returned + k
      BY <1>1, <1>3, <1>11, <2>1, <3>1, <3>2 DEF SyncIdle, Filling
    <3>3. Filling(curr, returned)'
      BY <1>1, <1>2, <2>1, <3>1, <3>7 DEF Filling
    <3>4. SyncIdle'
      BY <1>1, <1>3, <2>1, <3>2, <3>3 DEF SyncIdle
    <3>5. Phase'
      BY <1>1, <2>1, <2>4, <3>4 DEF Phase
    <3> QED
      BY <1>1, <1>3, <2>1, <1>8, <3>5 DEF Good, Aligned
  <2> QED
    BY <2>3, <2>4
<1> QED
  BY <1>9, <1>10

(* Wait returned OK: the identities popped are those of the images in the   *)
(* blob of infer_request_curr_, slot by slot.                               *)
LEMMA GoodWaitOK == ASSUME Base, Good, WaitOK PROVE Good'
<1> USE BatchAssumption, ImagesAssumption
<1>1. /\ pc = "wait" /\ state[curr] = "done"
      /\ objects' = [i \in Slots |->
                       [img  |-> imginfoque[i],
                        boxs |-> IF i \in hits[curr] THEN result[curr][i] ELSE NoImage]]
      /\ returned' = returned + num_batch
      /\ SwapRequests
      /\ pc' = "idle"
      /\ UNCHANGED <<state, blob, result, hits, wrapped, nbatch_index, bisASync, inserted>>
  BY DEF WaitOK
<1>2. /\ inserted \in Nat /\ returned \in Nat /\ returned + num_batch <= inserted
      /\ nbatch_index = 0
      /\ \A k \in Slots : result[curr][k] = returned + k
  BY <1>1 DEF Base, Good, TypeOK, Aligned, Phase, AsyncWait, SyncWait, Loaded
<1>3. /\ Len(objects') = num_batch
      /\ \A i \in Slots : objects'[i].img = returned + i
  BY BaseWaitOK
<1>4. ResultsMatch'
  BY <1>1, <1>2, <1>3 DEF ResultsMatch, Slots, NoImage
<1>5. Phase'
  <2>1. CASE bisASync
    <3>1. AsyncWait /\ curr' = next /\ next' = curr
      BY <1>1, <2>1 DEF Base, Good, Aligned, Phase, SwapRequests
    <3>2. /\ inserted = returned' + num_batch
          /\ inserted - num_batch = returned'
          /\ state[next] # "new"
      BY <1>1, <1>2, <3>1 DEF AsyncWait, Loaded
    <3>3. Loaded(curr, returned)'
      BY <1>1, <3>1, <3>2 DEF AsyncWait, Loaded
    <3>4. Filling(next, inserted - nbatch_index)'
      BY <1>1, <1>2, <3>1 DEF Filling, Slots
    <3>5. AsyncIdle'
      BY <1>1, <1>2, <3>1, <3>2, <3>3, <3>4 DEF AsyncIdle, Filling
    <3> QED
      BY <1>1, <2>1, <3>5 DEF Phase
  <2>2. CASE ~bisASync
    <3>1. SyncWait /\ curr' = curr
      BY <1>1, <2>2 DEF Base, Good, Aligned, Phase, SwapRequests
    <3>2. SyncIdle'
      BY <1>1, <1>2, <3>1 DEF SyncWait, SyncIdle, Filling, Slots
    <3> QED
      BY <1>1, <2>2, <3>2 DEF Phase
  <2> QED
    BY <2>1, <2>2
<1>6. Aligned'
  BY <1>1, <1>2, <1>5 DEF Base, Good, Aligned
<1> QED
  BY <1>4, <1>6 DEF Good

(* Wait did not return OK.  Only the first asynchronous batch comes here:   *)
(* nothing was reported, and the batch just started becomes the current one.*)
LEMMA GoodWaitNotOK == ASSUME Base, Good, WaitNotOK PROVE Good'
<1> USE BatchAssumption, ImagesAssumption
<1>1. /\ pc = "wait" /\ state[curr] \in {"new", "failed"}
      /\ ret' = "INSERTIMG_INSERTED"
      /\ SwapRequests
      /\ pc' = "idle"
      /\ UNCHANGED <<state, blob, result, hits, wrapped, nbatch_index, imginfoque,
                     bisASync, inserted, returned, objects, faulted>>
  BY DEF WaitNotOK
<1>2. state[curr] = "new"
  BY <1>1 DEF Base, Good, TypeOK, Aligned
<1>3. bisASync
  BY <1>1, <1>2 DEF Base, Good, TypeOK, Aligned, Phase, SyncWait, Loaded
<1>4. /\ AsyncWait /\ curr' = next /\ next' = curr
      /\ inserted = num_batch /\ returned = 0 /\ nbatch_index = 0
  BY <1>1, <1>2, <1>3 DEF Base, Good, Aligned, Phase, AsyncWait, SwapRequests
<1>6. Loaded(curr, returned)'
  BY <1>1, <1>4 DEF AsyncWait, Loaded
<1>7. Filling(next, inserted - nbatch_index)'
  BY <1>1, <1>2, <1>4 DEF Filling, Slots
<1>8. AsyncIdle'
  BY <1>1, <1>4, <1>6, <1>7 DEF AsyncIdle, Filling, Loaded
<1>9. Aligned'
  BY <1>1, <1>3, <1>4, <1>8 DEF Base, Good, Aligned, Phase
<1>10. ResultsMatch'
  BY <1>1 DEF Good, ResultsMatch
<1> QED
  BY <1>9, <1>10 DEF Good

(* The device finishes a request: the output is about the images in it. *)
LEMMA GoodComplete ==
  ASSUME Base, Good, NEW r \in Requests, Complete(r) PROVE Good'
<1> USE BatchAssumption, ImagesAssumption
<1>1. /\ state[r] = "busy"
      /\ state' = [state EXCEPT ![r] = "done"]
      /\ result' = [result EXCEPT ![r] = blob[r]]
      /\ hits' \in [Requests -> SUBSET Slots]
      /\ UNCHANGED <<curr, next, blob, wrapped, nbatch_index, imginfoque, bisASync,
                     inserted, returned, objects, ret, faulted, pc>>
  BY DEF Complete, Base, TypeOK
<1>3. /\ state'[r] = "done" /\ result'[r] = blob[r]
      /\ \A q \in Requests : q # r => state'[q] = state[q] /\ result'[q] = result[q]
  BY <1>1 DEF Base, TypeOK
<1>4. curr \in Requests /\ next \in Requests
  BY DEF Base, TypeOK
<1>5. ASSUME NEW q \in Requests, NEW base, Loaded(q, base)
      PROVE  /\ state'[q] \in {"busy", "done"}
             /\ \A k \in Slots : blob'[q][k] = base + k
             /\ state'[q] = "done" => \A k \in Slots : result'[q][k] = base + k
  BY <1>1, <1>3, <1>5 DEF Loaded
<1>6. \A q \in Requests : /\ state'[q] = "new" <=> state[q] = "new"
                          /\ state[q] # "busy" => state'[q] # "busy"
  BY <1>1, <1>3
<1>7. bisASync /\ pc = "idle" => AsyncIdle'
  BY <1>1, <1>4, <1>5, <1>6 DEF Base, Good, Aligned, Phase, AsyncIdle, Filling, Loaded
<1>8. bisASync /\ pc = "wait" => AsyncWait'
  <2> SUFFICES ASSUME bisASync, pc = "wait" PROVE AsyncWait'
    OBVIOUS
  <2>1. AsyncWait
    BY DEF Base, Good, Aligned, Phase
  <2>2. Loaded(next, inserted - num_batch)'
    BY <1>1, <1>4, <1>5, <2>1 DEF AsyncWait, Loaded
  <2>3. state[curr] # "new" => Loaded(curr, returned)'
    BY <1>1, <1>4, <1>5, <2>1 DEF AsyncWait, Loaded
  <2> QED
    BY <1>1, <1>4, <1>6, <2>1, <2>2, <2>3 DEF AsyncWait, Loaded
<1>9. ~bisASync /\ pc = "idle" => SyncIdle'
  BY <1>1, <1>4, <1>6 DEF Base, Good, Aligned, Phase, SyncIdle, Filling
<1>10. ~bisASync /\ pc = "wait" => SyncWait'
  BY <1>1, <1>4, <1>5 DEF Base, Good, Aligned, Phase, SyncWait, Loaded
<1>11. Phase'
  BY <1>1, <1>7, <1>8, <1>9, <1>10 DEF Phase
<1>12. Aligned'
  BY <1>1, <1>3, <1>6, <1>11 DEF Base, Good, Aligned
<1>13. ResultsMatch'
  BY <1>1 DEF Good, ResultsMatch
<1> QED
  BY <1>12, <1>13 DEF Good

(* An empty image, and a step of something else. *)
LEMMA GoodQuiet == ASSUME Base, Good, InsertEmpty \/ UNCHANGED vars PROVE Good'
<1>1. UNCHANGED <<curr, next, state, blob, result, hits, wrapped, nbatch_index,
                  imginfoque, bisASync, inserted, returned, objects, pc>>
  BY DEF InsertEmpty, vars
<1>2. Aligned'
  BY <1>1 DEF Good, Aligned, Phase, AsyncIdle, AsyncWait, SyncIdle, SyncWait,
              Filling, Loaded
<1>3. ResultsMatch'
  BY <1>1 DEF Good, ResultsMatch
<1> QED
  BY <1>2, <1>3 DEF Good

(* faulted is never reset, and only a failing request sets it. *)
LEMMA GoodStep == ASSUME Base, ~faulted => Good, [Next]_vars PROVE (~faulted => Good)'
<1>1. CASE \E r \in Requests : Fail(r)
  BY <1>1 DEF Fail
<1>2. CASE UNCHANGED faulted /\ ~faulted
  <2>1. Good
    BY <1>2
  <2>2. CASE \E m \in BOOLEAN : SetMode(m)
    BY <2>1, <2>2, GoodSetMode
  <2>3. CASE InsertEmpty \/ UNCHANGED vars
    BY <2>1, <2>3, GoodQuiet
  <2>4. CASE InsertImage
    BY <2>1, <2>4, GoodInsert
  <2>5. CASE WaitOK
    BY <2>1, <2>5, GoodWaitOK
  <2>6. CASE WaitNotOK
    BY <2>1, <2>6, GoodWaitNotOK
  <2>7. CASE \E r \in Requests : Complete(r)
    BY <2>1, <2>7, GoodComplete
  <2> QED
    BY <1>1, <2>2, <2>3, <2>4, <2>5, <2>6, <2>7 DEF Next
<1>3. CASE UNCHANGED faulted /\ faulted
  BY <1>3
<1>4. \/ \E r \in Requests : Fail(r)
      \/ UNCHANGED faulted
  BY DEF Next, vars, SetMode, InsertEmpty, InsertImage, WaitOK, WaitNotOK, Complete
<1> QED
  BY <1>1, <1>2, <1>3, <1>4

-----------------------------------------------------------------------------
(* Type correctness of the detector's fields, whatever the device does:     *)
(* nbatch_index_ stays below num_batch_, so that no image is copied past    *)
(* the end of the blob.                                                     *)
THEOREM TypeCorrect == Spec => []TypeOK
<1>1. Init => Base
  BY BaseInit
<1>2. Base /\ [Next]_vars => Base'
  BY BaseStep
<1>3. Base => TypeOK
  BY DEF Base
<1> QED
  BY <1>1, <1>2, <1>3, PTL DEF Spec

(* No identity is lost in imginfoque_ or left over in it, whatever the      *)
(* device does.                                                             *)
THEOREM QueueCorrect == Spec => []QueueAligned
<1>1. Init => Base
  BY BaseInit
<1>2. Base /\ [Next]_vars => Base'
  BY BaseStep
<1>3. Base => QueueAligned
  BY DEF Base
<1> QED
  BY <1>1, <1>2, <1>3, PTL DEF Spec

(* InsertImage never writes into the blob of a request that is being        *)
(* executed, and a batch stays in the request it was begun in.              *)
THEOREM FillsIdle == Spec => []FillsIdleRequest
<1>1. Init => Base
  BY BaseInit
<1>2. Base /\ [Next]_vars => Base'
  BY BaseStep
<1>3. Base => FillsIdleRequest
  BY DEF Base
<1> QED
  BY <1>1, <1>2, <1>3, PTL DEF Spec

(* InsertImage keeps its two requests, its queue and its batch index        *)
(* together: the inductive invariant holds throughout, for every num_batch. *)
THEOREM DetectorInvariant == Spec => []IInv
<1>1. Init => IInv
  BY BaseInit, GoodInit DEF IInv
<1>2. IInv /\ [Next]_vars => IInv'
  BY BaseStep, GoodStep DEF IInv
<1> QED
  BY <1>1, <1>2, PTL DEF Spec

(* Until a request ends without a result, every box is reported with the    *)
(* identity of the image it was found in, although detector.cpp ties the    *)
(* two together only by their order.                                        *)
THEOREM Attribution == Spec => []Attributed
<1>1. IInv => Attributed
  BY DEF IInv, Good, Attributed
<1> QED
  BY <1>1, DetectorInvariant, PTL

(* Until then, between two calls of InsertImage fewer than two batches of   *)
(* images (one in synchronous mode) wait for their result, which is then    *)
(* that of the right image (Attribution).                                   *)
THEOREM LagBounded == Spec => []ResultsReturned
<1>1. IInv => BoundedLag
  <2> SUFFICES ASSUME IInv, pc = "idle", ~faulted
               PROVE  inserted - returned < (IF bisASync THEN 2 ELSE 1) * num_batch
    BY DEF BoundedLag
  <2>1. /\ inserted \in Nat /\ returned \in Nat /\ nbatch_index \in Nat
        /\ nbatch_index < num_batch /\ num_batch \in Nat /\ bisASync \in BOOLEAN
    BY BatchAssumption DEF IInv, Base, TypeOK
  <2>2. CASE bisASync
    <3>1. inserted - returned < num_batch + num_batch
      BY <2>1, <2>2 DEF IInv, Good, Aligned, Phase, AsyncIdle
    <3> QED
      BY <2>1, <2>2, <3>1
  <2>3. CASE ~bisASync
    <3>1. inserted - returned < num_batch
      BY <2>1, <2>3 DEF IInv, Good, Aligned, Phase, SyncIdle
    <3> QED
      BY <2>1, <2>3, <3>1
  <2> QED
    BY <2>1, <2>2, <2>3
<1> QED
  BY <1>1, Attribution, DetectorInvariant, PTL DEF ResultsReturned
=============================================================================
