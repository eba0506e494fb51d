------------------------------ MODULE Detector ------------------------------
(***************************************************************************)
(* The batching front end of the inference engine, class Detector of       *)
(* detector.cpp.                                                           *)
(*                                                                         *)
(* InsertImage copies an image into the input blob of one of two inference *)
(* requests and remembers the image's identity in imginfoque_.  When the   *)
(* blob holds num_batch_ images it starts that request, waits for the      *)
(* request infer_request_curr_, takes num_batch_ identities off the queue  *)
(* and attributes the boxes in the output blob to them.  In asynchronous   *)
(* mode the request it starts is infer_request_next_ and the one it waits  *)
(* for is the one started a batch earlier; the two pointers are swapped    *)
(* afterwards.  Nothing ties an identity to a blob except that both are    *)
(* consumed in the same order: that they stay aligned is what this module  *)
(* is about.                                                               *)
(*                                                                         *)
(* Images are numbered in the order of their insertion; the identity       *)
(* (inputid, frameno, channelid, size) of an image is its number.  The     *)
(* device that runs the requests is external.                              *)
(***************************************************************************)
EXTENDS Integers, Sequences

CONSTANTS num_batch,    \* num_batch_, the fixed batch size of the network
          MaxImages     \* bound: images inserted

ASSUME BatchAssumption == num_batch \in Nat \ {0}
ASSUME ImagesAssumption == MaxImages \in Nat

Requests == {"A", "B"}
Slots == 1 .. num_batch
NoImage == 0

VARIABLES curr, next,     \* infer_request_curr_, infer_request_next_
          state,          \* of each request: never started, busy, done, failed
          blob,           \* the image in each slot of each input blob
          result,         \* the image each slot of each output blob is about
          hits,           \* slots of each output blob that have boxes
          wrapped,        \* the request whose blob input_channels wraps
          nbatch_index,   \* nbatch_index_
          imginfoque,     \* imginfoque_
          bisASync,
          inserted,       \* how many images were inserted
          returned,       \* how many images were reported back in objects
          objects,        \* the caller's result vector
          ret,            \* the last InsertImgStatus
          faulted,        \* history: a request has ended without a result
          pc              \* "wait" while InsertImage blocks in Wait

vars == <<curr, next, state, blob, result, hits, wrapped, nbatch_index,
          imginfoque, bisASync, inserted, returned, objects, ret, faulted, pc>>

Status == {"INSERTIMG_NULL", "INSERTIMG_INSERTED", "INSERTIMG_PROCESSED",
           "INSERTIMG_GET"}

TypeOK == /\ curr \in Requests /\ next \in Requests /\ wrapped \in Requests
          /\ state \in [Requests -> {"new", "busy", "done", "failed"}]
          /\ blob \in [Requests -> [Slots -> Nat]]
          /\ result \in [Requests -> [Slots -> Nat]]
          /\ hits \in [Requests -> SUBSET Slots]
          /\ nbatch_index \in 0 .. num_batch - 1
          /\ imginfoque \in Seq(Nat)
          /\ bisASync \in BOOLEAN
          /\ inserted \in 0 .. MaxImages
          /\ returned \in 0 .. MaxImages
          /\ objects \in Seq([img : Nat, boxs : Nat])
          /\ ret \in Status
          /\ faulted \in BOOLEAN
          /\ pc \in {"idle", "wait"}

-----------------------------------------------------------------------------
(* The state Load leaves behind: two requests, asynchronous mode. *)
Init == /\ curr = "A" /\ next = "B" /\ wrapped = "A"
        /\ state = [r \in Requests |-> "new"]
        /\ blob = [r \in Requests |-> [k \in Slots |-> NoImage]]
        /\ result = [r \in Requests |-> [k \in Slots |-> NoImage]]
        /\ hits = [r \in Requests |-> {}]
        /\ nbatch_index = 0
        /\ imginfoque = << >>
        /\ bisASync = TRUE
        /\ inserted = 0
        /\ returned = 0
        /\ objects = << >>
        /\ ret = "INSERTIMG_NULL"
        /\ faulted = FALSE
        /\ pc = "idle"

(* SetMode waits for both requests, empties the queue and resets the batch. *)
(* The program calls it once, right after Load.                             *)
SetMode(isSync) == /\ pc = "idle"
                   /\ inserted = 0
                   /\ \A r \in Requests : state[r] # "busy"
                   /\ imginfoque' = << >>
                   /\ nbatch_index' = 0
                   /\ bisASync' = isSync
                   /\ UNCHANGED <<curr, next, state, blob, result, hits, wrapped,
                                  inserted, returned, objects, ret, faulted, pc>>

(* The request that is being filled. *)
Target == IF bisASync THEN next ELSE curr

(* ++nbatch_index_ >= num_batch_ *)
BatchFull == nbatch_index + 1 >= num_batch

(* InsertImage of an empty image. *)
InsertEmpty == /\ pc = "idle"
               /\ ret' = "INSERTIMG_NULL"
               /\ UNCHANGED <<curr, next, state, blob, result, hits, wrapped,
                              nbatch_index, imginfoque, bisASync, inserted,
                              returned, objects, faulted, pc>>

(* The first half of InsertImage: the image goes into the next slot of the  *)
(* blob that was wrapped when the batch began, and the request is started   *)
(* with the last slot.                                                      *)
InsertImage ==
  LET wrap == IF nbatch_index = 0 THEN Target ELSE wrapped
  IN  /\ pc = "idle"
      /\ inserted < MaxImages
      /\ wrapped' = wrap
      /\ blob' = [blob EXCEPT ![wrap] =
                     [blob[wrap] EXCEPT ![nbatch_index + 1] = inserted + 1]]
      /\ imginfoque' = Append(imginfoque, inserted + 1)
      /\ inserted' = inserted + 1
      /\ IF BatchFull
           THEN /\ nbatch_index' = 0
                /\ state' = [state EXCEPT ![Target] = "busy"]
                /\ pc' = "wait"
                /\ UNCHANGED ret
           ELSE /\ nbatch_index' = nbatch_index + 1
                /\ ret' = "INSERTIMG_INSERTED"
                /\ UNCHANGED <<state, pc>>
      /\ UNCHANGED <<curr, next, result, hits, bisASync, returned, objects, faulted>>

SwapRequests_never == UNCHANGED <<curr, next>>

SwapRequests == IF bisASync THEN curr' = next /\ next' = curr
                            ELSE UNCHANGED <<curr, next>>

(* The second half, Wait returned OK: num_batch_ identities are popped and  *)
(* the boxes of slot i of the output go to the i-th of them.  The queue     *)
(* cannot be short here (the code would throw "InsertImage queue fail"):    *)
(* InsertImage has just pushed the num_batch_ identities of this batch.     *)
WaitOK == /\ pc = "wait"
          /\ state[curr] = "done"
          /\ objects' = [i \in Slots |->
                           [img  |-> imginfoque[i],
                            boxs |-> IF i \in hits[curr] THEN result[curr][i]
                                                         ELSE NoImage]]
          /\ imginfoque' = SubSeq(imginfoque, num_batch + 1, Len(imginfoque))
          /\ returned' = returned + num_batch
          /\ ret' = IF hits[curr] = {} THEN "INSERTIMG_PROCESSED"
                                       ELSE "INSERTIMG_GET"
          /\ SwapRequests
          /\ pc' = "idle"
          /\ UNCHANGED <<state, blob, result, hits, wrapped, nbatch_index,
                         bisASync, inserted, faulted>>

WaitNotOK_pop == /\ pc = "wait"   \* the identities are dropped as well
                 /\ state[curr] \in {"new", "failed"}
                 /\ imginfoque' = << >>
                 /\ ret' = "INSERTIMG_INSERTED"
                 /\ SwapRequests
                 /\ pc' = "idle"
                 /\ UNCHANGED <<state, blob, result, hits, wrapped, nbatch_index,
                                bisASync, inserted, returned, objects, faulted>>

WaitNotOK_retry == /\ pc = "wait"   \* waits for a result that never comes
                   /\ state[curr] = "failed"
                   /\ ret' = "INSERTIMG_INSERTED"
                   /\ SwapRequests
                   /\ pc' = "idle"
                   /\ UNCHANGED <<state, blob, result, hits, wrapped, nbatch_index,
                                  imginfoque, bisASync, inserted, returned, objects,
                                  faulted>>

(* Wait returned anything else: the request was never started (the first    *)
(* batch of asynchronous mode) or ended without a result.                   *)
WaitNotOK == /\ pc = "wait"
             /\ state[curr] \in {"new", "failed"}
             /\ ret' = "INSERTIMG_INSERTED"
             /\ SwapRequests
             /\ pc' = "idle"
             /\ UNCHANGED <<state, blob, result, hits, wrapped, nbatch_index,
                            imginfoque, bisASync, inserted, returned, objects,
                            faulted>>

(* External: the device finishes a request; any subset of the images of the *)
(* batch has boxes.                                                         *)
Complete(r) == /\ state[r] = "busy"
               /\ state' = [state EXCEPT ![r] = "done"]
               /\ result' = [result EXCEPT ![r] = blob[r]]
               /\ \E h \in SUBSET Slots : hits' = [hits EXCEPT ![r] = h]
               /\ UNCHANGED <<curr, next, blob, wrapped, nbatch_index, imginfoque,
                              bisASync, inserted, returned, objects, ret, faulted, pc>>

(* External: or the request ends without a result. *)
Fail(r) == /\ state[r] = "busy"
           /\ state' = [state EXCEPT ![r] = "failed"]
           /\ faulted' = TRUE
           /\ UNCHANGED <<curr, next, blob, result, hits, wrapped, nbatch_index,
                          imginfoque, bisASync, inserted, returned, objects, ret, pc>>

Next == \/ \E m \in BOOLEAN : SetMode(m)
        \/ InsertEmpty \/ InsertImage \/ WaitOK \/ WaitNotOK
        \/ \E r \in Requests : Complete(r) \/ Fail(r)

Spec == Init /\ [][Next]_vars

(* The device finishes what it started, and Wait returns when it has. *)
FairSpec == /\ Spec
            /\ WF_vars(WaitOK \/ WaitNotOK)
            /\ \A r \in Requests : WF_vars(Complete(r) \/ Fail(r))

-----------------------------------------------------------------------------
(* The identities in the queue are exactly those of the images inserted and *)
(* not yet reported, in their order, whatever the device does: imginfoque_  *)
(* never runs empty while a batch is parsed.                                *)
QueueAligned ==
  /\ Len(imginfoque) = inserted - returned
  /\ \A i \in 1 .. Len(imginfoque) : imginfoque[i] = returned + i

(* Boxes are reported with the identity of the image they were found in     *)
(* (main.cpp:1206, "aSync call, you must use the ret image").               *)
ResultsMatch ==
  \A i \in 1 .. Len(objects) : objects[i].boxs \in {NoImage, objects[i].img}

(* They are until a request ends without a result: imginfoque_ and the two  *)
(* output blobs stay aligned over any number of batches and in both modes,  *)
(* the first asynchronous batch (whose Wait fails) included.                *)
Attributed == ~faulted => ResultsMatch

(* InsertImage never writes into the input blob of a request that is being  *)
(* executed, nor starts a request that is still busy.                       *)
FillsIdleRequest ==
  pc = "idle" => state[Target] # "busy" /\ (nbatch_index > 0 => wrapped = Target)

(* Until a request ends without a result, results come back at most one     *)
(* batch late: between calls fewer than 2 * num_batch_ images wait for      *)
(* theirs in asynchronous mode, fewer than num_batch_ in synchronous mode.  *)
BoundedLag ==
  ~faulted /\ pc = "idle" =>
    inserted - returned < (IF bisASync THEN 2 ELSE 1) * num_batch

(* Until a request fails, results come back in time and for the right       *)
(* image.                                                                   *)
ResultsReturned == Attributed /\ BoundedLag

(* InsertImage returns, whether the request it waits for succeeds or fails. *)
InsertReturns == pc = "wait" ~> pc = "idle"
=============================================================================
