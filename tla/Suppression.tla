---------------------------- MODULE Suppression -----------------------------
(***************************************************************************)
(* How overlapping boxes are suppressed and handed on: the layer           *)
(* DetectionOutput, whose output Detector::InsertImage reads, and the two  *)
(* layers that propose regions of interest.                                *)
(*                                                                         *)
(* The boxes of an image are numbered from 1.  Their geometry is left out: *)
(* "over" is the set of the pairs {i, j} whose overlap exceeds the         *)
(* threshold, any such set.  A confidence is a small natural number.       *)
(***************************************************************************)
EXTENDS Integers, Sequences, FiniteSets, SequencesExt

Least(a, b) == IF a < b THEN a ELSE b

(* Does box i overlap one of those already kept? *)
Overlaps(over, kept, i) == \E k \in ToSet(kept) : {i, k} \in over

-----------------------------------------------------------------------------
(* DetectionOutputImpl *)

(* ConfidenceComparator: the greater confidence, then the smaller index *)
Before(conf, i, j) == conf[i] > conf[j] \/ (conf[i] = conf[j] /\ i < j)

(* The boxes above the confidence threshold, sorted, and the first top_k *)
Candidates(conf, threshold, top_k) ==
  LET indices == {i \in DOMAIN conf : conf[i] > threshold}
      buffer  == SetToSortSeq(indices, LAMBDA i, j : Before(conf, i, j))
  IN SubSeq(buffer, 1, IF top_k = -1 THEN Len(buffer) ELSE Least(top_k, Len(buffer)))

nms(conf, over, threshold, top_k) ==
  LET Consider(kept, i) == IF Overlaps(over, kept, i) THEN kept ELSE Append(kept, i)
  IN FoldLeft(Consider, << >>, Candidates(conf, threshold, top_k))

(* The detections of an image: for every class but the background (0) *)
Detections(img, threshold, top_k) ==
  [c \in DOMAIN img.conf |->
     IF c = 0 THEN << >> ELSE nms(img.conf[c], img.over, threshold, top_k)]

(* conf_index_class_map: the detections as pairs of class and index *)
Labelled(dets) == UNION {{<<c, dets[c][k]>> : k \in DOMAIN dets[c]} : c \in DOMAIN dets}

(* std::sort by confidence only: detections of the same confidence may come *)
(* out in any order.                                                        *)
Sorts(img, pairs) ==
  {s \in SetToSeqs(pairs) :
     \A k \in 1 .. Len(s) - 1 : img.conf[s[k][1]][s[k][2]] >= img.conf[s[k+1][1]][s[k+1][2]]}

(* What may be left when only the best keep_top_k detections are kept, the  *)
(* index lists of the classes rewritten in place                            *)
KeepTopK(img, dets, keep_top_k) ==
  IF keep_top_k = -1 \/ Cardinality(Labelled(dets)) <= keep_top_k THEN {dets}
  ELSE {[c \in DOMAIN dets |->
           LET ofC == SelectSeq(SubSeq(s, 1, keep_top_k), LAMBDA p : p[1] = c)
           IN [k \in DOMAIN ofC |-> ofC[k][2]]] : s \in Sorts(img, Labelled(dets))}

Row(n, c, conf, idx) == [image |-> n, label |-> c, conf |-> conf, box |-> idx]
ZeroRow == Row(0, 0, 0, 0)

(* The detections of image n, by class *)
RowsOf(n, img, dets) ==
  FlattenSeq([c \in 1 .. Cardinality(DOMAIN dets) |->
                [k \in DOMAIN dets[c-1] |-> Row(n, c-1, img.conf[c-1][dets[c-1][k]],
                                                dets[c-1][k])]])

Output_short(rows, capacity) ==   \* the marker takes the place of the last row
  [k \in 1 .. capacity |->
     IF k < Len(rows) THEN rows[k]
     ELSE IF k = Len(rows) THEN Row(-1, 0, 0, 0) ELSE ZeroRow]

(* The output blob: memset, the rows, and a marker if there is room.  It is *)
(* as long as N * keep_top_k rows; more rows than that are written past it. *)
Output(rows, capacity) ==
  [k \in 1 .. capacity |->
     IF k <= Len(rows) THEN rows[k]
     ELSE IF k = Len(rows) + 1 THEN Row(-1, 0, 0, 0) ELSE ZeroRow]

(* The layer as a whole: what may come out for the images, or               *)
(* OUT_OF_BOUNDS and no output: with keep_top_k = -1, its default, the size *)
(* of the output, a size_t, is huge.                                        *)
execute(images, p) ==
  IF p.keep_top_k = -1 THEN {[status |-> "OUT_OF_BOUNDS", kept |-> << >>, blob |-> << >>]}
  ELSE LET Outcomes(n) == KeepTopK(images[n], Detections(images[n], p.threshold, p.top_k),
                                   p.keep_top_k)
       IN {[status |-> "OK", kept |-> kept,
            blob |-> Output(FlattenSeq([n \in DOMAIN images |->
                                          RowsOf(n - 1, images[n], kept[n])]),
                            Len(images) * p.keep_top_k)]
             : kept \in {f \in [DOMAIN images -> UNION {Outcomes(n) : n \in DOMAIN images}] :
                           \A n \in DOMAIN images : f[n] \in Outcomes(n)}}

(* Detector::InsertImage reads the rows up to the first that has no image,  *)
(* no confidence, or an image that is too large.  The images are 0 to       *)
(* num_batch_ - 1; boxes of image num_batch_, which the test lets pass,     *)
(* would be written past the vector.                                        *)
Ends(row, num_batch_) == row.image < 0 \/ row.conf = 0 \/ row.image > num_batch_

InsertImage(blob, num_batch_) ==
  LET end == SelectInSeq(blob, LAMBDA row : Ends(row, num_batch_))
      rows == SubSeq(blob, 1, IF end = 0 THEN Len(blob) ELSE end - 1)
  IN [n \in 0 .. num_batch_ |-> SelectSeq(rows, LAMBDA row : row.image = n)]

-----------------------------------------------------------------------------
(* SimplerNMSImpl *)

(* sort_and_keep_at_most_top_n: the greater confidence, then the later one *)
SortAndKeep(conf, top_n) ==
  LET sorted == SetToSortSeq(DOMAIN conf,
                  LAMBDA i, j : conf[i] > conf[j] \/ (conf[i] = conf[j] /\ i > j))
  IN SubSeq(sorted, 1, Least(top_n, Len(sorted)))

(* top_n is positive. *)
simpler_nms_perform_nms(proposals, conf, over, top_n) ==
  LET Consider(res, i) ==
        IF Len(res) = top_n \/ conf[i] <= 0 \/ Overlaps(over, res, i) THEN res
        ELSE Append(res, i)
  IN FoldLeft(Consider, << >>, proposals)

-----------------------------------------------------------------------------
(* ProposalImpl: the boxes come sorted by score, box i being the i-th best *)

(* Instead of comparing a box with those kept, a box that is kept marks the *)
(* later ones that overlap it as dead.  max_num_out is positive.            *)
nms_cpu(num_boxes, over, max_num_out) ==
  LET Consider(s, box) ==
        IF box \in s.is_dead \/ Len(s.index_out) = max_num_out THEN s
        ELSE [index_out |-> Append(s.index_out, box),
              is_dead   |-> s.is_dead \cup {tail \in box + 1 .. num_boxes : {box, tail} \in over}]
  IN FoldLeft(Consider, [index_out |-> << >>, is_dead |-> {}],
              [i \in 1 .. num_boxes |-> i]).index_out

retrieve_rois_unmarked(roi_indices, post_nms_topn) ==   \* no marker
  [k \in 1 .. post_nms_topn |->
     IF k <= Len(roi_indices) THEN <<0, roi_indices[k]>> ELSE <<0, 0>>]

(* retrieve_rois_cpu: the regions (of image 0), zeros, and a marker *)
retrieve_rois_cpu(roi_indices, post_nms_topn) ==
  [k \in 1 .. post_nms_topn |->
     CASE k <= Len(roi_indices)    -> <<0, roi_indices[k]>>
       [] k = Len(roi_indices) + 1 -> <<-1, 0>>
       [] OTHER                    -> <<0, 0>>]

(* PSROIPoolingImpl: regions up to the marker are pooled. *)
RealRois(rois) ==
  LET end == SelectInSeq(rois, LAMBDA roi : roi[1] = -1)
  IN SubSeq(rois, 1, IF end = 0 THEN Len(rois) ELSE end - 1)

-----------------------------------------------------------------------------
(* What suppression is to compute: of the boxes in the order of their rank, *)
(* those are kept that overlap no box kept before them, up to a limit.      *)
IsGreedy(ranked, over, limit, kept) ==
  LET Rank(i) == CHOOSE r \in DOMAIN ranked : ranked[r] = i
  IN /\ ToSet(kept) \subseteq ToSet(ranked) /\ Len(kept) <= limit
     /\ \A k, l \in DOMAIN kept : k < l => /\ Rank(kept[k]) < Rank(kept[l])
                                           /\ {kept[k], kept[l]} \notin over
     /\ \A i \in ToSet(ranked) \ ToSet(kept) :
          \/ \E j \in ToSet(kept) : Rank(j) < Rank(i) /\ {i, j} \in over
          \/ Len(kept) = limit /\ Rank(kept[limit]) < Rank(i)
=============================================================================
