----------------------------- MODULE Algorithms -----------------------------
(***************************************************************************)
(* The operators of Suppression, Tensors and Media, evaluated on all small *)
(* inputs and compared with what they are to compute.  An initial state is *)
(* an input (job); a step evaluates one of the algorithms on it.           *)
(***************************************************************************)
EXTENDS Suppression, Tensors, Media

CONSTANTS MaxConf,   \* bound: confidences are 0 .. MaxConf
          Priors,    \* bound: boxes of an image with one class
          Proposals, \* bound: boxes of a proposal layer
          Cells,     \* bound: height, width, bins, .. of the other layers
          MaxTaken   \* bound: bytes a decoder takes before it is left alone

ASSUME AlgorithmsAssumption == {MaxConf, Priors, Proposals, Cells, MaxTaken} \subseteq Nat \ {0}

VARIABLES job, result

algVars == <<job, result>>

None == [status |-> "none"]

Pairs(n) == {e \in SUBSET (1 .. n) : Cardinality(e) = 2}

-----------------------------------------------------------------------------
(* The inputs *)

(* Images of n boxes with confidences up to m in each of the given classes, *)
(* the background having any                                                *)
ImagesOf(n, m, classes) ==
  {[conf |-> [c \in {0} \cup classes |-> IF c = 0 THEN [i \in 1 .. n |-> m] ELSE f[c]],
    over |-> o] : f \in [classes -> [1 .. n -> 0 .. m]], o \in SUBSET Pairs(n)}

(* The threshold is 0: one image with many boxes, or two images, the first  *)
(* with two classes                                                         *)
DetectJobs ==
  {[alg |-> "detect", images |-> imgs, threshold |-> 0, top_k |-> t, keep_top_k |-> k]
     : imgs \in {<<a>> : a \in ImagesOf(Priors, MaxConf, {1})}, t \in {-1, Priors - 1},
       k \in {-1, 0, 2, Priors}}
  \cup
  {[alg |-> "detect", images |-> imgs, threshold |-> 0, top_k |-> -1, keep_top_k |-> k]
     : imgs \in {<<a, b>> : a \in ImagesOf(2, MaxConf, {1, 2}), b \in ImagesOf(2, 1, {1})},
       k \in 1 .. 3}

SimplerJobs ==
  {[alg |-> "simpler", conf |-> c, over |-> o, pre |-> pre, post |-> post]
     : c \in [1 .. Priors -> 0 .. MaxConf], o \in SUBSET Pairs(Priors),
       pre \in {Priors - 1, Priors}, post \in {2, Priors}}

ProposalJobs ==
  {[alg |-> "proposal", over |-> o, post |-> post]
     : o \in SUBSET Pairs(Proposals), post \in 1 .. Proposals + 1}

ArgMaxJobs ==
  UNION {{[alg |-> "argmax", dims |-> d.dims, axis |-> d.axis, top_k |-> k,
           out_max_val |-> o, src |-> src]
            : src \in [0 .. Product(d.dims) - 1 -> 0 .. MaxConf], k \in 1 .. 2, o \in BOOLEAN}
           : d \in {[dims |-> <<2, 2>>, axis |-> 0], [dims |-> <<2, 3>>, axis |-> 2],
                    [dims |-> <<3, 2>>, axis |-> 1], [dims |-> <<1, 2, 2>>, axis |-> 2],
                    [dims |-> <<1, 2, 3>>, axis |-> 0]}}

CtcJobs ==
  {[alg |-> "ctc", probs |-> f, indicators |-> i, C |-> 3]
     : f \in [1 .. 4 -> [0 .. 2 -> 0 .. 1]], i \in [1 .. 4 -> 0 .. 1]}

ReorgJobs ==
  {j \in [alg : {"reorg"}, IC : 1 .. Cells * Cells, IH : 1 .. Cells, IW : 1 .. Cells, stride : 1 .. Cells] :
     j.IC % (j.stride * j.stride) = 0}

RegionJobs == [alg : {"region"}, IH : 1 .. Cells, IW : 1 .. Cells, num : 1 .. Cells, classes : 1 .. Cells,
               coords : {4}]

NearestJobs ==   \* the same factor in both dimensions
  {j \in [alg : {"nearest"}, IH : 1 .. Cells, IW : 1 .. Cells, OH : 1 .. 2 * Cells,
          OW : 1 .. 2 * Cells] : j.IW * j.OH = j.IH * j.OW}

PoolJobs ==
  {j \in [alg : {"pool"}, start : -2 .. 2 * Cells, end : -2 .. 2 * Cells, bins : 1 .. Cells,
          scale : {1, 2, 16}, size : 1 .. Cells] : j.start <= j.end}

PriorJobs ==
  {j \in [alg : {"prior"}, ratios : SeqOf(-2 .. 2, 3), flip : BOOLEAN, min_sizes : 0 .. 2,
          max_sizes : 0 .. 2] : j.max_sizes <= j.min_sizes}

StreamJobs == [alg : {"stream"}, size : 0 .. Cells, MaxLength : 1 .. Cells]

FrameJobs == {j \in [alg : {"frame"}, CropW : {2, 4}, CropH : {2, 4}, CropX : {0, 2}, CropY : {0, 2},
                     Pitch : {6, 8}] : j.CropX + j.CropW <= j.Pitch}

PlaneJobs == [alg : {"planes"}, w : 1 .. 2 * Cells, h : 1 .. Cells]

AlgInit ==
  /\ result = None
  /\ \/ job \in DetectJobs  \/ job \in SimplerJobs \/ job \in ProposalJobs
     \/ job \in ArgMaxJobs  \/ job \in CtcJobs     \/ job \in ReorgJobs
     \/ job \in RegionJobs  \/ job \in NearestJobs \/ job \in PoolJobs
     \/ job \in PriorJobs   \/ job \in StreamJobs  \/ job \in FrameJobs
     \/ job \in PlaneJobs

-----------------------------------------------------------------------------
(* The algorithms *)

Ready(alg) == job.alg = alg /\ result = None /\ UNCHANGED job

Execute == Ready("detect") /\ result' \in execute(job.images, job)

(* The detector reads what the layer has put out. *)
Read == /\ job.alg = "detect" /\ result.status = "OK" /\ UNCHANGED job
        /\ result' = [status  |-> "read", kept |-> result.kept,
                      objects |-> InsertImage(result.blob, Len(job.images))]

SimplerNms ==
  /\ Ready("simpler")
  /\ LET proposals == SortAndKeep(job.conf, job.pre)
     IN result' = [status |-> "done", ranked |-> proposals,
                   kept |-> simpler_nms_perform_nms(proposals, job.conf, job.over, job.post)]

Proposal ==
  /\ Ready("proposal")
  /\ LET kept == nms_cpu(Proposals, job.over, job.post)
     IN result' = [status |-> "done", kept |-> kept, rois |-> retrieve_rois_cpu(kept, job.post)]

ArgMaxLayer == Ready("argmax") /\ result' = [status |-> "done", dst |-> ArgMax(job, job.src)]

CtcLayer ==
  /\ Ready("ctc")
  /\ result' = [status |-> "done", out |-> CTCGreedy(job.probs, job.indicators, job.C)]

ReorgLayer ==
  /\ Ready("reorg")
  /\ result' = [status |-> "done",
                src |-> [d \in (0 .. job.IC - 1) \X (0 .. job.IH - 1) \X (0 .. job.IW - 1) |->
                           ReorgSrc(job.IC, job.IH, job.IW, job.stride, d[1], d[2], d[3])]]

RegionLayer ==
  /\ Ready("region")
  /\ result' = [status |-> "done", logistic |-> Logistic(job),
                softmax |-> [n \in 0 .. job.num - 1 |-> Softmax(job, n)]]

NearestLayer ==
  /\ Ready("nearest")
  /\ result' = [status |-> "done",
                x |-> [o \in 0 .. job.OW - 1 |-> Nearest(o, job.IW, job.OW, job.IH, job.OH)],
                y |-> [o \in 0 .. job.OH - 1 |-> Nearest(o, job.IH, job.OH, job.IW, job.OW)]]

PoolLayer ==
  /\ Ready("pool")
  /\ result' = [status |-> "done", cells |-> [k \in 0 .. job.bins - 1 |-> BinCells(job, k)]]

PriorLayer == Ready("prior") /\ result' = [status |-> "done", boxes |-> PriorsWritten(job)]

OpenStream == Ready("stream") /\ result' = [status |-> "done", bs |-> FirstRead(job)]

(* The decoder takes any number of bytes at a time. *)
FeedStream == /\ job.alg = "stream" /\ result # None /\ UNCHANGED job
              /\ Len(result.bs.taken) < MaxTaken
              /\ \E n \in 0 .. Cells :
                   result' = [status |-> "done", bs |-> Feed(result.bs, n, job)]

CopyFrame ==
  /\ Ready("frame")
  /\ LET file == [k \in 1 .. FrameSize(job) |-> k]
     IN result' = [status |-> "done", file |-> WriteRawFrame(job, LoadRawFrame(job, file)),
                   sts |-> [len \in 0 .. FrameSize(job) |-> LoadStatus(job, len)]]

CopyPlanes ==
  /\ Ready("planes")
  /\ result' = [status |-> "done", imgbuf |-> Imgbuf(job.w, job.h, <<"old", 0>>),
                writes |-> PlaneCopies(job.w, job.h)]

AlgNext == \/ Execute \/ Read \/ SimplerNms \/ Proposal \/ ArgMaxLayer \/ CtcLayer
           \/ ReorgLayer \/ RegionLayer \/ NearestLayer \/ PoolLayer \/ PriorLayer
           \/ OpenStream \/ FeedStream \/ CopyFrame \/ CopyPlanes

AlgSpec == AlgInit /\ [][AlgNext]_algVars

-----------------------------------------------------------------------------
Greatest(a, b) == IF a < b THEN b ELSE a

Done(alg) == job.alg = alg /\ result.status # "none"

(* Suppression keeps a box exactly if it overlaps no better box that is     *)
(* kept, in all three forms it has in the layers: compared with the boxes   *)
(* kept, compared up to a limit, and by marking the dead ones.  Detections  *)
(* above keep_top_k are the subject of BestKept.                            *)
GreedyKept ==
  /\ Done("detect") => \A n \in DOMAIN job.images : \A c \in DOMAIN job.images[n].conf \ {0} :
       LET conf == job.images[n].conf[c]
           ranked == Candidates(conf, job.threshold, job.top_k)
       IN IsGreedy(ranked, job.images[n].over, Len(ranked),
                   nms(conf, job.images[n].over, job.threshold, job.top_k))
  /\ Done("simpler") =>
       IsGreedy(SelectSeq(result.ranked, LAMBDA i : job.conf[i] > 0), job.over, job.post,
                result.kept)
  /\ Done("proposal") => IsGreedy([i \in 1 .. Proposals |-> i], job.over, job.post, result.kept)

(* Of the detections of an image at most keep_top_k are left, and none that *)
(* was dropped is better than one that was kept.                            *)
BestKept ==
  Done("detect") /\ result.status # "OUT_OF_BOUNDS" => \A n \in DOMAIN job.images :
    LET img  == job.images[n]
        all  == Labelled(Detections(img, job.threshold, job.top_k))
        kept == Labelled(result.kept[n])
        Conf(p) == img.conf[p[1]][p[2]]
    IN /\ kept \subseteq all
       /\ Cardinality(kept) = Least(job.keep_top_k, Cardinality(all))
       /\ \A p \in kept, q \in all \ kept : Conf(p) >= Conf(q)

(* The detector reads exactly the detections that were kept, each for its   *)
(* image: neither the marker nor the zeros after it are taken for a box,    *)
(* and with a full blob nothing is lost.                                    *)
ReadExactly ==
  Done("detect") /\ result.status = "read" => \A n \in DOMAIN job.images :
    LET rows == result.objects[n - 1]
    IN /\ {<<r.label, r.box>> : r \in ToSet(rows)} = Labelled(result.kept[n])
       /\ Len(rows) = Cardinality(Labelled(result.kept[n]))
       /\ \A r \in ToSet(rows) : r.conf = job.images[n].conf[r.label][r.box]

(* Although detector.cpp:214 tests the image with > for >=, with this layer *)
(* no box is put past the vector of images, and the layer writes no row     *)
(* past its blob.                                                           *)
InBounds ==
  /\ Done("detect") /\ result.status = "read" => result.objects[Len(job.images)] = << >>
  /\ Done("detect") /\ result.status # "OUT_OF_BOUNDS" =>
       LET Total(n) == Cardinality(Labelled(result.kept[n]))
       IN FoldLeft(LAMBDA s, n : s + Total(n), 0, [n \in DOMAIN job.images |-> n])
            <= Len(job.images) * job.keep_top_k

(* As many boxes are written for a cell as the layer has counted for the    *)
(* size of its output, and no two are the same.                             *)
PriorsCounted ==
  Done("prior") => /\ Len(result.boxes) = NumPriors(job)
                   /\ Cardinality(ToSet(result.boxes)) = Len(result.boxes)

(* The layers lay out the boxes they have counted and select what they      *)
(* should: the boxes that no better box suppresses, and of these the best;  *)
(* and layer and detector agree about where the detections of a batch end.  *)
DetectionsCorrect == PriorsCounted /\ GreedyKept /\ BestKept /\ ReadExactly /\ InBounds

(* The pooling layer takes exactly the regions that were proposed: the      *)
(* marker ends the list and a full list needs none.                         *)
RoisRead ==
  Done("proposal") => RealRois(result.rois) = [k \in DOMAIN result.kept |-> <<0, result.kept[k]>>]

(* ArgMax writes every element of its output once, and the values along the *)
(* axis that it names are the greatest, in descending order.                *)
ArgMaxTop ==
  Done("argmax") =>
    LET inner == IF job.axis = 0 THEN 1 ELSE Product(SubSeq(job.dims, job.axis + 1, Len(job.dims)))
        size  == Product(job.dims) \div Dim(job)
        both  == job.out_max_val /\ job.axis = 0
        dst   == [d \in {w[1] : w \in result.dst} |-> (CHOOSE w \in result.dst : w[1] = d)[2]]
        \* the values along the axis at place x of outer, y of inner
        Line(x, y) == [a \in 0 .. Dim(job) - 1 |-> job.src[x * Dim(job) * inner + a * inner + y]]
        At(x, y, k) == IF both THEN dst[2 * x * job.top_k + k]
                       ELSE dst[x * job.top_k * inner + k * inner + y]
    IN /\ DOMAIN dst = 0 .. (IF both THEN 2 ELSE 1) * size * job.top_k - 1
       /\ Cardinality(result.dst) = Cardinality(DOMAIN dst)
       /\ \A x \in 0 .. size \div inner - 1, y \in 0 .. inner - 1 :
            LET line == Line(x, y)
                Greater(v) == Cardinality({a \in DOMAIN line : line[a] > v})
                AtLeast(v) == Cardinality({a \in DOMAIN line : line[a] >= v})
            IN \A k \in 0 .. job.top_k - 1 :
                 LET v == IF job.out_max_val /\ ~both THEN At(x, y, k) ELSE line[At(x, y, k)]
                 IN /\ Greater(v) <= k /\ k < AtLeast(v)
                    /\ both => dst[2 * x * job.top_k + job.top_k + k] = v

(* The decoder puts out the best classes of the steps of the sequence, with *)
(* repetitions merged and blanks left out, a blank between two equal        *)
(* classes keeping them apart.                                              *)
CtcCollapsed ==
  Done("ctc") =>
    LET n == SequenceLength(job.indicators)
        best == [t \in 1 .. n |-> MaxClass(job.probs[t])]
        starts == {t \in 1 .. n : best[t] # job.C - 1 /\ (t = 1 \/ best[t] # best[t - 1])}
        order == SetToSortSeq(starts, <)
    IN result.out = [k \in DOMAIN order |-> best[order[k]]]

(* What the network found most probable is what is put out, by both layers  *)
(* that look for it.                                                        *)
ClassesDecoded == ArgMaxTop /\ CtcCollapsed

(* ReorgYolo moves every element of its input to exactly one place. *)
ReorgBijective ==
  Done("reorg") =>
    /\ {result.src[d] : d \in DOMAIN result.src} = 0 .. job.IC * job.IH * job.IW - 1
    /\ \A d, e \in DOMAIN result.src : result.src[d] = result.src[e] => d = e

(* RegionYolo applies the logistic function to x, y and the objectness and  *)
(* softmax to the classes of every region, so that only width and height    *)
(* stay as they are and nothing is transformed twice.                       *)
RegionsDisjoint ==
  Done("region") =>
    LET cells == job.IH * job.IW
        Entry(i) == (i \div cells) % (job.coords + 1 + job.classes)
        all == 0 .. cells * job.num * (job.coords + 1 + job.classes) - 1
    IN /\ result.logistic = {i \in all : Entry(i) \in {0, 1, job.coords}}
       /\ \A n \in DOMAIN result.softmax :
            result.softmax[n] = {i \in all : /\ Entry(i) > job.coords
                                             /\ i \div (cells * (job.coords + 1 + job.classes)) = n}

(* Scaled by the same factor in both dimensions, every pixel is that whose  *)
(* centre is nearest, within the input; the fast path for a factor of two   *)
(* agrees with the general one.                                             *)
NearestAgrees ==
  Done("nearest") =>
    /\ \A o \in DOMAIN result.x :
         /\ result.x[o] \in 0 .. job.IW - 1
         /\ LET Dist(i) == LET d == (2 * o + 1) * job.IW - (2 * i + 1) * job.OW
                           IN IF d < 0 THEN -d ELSE d
            IN \A i \in 0 .. job.IW - 1 : Dist(result.x[o]) <= Dist(i)
    /\ \A o \in DOMAIN result.y : result.y[o] \in 0 .. job.IH - 1
    /\ job.OW = 2 * job.IW =>
         \A o \in DOMAIN result.x : result.x[o] = Upsample2x(o)

(* The bins of a region, at least a tenth of a cell wide, leave out none of *)
(* its cells within the image and take no others.                           *)
PoolCovers ==
  Done("pool") =>
    UNION {result.cells[k] : k \in DOMAIN result.cells} =
      {x \in 0 .. job.size - 1 :
         /\ 10 * x * job.scale < 10 * job.start + Greatest(10 * (job.end + 1 - job.start), job.scale)
         /\ (x + 1) * job.scale > job.start}

(* The regions that are pooled are the ones proposed, and all of each.      *)
RoisPooled == RoisRead /\ PoolCovers

(* The index arithmetic of the layers that only place elements leaves no    *)
(* element of the output out, writes none twice and stays in bounds.        *)
ElementsPlaced == ReorgBijective /\ RegionsDisjoint /\ NearestAgrees

(* The bytes the decoder takes, and then those in its window, are the file  *)
(* over and over again, none lost or repeated where reads were short or the *)
(* file was rewound; the thread gives up only when the window is full or    *)
(* the file empty.                                                          *)
StreamCyclic ==
  Done("stream") =>
    LET bytes == result.bs.taken \o result.bs.window
    IN /\ \A k \in DOMAIN bytes : bytes[k] = (k - 1) % job.size
       /\ result.bs.offset + Len(result.bs.window) <= job.MaxLength
       /\ result.bs.sts => Len(result.bs.window) = job.MaxLength \/ job.size = 0

(* A frame that is loaded and written again is the same file, wherever the  *)
(* picture lies in the surface, and a file that is too short is noticed, up *)
(* to the last plane.                                                       *)
FrameRoundTrip ==
  Done("frame") =>
    /\ result.file = [k \in 1 .. FrameSize(job) |-> k]
    /\ \A len \in 0 .. FrameSize(job) - PlaneSize(job) - 1 : result.sts[len] = "MORE_DATA"

(* Although the loop for B runs over the width, the detector gets the three *)
(* planes, provided that h <= w <= 3 * h: what it copies too much is        *)
(* overwritten by the other planes.                                         *)
PlanesCopied ==
  Done("planes") /\ job.h <= job.w /\ job.w <= 3 * job.h =>
    /\ result.imgbuf = [r \in 0 .. 3 * job.h - 1 |->
                          <<<<"B", "G", "R">>[r \div job.h + 1], r % job.h>>]
    /\ \A k \in DOMAIN result.writes : result.writes[k][1] < 3 * job.h

(* Raw frames and the planes of a network input are copied without loss.    *)
FramesCopied == FrameRoundTrip /\ PlanesCopied
=============================================================================
