------------------------------ MODULE Tensors -------------------------------
(***************************************************************************)
(* The layers of extension/ that select, move and index rather than        *)
(* calculate: ArgMax, CTCGreedyDecoder, ReorgYolo, RegionYolo, Resample    *)
(* (nearest neighbour), PSROIPooling and PriorBox.  A tensor is a function *)
(* on 0 .. size-1, as in memory.  Where only positions matter the values   *)
(* are left out.                                                           *)
(***************************************************************************)
EXTENDS Integers, Sequences, FiniteSets, SequencesExt

Product(s) == FoldLeft(LAMBDA a, b : a * b, 1, s)

Clamp(v, lo, hi) == IF v < lo THEN lo ELSE IF v > hi THEN hi ELSE v

-----------------------------------------------------------------------------
(* ArgMaxImpl.  The dimensions of the tensor are p.dims; p.axis is the      *)
(* axis, from 1, or 0 if there is none.                                     *)

Dim(p) == IF p.axis = 0 THEN Product(Tail(p.dims)) ELSE p.dims[p.axis]

AxisDist(p) == IF p.axis = 0 THEN 1
               ELSE Product(SubSeq(p.dims, p.axis, Len(p.dims))) \div Dim(p)

SrcIndex_flat(p, i, j) == i * Dim(p) + j   \* right for the last axis only

SrcIndex(p, i, j) == ((i \div AxisDist(p)) * Dim(p) + j) * AxisDist(p) + (i % AxisDist(p))

(* The indexes along the axis, the greatest pair of value and index first *)
TopK(p, src, i) ==
  LET At(j) == src[SrcIndex(p, i, j)]
      Greater(j, k) == At(j) > At(k) \/ (At(j) = At(k) /\ j > k)
  IN SubSeq(SetToSortSeq(0 .. Dim(p) - 1, Greater), 1, p.top_k)

(* Writes as pairs of an index into dst and a value *)
ArgMax(p, src) ==
  UNION {LET top == TopK(p, src, i)
             Along(j) == ((i \div AxisDist(p)) * p.top_k + j) * AxisDist(p) + (i % AxisDist(p))
             Val(j) == src[SrcIndex(p, i, top[j + 1])]
         IN UNION {IF ~p.out_max_val THEN {<<Along(j), top[j + 1]>>}
                   ELSE IF p.axis # 0 THEN {<<Along(j), Val(j)>>}
                   ELSE {<<2 * i * p.top_k + j, top[j + 1]>>,
                         <<2 * i * p.top_k + p.top_k + j, Val(j)>>}
                     : j \in 0 .. p.top_k - 1}
           : i \in 0 .. Product(p.dims) \div Dim(p) - 1}

-----------------------------------------------------------------------------
(* CTCGreedyDecoderImpl, for one sequence: probs[t] are the probabilities   *)
(* of the classes 0 .. C-1 at time t, the last class is the blank.          *)

MaxClass(probs) == CHOOSE c \in DOMAIN probs :
                     /\ \A d \in DOMAIN probs : probs[d] <= probs[c]
                     /\ \A d \in DOMAIN probs : probs[d] = probs[c] => c <= d

(* One time step *)
Decode(s, class, blank) ==
  [s EXCEPT !.out = IF class < blank /\ class # s.prev THEN Append(s.out, class) ELSE s.out,
            !.prev = class]

(* The first step is always taken; the others until the sequence indicator  *)
(* is 0.                                                                    *)
SequenceLength(indicators) ==
  CHOOSE n \in DOMAIN indicators :
    /\ \A t \in 2 .. n : indicators[t] # 0
    /\ n = Len(indicators) \/ indicators[n + 1] = 0

CTCGreedy(probs, indicators, C) ==
  FoldLeft(LAMBDA s, t : Decode(s, MaxClass(probs[t]), C - 1), [out |-> << >>, prev |-> -1],
           [t \in 1 .. SequenceLength(indicators) |-> t]).out

-----------------------------------------------------------------------------
(* ReorgYoloImpl: where each element of dst comes from *)

ReorgSrc(IC, IH, IW, stride, ic, ih, iw) ==
  LET ic_off == IC \div (stride * stride)
      offset == ic \div ic_off
      ow == iw * stride + (offset % stride)
      oh == ih * stride + (offset \div stride)
  IN (ic % ic_off) * (IH * stride) * (IW * stride) + oh * (IW * stride) + ow

-----------------------------------------------------------------------------
(* RegionYoloImpl, of an IH x IW tensor with p.num regions of p.coords      *)
(* coordinates, an objectness and p.classes classes each                    *)

entry_index(p, n, entry) ==
  n * p.IW * p.IH * (p.coords + p.classes + 1) + entry * p.IW * p.IH

(* The elements the logistic function is applied to ... *)
Logistic(p) ==
  UNION {(entry_index(p, n, 0) .. entry_index(p, n, 0) + 2 * p.IW * p.IH - 1)
         \cup (entry_index(p, n, p.coords) .. entry_index(p, n, p.coords) + p.IW * p.IH - 1)
           : n \in 0 .. p.num - 1}

SoftmaxOffset(p) == (p.IH * p.IW * p.num * (p.classes + p.coords + 1)) \div p.num

(* ... and those the softmax function is, per region *)
Softmax(p, n) ==
  LET first == entry_index(p, 0, p.coords + 1) + n * SoftmaxOffset(p)
  IN first .. first + p.classes * p.IH * p.IW - 1

-----------------------------------------------------------------------------
(* ResampleImpl::NearestNeighborKernel, one dimension: the input row for    *)
(* output row o of "on", of "in" rows, is round(o * f + g / 2 - 1/2) with   *)
(* f = in / on; g = other_in / other_on is the factor of the other          *)
(* dimension, as in the code.                                               *)
Nearest_floor(o, in, on, other_in, other_on) ==   \* a fraction too far down
  (o * in * other_on + other_in * on) \div (2 * on * other_on)

Nearest(o, in, on, other_in, other_on) ==
  (2 * o * in * other_on + other_in * on) \div (2 * on * other_on)

(* Upsample2x_Nearest: the input row that is written to output row o *)
Upsample2x(o) == o \div 2

-----------------------------------------------------------------------------
(* PSROIPoolingImpl, one dimension: the cells of bin k of "bins" of a       *)
(* region from start to end, of an image of "size" cells of "scale" pixels. *)
(* Positions are counted in 1 / (10 * scale * bins) of a cell.              *)
RoiWidth(p) == LET w == 10 * p.bins * (p.end + 1 - p.start)
               IN IF w < p.scale * p.bins THEN p.scale * p.bins ELSE w   \* avoid 0

Unit(p) == 10 * p.scale * p.bins

BinCells(p, k) ==
  LET at(j) == (j * RoiWidth(p)) \div p.bins + 10 * p.bins * p.start
      Ceil(x) == -((-x) \div Unit(p))
  IN Clamp(at(k) \div Unit(p), 0, p.size) .. Clamp(Ceil(at(k + 1)), 0, p.size) - 1

-----------------------------------------------------------------------------
(* PriorBoxImpl.  An aspect ratio is represented by its logarithm, so that  *)
(* 1.0 is 0 and 1/r is -r.                                                  *)

AspectRatios(ratios, flip) ==
  FoldLeft(LAMBDA s, r : IF Contains(s, r) THEN s
                         ELSE IF flip THEN Append(Append(s, r), -r) ELSE Append(s, r),
           <<0>>, ratios)

NumPriors(p) == Len(AspectRatios(p.ratios, p.flip)) * p.min_sizes + p.max_sizes

(* The boxes that are written for a cell: one for each minimal size, one    *)
(* for its maximal size, and one for each ratio other than 1                *)
PriorsWritten(p) ==
  FlattenSeq([ms \in 1 .. p.min_sizes |->
    <<[size |-> ms, kind |-> "min", ratio |-> 0]>>
    \o (IF p.max_sizes >= ms THEN <<[size |-> ms, kind |-> "max", ratio |-> 0]>> ELSE << >>)
    \o LET ars == SelectSeq(AspectRatios(p.ratios, p.flip), LAMBDA ar : ar # 0)
       IN [k \in DOMAIN ars |-> [size |-> ms, kind |-> "min", ratio |-> ars[k]]]])
=============================================================================
