------------------------------- MODULE Media --------------------------------
(***************************************************************************)
(* Reading and copying of media data: the bit stream window, raw frames    *)
(* and the planes of the image that goes to the detector.                  *)
(***************************************************************************)
EXTENDS Integers, Sequences, FiniteSets, SequencesExt

-----------------------------------------------------------------------------
(* The bit stream.  Byte k of the file is k itself, 0 .. p.size-1.  bs has  *)
(* the bytes of the window from Data + DataOffset (DataLength of them), its *)
(* DataOffset, and the position in the file.  p.MaxLength is the size of    *)
(* the buffer.                                                              *)

FileBytes(pos, n) == [k \in 1 .. n |-> pos + k - 1]

ReadBitStreamData_offset(bs, p) ==   \* the window is not moved to the front
  LET room == p.MaxLength - Len(bs.window) - bs.offset
      n == IF p.size - bs.pos < room THEN p.size - bs.pos ELSE room
  IN [bs EXCEPT !.window = @ \o FileBytes(bs.pos, n), !.pos = @ + n, !.sts = (n = 0)]

(* memmove to the front, fread of what fits; nothing read is an error *)
ReadBitStreamData(bs, p) ==
  LET room == p.MaxLength - Len(bs.window)
      n == IF p.size - bs.pos < room THEN p.size - bs.pos ELSE room
  IN [bs EXCEPT !.window = @ \o FileBytes(bs.pos, n), !.offset = 0, !.pos = @ + n,
                !.sts = (n = 0)]

(* MFX_ERR_MORE_DATA in DecodeThreadFunc: read, at the end of the file from *)
(* its beginning; if there is still nothing the thread leaves its loop.     *)
MoreData(bs, p) ==
  LET first == ReadBitStreamData(bs, p)
  IN IF first.sts THEN ReadBitStreamData([first EXCEPT !.pos = 0], p) ELSE first

(* The decoder takes n bytes (or all there are) and asks for more. *)
Feed(bs, n, p) ==
  IF bs.sts THEN bs
  ELSE LET k == IF n < Len(bs.window) THEN n ELSE Len(bs.window)
       IN MoreData([bs EXCEPT !.taken = @ \o SubSeq(bs.window, 1, k), !.offset = @ + k,
                              !.window = SubSeq(@, k + 1, Len(@))], p)

(* The set-up of a channel: an empty window, and a first read, whose status *)
(* is overwritten with that of DecodeHeader.                                *)
NewStream == [window |-> << >>, offset |-> 0, pos |-> 0, sts |-> FALSE, taken |-> << >>]

FirstRead(p) == [ReadBitStreamData(NewStream, p) EXCEPT !.sts = FALSE]

-----------------------------------------------------------------------------
(* Raw frames.  A file is a sequence of bytes, three planes one after the   *)
(* other (I420).  A surface is NV12: addresses <<"Y", n>> and <<"UV", n>>   *)
(* with p.Pitch bytes per row; the picture is p.CropW x p.CropH at          *)
(* (p.CropX, p.CropY).                                                      *)

(* The writes of fread and ReadPlaneData: address and number of the byte *)
LumaWrites(p) ==
  {<< <<"Y", p.CropX + p.CropY * p.Pitch + i * p.Pitch + j>>, i * p.CropW + j + 1 >>
     : i \in 0 .. p.CropH - 1, j \in 0 .. p.CropW - 1}

ReadPlaneData(p, from, offset) ==
  LET w == p.CropW \div 2
  IN {<< <<"UV", p.CropX + (p.CropY \div 2) * p.Pitch + i * p.Pitch + j * 2 + offset>>,
         from + i * w + j + 1 >> : i \in 0 .. p.CropH \div 2 - 1, j \in 0 .. w - 1}

PlaneSize(p) == (p.CropW \div 2) * (p.CropH \div 2)
FrameSize(p) == p.CropW * p.CropH + 2 * PlaneSize(p)

(* The surface after LoadRawFrame of a complete file, as a function from    *)
(* the addresses that were written                                          *)
LoadRawFrame(p, file) ==
  LET writes == LumaWrites(p) \cup ReadPlaneData(p, p.CropW * p.CropH, 0)
                \cup ReadPlaneData(p, p.CropW * p.CropH + PlaneSize(p), 1)
  IN [a \in {w[1] : w \in writes} |-> file[(CHOOSE w \in writes : w[1] = a)[2]]]

(* The result: a file that ends within the plane of U or before is noticed, *)
(* one that ends within the plane of V is not.  (Pictures wider than 4096   *)
(* are refused.)                                                            *)
LoadStatus(p, len) ==
  IF len < p.CropW * p.CropH + PlaneSize(p) THEN "MORE_DATA" ELSE "NONE"

ChromaAt_swapped(p, i, j) ==   \* V before U
  <<"UV", (p.CropY * p.Pitch) \div 2 + p.CropX + i * p.Pitch + j + 1 - 2 * (j % 2)>>

ChromaAt(p, i, j) == <<"UV", (p.CropY * p.Pitch) \div 2 + p.CropX + i * p.Pitch + j>>

(* WriteRawFrame and the NV12 part of WriteRawFrameToMemory: the addresses  *)
(* in the order in which they are written                                   *)
WriteOrder(p) ==
  LET h == p.CropH \div 2
      Plane(first) == LET n == (p.CropW - first + 1) \div 2   \* j = first, first + 2, ..
                      IN [k \in 1 .. h * n |->
                            ChromaAt(p, (k - 1) \div n, first + 2 * ((k - 1) % n))]
  IN [k \in 1 .. p.CropW * p.CropH |->
        <<"Y", p.CropY * p.Pitch + p.CropX + ((k - 1) \div p.CropW) * p.Pitch
               + ((k - 1) % p.CropW)>>]
     \o Plane(0) \o Plane(1)

WriteRawFrame(p, surface) == LET order == WriteOrder(p)
                             IN [k \in DOMAIN order |-> surface[order[k]]]

-----------------------------------------------------------------------------
(* The copy of the planes B, G and R of a w x h image into imgbuf, which    *)
(* has 3 * h rows of w bytes.  The loop for B runs over w rows; past the    *)
(* plane it reads what comes next, "other".                                 *)
SrcRow(plane, i, h) == IF i < h THEN <<plane, i>> ELSE <<"other", i>>

CopyB(w, h) == [i \in 1 .. w |-> <<i - 1, SrcRow("B", i - 1, h)>>]

CopyRows(plane, at, h) == [i \in 1 .. h |-> <<at + i - 1, SrcRow(plane, i - 1, h)>>]

PlaneCopies(w, h) == CopyB(w, h) \o CopyRows("G", h, h) \o CopyRows("R", 2 * h, h)

(* imgbuf after the copies, of which old is the content before *)
Imgbuf(w, h, old) ==
  FoldLeft(LAMBDA buf, c : [r \in DOMAIN buf |-> IF r = c[1] THEN c[2] ELSE buf[r]],
           [r \in 0 .. 3 * h - 1 |-> old], PlaneCopies(w, h))
=============================================================================
