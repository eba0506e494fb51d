-------------------------- MODULE DPipeListProofs --------------------------
(***************************************************************************)
(* Proofs about DPipeList, for any number of buffers: after every critical *)
(* section of dpipe.cpp the two intrusive lists, the tail pointer and the  *)
(* counters are consistent, and the pointer code implements the stack of   *)
(* free buffers and the FIFO of stored ones of FramePools.                 *)
(*                                                                         *)
(* The invariant names the two lists: there are sequences I and O without  *)
(* repetitions, linked from in and from out, that partition the buffers    *)
(* together with the taken ones.  A list is determined by its first        *)
(* pointer and the links, so these are the lists ListAt finds.             *)
(***************************************************************************)
EXTENDS DPipeList, QueueFacts

Distinct(s) == \A i, j \in 1 .. Len(s) : s[i] = s[j] => i = j

-----------------------------------------------------------------------------
(* Lists. *)

(* Two lists that start at the same pointer agree as far as the first goes. *)
LEMMA CommonNodes ==
  ASSUME NEW nx, NEW p, NEW s \in Seq(Buffers), NEW r \in Seq(Buffers),
         Linked(nx, p, s), Linked(nx, p, r)
  PROVE  \A i \in 1 .. Len(s) : i <= Len(r) /\ r[i] = s[i]
<1> DEFINE Bad == {i \in 1 .. Len(s) : ~(i <= Len(r) /\ r[i] = s[i])}
<1>1. SUFFICES ASSUME Bad # {} PROVE FALSE
  OBVIOUS
<1>2. Len(s) \in Nat /\ Len(r) \in Nat
  BY LenProperties
<1>3. Bad \in SUBSET Nat
  BY <1>2
<1> HIDE DEF Bad
<1>4. PICK x \in Bad : \A y \in Bad : x <= y
  BY <1>1, <1>3, LeastNumber
<1>5. x \in 1 .. Len(s) /\ ~(x <= Len(r) /\ r[x] = s[x])
  BY <1>4 DEF Bad
<1>6. s[x] \in Buffers /\ s[x] # NULL
  BY <1>5, ElementOfSeq, BufferAssumption
<1>7. CASE x = 1
  <2>1. s # << >> /\ p = s[1] /\ p # NULL
    BY <1>2, <1>5, <1>6, <1>7, EmptySeq DEF Linked
  <2>2. r # << >> /\ r[1] = p
    BY <2>1 DEF Linked
  <2>3. 1 <= Len(r)
    BY <2>2, <1>2, EmptySeq
  <2> QED
    BY <2>1, <2>2, <2>3, <1>5, <1>7
<1>8. CASE x # 1
  <2>1. x - 1 \in 1 .. Len(s) /\ x - 1 # Len(s) /\ ~(x <= x - 1)
    BY <1>2, <1>5, <1>8
  <2>2. x - 1 <= Len(r) /\ r[x - 1] = s[x - 1]
    BY <2>1, <1>4 DEF Bad
  <2>3. nx[s[x - 1]] = s[x]
    <3>1. nx[s[x - 1]] = s[(x - 1) + 1]
      BY <2>1 DEF Linked
    <3>2. (x - 1) + 1 = x
      BY <1>2, <1>5
    <3> QED
      BY <3>1, <3>2
  <2>4. x - 1 \in 1 .. Len(r) /\ (x - 1) + 1 = x
    BY <2>1, <2>2, <1>2, <1>5
  <2>5. nx[r[x - 1]] = (IF x - 1 = Len(r) THEN NULL ELSE r[x])
    BY <2>4 DEF Linked
  <2>6. x - 1 # Len(r) /\ r[x] = s[x]
    BY <2>2, <2>3, <2>5, <1>6
  <2> QED
    BY <2>2, <2>6, <1>2, <1>5
<1> QED
  BY <1>7, <1>8

(* A list is determined by its first pointer and the links. *)
LEMMA OneList ==
  ASSUME NEW nx, NEW p, NEW s \in Seq(Buffers), NEW r \in Seq(Buffers),
         Linked(nx, p, s), Linked(nx, p, r)
  PROVE  s = r
<1>1. Len(s) \in Nat /\ Len(r) \in Nat
  BY LenProperties
<1>2. \A i \in 1 .. Len(s) : i <= Len(r) /\ r[i] = s[i]
  BY CommonNodes
<1>3. \A i \in 1 .. Len(r) : i <= Len(s)
  BY CommonNodes
<1>4. Len(s) = Len(r)
  <2>1. Len(s) <= Len(r)
    BY <1>1, <1>2
  <2>2. Len(r) <= Len(s)
    BY <1>1, <1>3
  <2> QED
    BY <2>1, <2>2, <1>1
<1> QED
  BY <1>2, <1>4, SeqEqual

(* A list without repetitions is as long as it has nodes. *)
LEMMA DistinctLen ==
  ASSUME NEW s \in Seq(Buffers), Distinct(s)
  PROVE  /\ Cardinality(Entries(s)) = Len(s) /\ IsFiniteSet(Entries(s))
         /\ Len(s) \in 0 .. Cardinality(Buffers)
         /\ Entries(s) \subseteq Buffers
<1> DEFINE f == [i \in 1 .. Len(s) |-> s[i]]
<1>1. Len(s) \in Nat /\ DOMAIN s = 1 .. Len(s) /\ Entries(s) \subseteq Buffers
      /\ IsFiniteSet(Entries(s))
  BY LenProperties, ElementsFinite
<1>2. f \in Surjection(1 .. Len(s), Entries(s))
  BY <1>1 DEF Surjection, Entries
<1>3. f \in Injection(1 .. Len(s), Entries(s))
  <2>1. \A i, j \in 1 .. Len(s) : f[i] = f[j] => i = j
    BY DEF Distinct
  <2>2. f \in [1 .. Len(s) -> Entries(s)]
    BY <1>2 DEF Surjection
  <2> QED
    BY <2>1, <2>2 DEF Injection, IsInjective
<1>4. IsFiniteSet(1 .. Len(s)) /\ Cardinality(1 .. Len(s)) = Len(s)
  BY <1>1, FS_Interval
<1> HIDE DEF f
<1>5. Cardinality(Entries(s)) = Len(s)
  BY <1>2, <1>3, <1>4, FS_Surjection
<1>6. Cardinality(Entries(s)) <= Cardinality(Buffers) /\ Cardinality(Buffers) \in Nat
  BY <1>1, BufferAssumption, FS_Subset, FS_CardinalityType
<1> QED
  BY <1>1, <1>5, <1>6

(* ListAt finds the list. *)
LEMMA ListFound ==
  ASSUME NEW nx, NEW p, NEW s \in Seq(Buffers), Linked(nx, p, s), Distinct(s)
  PROVE  ListAt(nx, p) = s
<1>1. Len(s) \in 0 .. Cardinality(Buffers) /\ s \in [1 .. Len(s) -> Buffers]
  BY DistinctLen, LenProperties, ElementOfSeq
<1>2. s \in Lists
  BY <1>1 DEF Lists
<1>3. ListAt(nx, p) \in Lists /\ Linked(nx, p, ListAt(nx, p))
  BY <1>2 DEF ListAt
<1>4. Cardinality(Buffers) \in Nat
  BY BufferAssumption, FS_CardinalityType
<1>5. ListAt(nx, p) \in Seq(Buffers)
  <2>1. PICK n \in 0 .. Cardinality(Buffers) : ListAt(nx, p) \in [1 .. n -> Buffers]
    BY <1>3 DEF Lists
  <2> QED
    BY <2>1, <1>4, SeqDef
<1> QED
  BY <1>3, <1>5, OneList

-----------------------------------------------------------------------------
(* What the pointer operations do to a list. *)

(* A list none of whose links is written stays a list. *)
LEMMA OtherList ==
  ASSUME NEW nx, NEW mx, NEW p, NEW s \in Seq(Buffers), Linked(nx, p, s),
         \A b \in Entries(s) : mx[b] = nx[b]
  PROVE  Linked(mx, p, s)
<1>1. \A i \in 1 .. Len(s) : s[i] \in Entries(s)
  BY LenProperties DEF Entries
<1> QED
  BY <1>1 DEF Linked

(* Unlinking the head: the list starts at the link of the old head. *)
LEMMA UnlinkHead ==
  ASSUME NEW nx, NEW mx, NEW p, NEW s \in Seq(Buffers), s # << >>, Linked(nx, p, s),
         \A b \in Entries(Tail(s)) : mx[b] = nx[b]
  PROVE  /\ p = Head(s)
         /\ Linked(mx, nx[p], Tail(s))
         /\ nx[p] = NULL <=> Tail(s) = << >>
         /\ Tail(s) # << >> => Tail(s)[Len(Tail(s))] = s[Len(s)]
<1> DEFINE t == Tail(s)
<1>1. /\ t \in Seq(Buffers) /\ Len(s) \in Nat \ {0} /\ Len(t) = Len(s) - 1
      /\ Head(s) = s[1] /\ \A i \in 1 .. Len(s) - 1 : t[i] = s[i + 1]
  BY PopHead
<1>2. \A i \in 1 .. Len(t) : t[i] \in Entries(t) /\ t[i] \in Buffers
  BY <1>1, LenProperties, ElementOfSeq DEF Entries
<1> HIDE DEF t
<1>3. p = s[1]
  BY DEF Linked
<1>4. t = << >> <=> Len(t) = 0
  BY <1>1, EmptySeq
<1>5. nx[p] = (IF t = << >> THEN NULL ELSE t[1])
  <2>1. 1 \in 1 .. Len(s) /\ (1 = Len(s) <=> Len(t) = 0)
    BY <1>1
  <2>2. nx[s[1]] = (IF 1 = Len(s) THEN NULL ELSE s[1 + 1])
    BY <2>1 DEF Linked
  <2>3. t # << >> => t[1] = s[1 + 1]
    BY <1>1, <1>4
  <2> QED
    BY <2>1, <2>2, <2>3, <1>3, <1>4
<1>6. ASSUME NEW i \in 1 .. Len(t)
      PROVE  mx[t[i]] = (IF i = Len(t) THEN NULL ELSE t[i + 1])
  <2>1. /\ i + 1 \in 1 .. Len(s) /\ t[i] = s[i + 1]
        /\ (i + 1 = Len(s) <=> i = Len(t))
        /\ i # Len(t) => t[i + 1] = s[(i + 1) + 1]
    BY <1>1
  <2>2. nx[s[i + 1]] = (IF i + 1 = Len(s) THEN NULL ELSE s[(i + 1) + 1])
    BY <2>1 DEF Linked
  <2>3. mx[t[i]] = nx[t[i]]
    BY <1>2 DEF t
  <2> QED
    BY <2>1, <2>2, <2>3
<1>7. Linked(mx, nx[p], t)
  BY <1>5, <1>6 DEF Linked
<1>8. nx[p] = NULL <=> t = << >>
  <2>1. t # << >> => t[1] \in Buffers
    BY <1>1, <1>2, <1>4
  <2> QED
    BY <1>5, <2>1, BufferAssumption
<1>9. t # << >> => t[Len(t)] = s[Len(s)]
  BY <1>1, <1>4
<1> QED
  BY <1>1, <1>3, <1>7, <1>8, <1>9 DEF t

(* The rest of a list without repetitions has none, nor the old head. *)
LEMMA DistinctTail ==
  ASSUME NEW s \in Seq(Buffers), s # << >>, Distinct(s)
  PROVE  Distinct(Tail(s)) /\ Head(s) \notin Entries(Tail(s))
<1>1. /\ Tail(s) \in Seq(Buffers) /\ Len(s) \in Nat \ {0} /\ Len(Tail(s)) = Len(s) - 1
      /\ Head(s) = s[1] /\ \A i \in 1 .. Len(s) - 1 : Tail(s)[i] = s[i + 1]
  BY PopHead
<1>2. DOMAIN Tail(s) = 1 .. Len(s) - 1
  BY <1>1, LenProperties
<1>3. ASSUME NEW i \in 1 .. Len(Tail(s)), NEW j \in 1 .. Len(Tail(s)), Tail(s)[i] = Tail(s)[j]
      PROVE  i = j
  <2>1. i + 1 \in 1 .. Len(s) /\ j + 1 \in 1 .. Len(s) /\ s[i + 1] = s[j + 1]
    BY <1>1, <1>3
  <2>2. i + 1 = j + 1
    BY <2>1 DEF Distinct
  <2> QED
    BY <2>2, <1>1
<1>4. ASSUME NEW i \in 1 .. Len(s) - 1 PROVE Tail(s)[i] # Head(s)
  <2>1. i + 1 \in 1 .. Len(s) /\ 1 \in 1 .. Len(s) /\ i + 1 # 1
    BY <1>1
  <2> QED
    BY <2>1, <1>1 DEF Distinct
<1> QED
  BY <1>2, <1>3, <1>4 DEF Distinct, Entries

(* The elements of a stack after a push. *)
LEMMA PushElements ==
  ASSUME NEW s \in Seq(Buffers), NEW b \in Buffers
  PROVE  /\ Push(s, b)[1] = b
         /\ \A i \in 1 .. Len(s) : Push(s, b)[i + 1] = s[i]
<1>1. <<b>> \in Seq(Buffers) /\ Len(<<b>>) = 1 /\ <<b>>[1] = b
  OBVIOUS
<1>2. Len(s) \in Nat
  BY LenProperties
<1>3. \A i \in 1 .. 1 + Len(s) : Push(s, b)[i] = IF i <= 1 THEN <<b>>[i] ELSE s[i - 1]
  BY <1>1, ConcatProperties DEF Push
<1> QED
  BY <1>1, <1>2, <1>3

(* Linking a buffer before the head of a list. *)
LEMMA LinkFront ==
  ASSUME NEW nx, NEW mx, NEW p, NEW s \in Seq(Buffers), Linked(nx, p, s),
         NEW b \in Buffers, mx[b] = p, \A e \in Entries(s) : mx[e] = nx[e]
  PROVE  Linked(mx, b, Push(s, b))
<1> DEFINE a == Push(s, b)
<1>1. a \in Seq(Buffers) /\ a # << >> /\ Len(s) \in Nat /\ Len(a) = Len(s) + 1
  BY PushFront
<1>2. a[1] = b /\ \A i \in 1 .. Len(s) : a[i + 1] = s[i]
  BY PushElements
<1>3. \A i \in 1 .. Len(s) : s[i] \in Entries(s)
  BY LenProperties DEF Entries
<1> HIDE DEF a
<1>4. s = << >> <=> Len(s) = 0
  BY <1>1, EmptySeq
<1>5. ASSUME NEW i \in 1 .. Len(a)
      PROVE  mx[a[i]] = (IF i = Len(a) THEN NULL ELSE a[i + 1])
  <2>1. CASE i = 1
    <3>1. 1 = Len(a) <=> s = << >>
      BY <1>1, <1>4
    <3>2. s # << >> => a[1 + 1] = s[1]
      BY <1>1, <1>2, <1>4
    <3>3. p = (IF s = << >> THEN NULL ELSE s[1])
      BY DEF Linked
    <3> QED
      BY <2>1, <3>1, <3>2, <3>3, <1>2
  <2>2. CASE i # 1
    <3>1. PICK k \in 1 .. Len(s) : i = k + 1
      <4>1. i - 1 \in 1 .. Len(s) /\ i = (i - 1) + 1
        BY <1>1, <2>2
      <4> QED
        BY <4>1
    <3>2. /\ a[i] = s[k] /\ (i = Len(a) <=> k = Len(s))
          /\ i # Len(a) => a[i + 1] = s[k + 1]
      BY <3>1, <1>1, <1>2
    <3>3. nx[s[k]] = (IF k = Len(s) THEN NULL ELSE s[k + 1])
      BY DEF Linked
    <3>4. mx[s[k]] = nx[s[k]]
      BY <1>3
    <3> QED
      BY <3>2, <3>3, <3>4
  <2> QED
    BY <2>1, <2>2
<1>6. b = (IF a = << >> THEN NULL ELSE a[1])
  BY <1>1, <1>2
<1>7. Linked(mx, b, a)
  BY <1>5, <1>6 DEF Linked
<1> QED
  BY <1>7 DEF a

(* Pushing a buffer that is not in a list without repetitions adds none. *)
LEMMA DistinctPush ==
  ASSUME NEW s \in Seq(Buffers), Distinct(s), NEW b \in Buffers, b \notin Entries(s)
  PROVE  Distinct(Push(s, b))
<1> DEFINE a == Push(s, b)
<1>1. Len(s) \in Nat /\ Len(a) = Len(s) + 1
  BY PushFront
<1>2. a[1] = b /\ \A i \in 1 .. Len(s) : a[i + 1] = s[i]
  BY PushElements
<1>3. \A i \in 1 .. Len(s) : s[i] # b
  BY LenProperties DEF Entries
<1> HIDE DEF a
<1>4. \A i \in 1 .. Len(a) : i = 1 \/ \E k \in 1 .. Len(s) : i = k + 1
  <2>1. SUFFICES ASSUME NEW i \in 1 .. Len(a), i # 1 PROVE \E k \in 1 .. Len(s) : i = k + 1
    OBVIOUS
  <2>2. i - 1 \in 1 .. Len(s) /\ i = (i - 1) + 1
    BY <1>1, <2>1
  <2> QED
    BY <2>2
<1>5. ASSUME NEW i \in 1 .. Len(a), NEW j \in 1 .. Len(a), a[i] = a[j] PROVE i = j
  <2>1. CASE i = 1 \/ j = 1
    BY <2>1, <1>2, <1>3, <1>4, <1>5
  <2>2. CASE i # 1 /\ j # 1
    <3>1. PICK k \in 1 .. Len(s), l \in 1 .. Len(s) : i = k + 1 /\ j = l + 1
      BY <2>2, <1>4
    <3>2. s[k] = s[l]
      BY <3>1, <1>2, <1>5
    <3>3. k = l
      BY <3>2 DEF Distinct
    <3> QED
      BY <3>1, <3>3
  <2> QED
    BY <2>1, <2>2
<1> QED
  BY <1>5 DEF Distinct, a

(* Linking a buffer behind the tail of a list. *)
LEMMA LinkBack ==
  ASSUME NEW nx, NEW mx, NEW p, NEW s \in Seq(Buffers), s # << >>, Linked(nx, p, s),
         Distinct(s), NEW b \in Buffers, mx[b] = NULL, mx[s[Len(s)]] = b,
         \A e \in Entries(s) : e # s[Len(s)] => mx[e] = nx[e]
  PROVE  Linked(mx, p, Append(s, b))
<1> DEFINE a == Append(s, b)
<1>1. /\ a \in Seq(Buffers) /\ a # << >> /\ Len(s) \in Nat /\ Len(a) = Len(s) + 1
      /\ \A i \in 1 .. Len(s) : a[i] = s[i]
      /\ a[Len(s) + 1] = b
  BY PushTail
<1>2. \A i \in 1 .. Len(s) : s[i] \in Entries(s)
  BY LenProperties DEF Entries
<1> HIDE DEF a
<1>3. Len(s) > 0
  BY <1>1, EmptySeq
<1>4. p = (IF a = << >> THEN NULL ELSE a[1])
  <2>1. p = s[1] /\ a[1] = s[1]
    BY <1>1, <1>3 DEF Linked
  <2> QED
    BY <2>1, <1>1
<1>5. ASSUME NEW i \in 1 .. Len(a)
      PROVE  mx[a[i]] = (IF i = Len(a) THEN NULL ELSE a[i + 1])
  <2>1. CASE i = Len(a)
    BY <2>1, <1>1
  <2>2. CASE i = Len(s)
    <3>1. a[i] = s[Len(s)] /\ i # Len(a) /\ a[i + 1] = b
      BY <2>2, <1>1, <1>3
    <3> QED
      BY <3>1
  <2>3. CASE i # Len(a) /\ i # Len(s)
    <3>1. /\ i \in 1 .. Len(s) /\ Len(s) \in 1 .. Len(s) /\ i + 1 \in 1 .. Len(s)
      BY <2>3, <1>1, <1>3
    <3>2. a[i] = s[i] /\ a[i + 1] = s[i + 1]
      BY <3>1, <1>1
    <3>3. s[i] # s[Len(s)]
      BY <3>1, <2>3 DEF Distinct
    <3>4. mx[s[i]] = nx[s[i]]
      BY <3>1, <3>3, <1>2
    <3>5. nx[s[i]] = s[i + 1]
      BY <3>1, <2>3 DEF Linked
    <3> QED
      BY <2>3, <3>2, <3>4, <3>5
  <2> QED
    BY <2>1, <2>2, <2>3
<1>6. Linked(mx, p, a)
  BY <1>4, <1>5 DEF Linked
<1> QED
  BY <1>6 DEF a

(* Appending a buffer that is not in a list without repetitions adds none. *)
LEMMA DistinctAppend ==
  ASSUME NEW s \in Seq(Buffers), Distinct(s), NEW b \in Buffers, b \notin Entries(s)
  PROVE  Distinct(Append(s, b))
<1> DEFINE a == Append(s, b)
<1>1. /\ Len(s) \in Nat /\ Len(a) = Len(s) + 1
      /\ \A i \in 1 .. Len(s) : a[i] = s[i]
      /\ a[Len(s) + 1] = b
  BY PushTail
<1>2. \A i \in 1 .. Len(s) : s[i] # b
  BY LenProperties DEF Entries
<1> HIDE DEF a
<1>3. \A i \in 1 .. Len(a) : i = Len(s) + 1 \/ i \in 1 .. Len(s)
  BY <1>1
<1>4. ASSUME NEW i \in 1 .. Len(a), NEW j \in 1 .. Len(a), a[i] = a[j] PROVE i = j
  BY <1>1, <1>2, <1>3, <1>4 DEF Distinct
<1> QED
  BY <1>4 DEF Distinct, a

(* A buffer alone. *)
LEMMA LinkFirst ==
  ASSUME NEW mx, NEW b \in Buffers, mx[b] = NULL
  PROVE  Linked(mx, b, Append(<< >>, b))
<1>1. Append(<< >>, b) = <<b>> /\ <<b>> # << >> /\ Len(<<b>>) = 1 /\ <<b>>[1] = b
  OBVIOUS
<1>2. \A i \in 1 .. 1 : i = 1
  OBVIOUS
<1> QED
  BY <1>1, <1>2 DEF Linked

-----------------------------------------------------------------------------
(* The invariant. *)

(* I and O are the two lists of the pipe. *)
Split(I, O) ==
  /\ I \in Seq(Buffers) /\ O \in Seq(Buffers)
  /\ Distinct(I) /\ Distinct(O)
  /\ Linked(next, in, I) /\ Linked(next, out, O)
  /\ Entries(I) \cap Entries(O) = {}
  /\ Entries(I) \cap taken = {} /\ Entries(O) \cap taken = {}
  /\ Entries(I) \cup Entries(O) \cup taken = Buffers
  /\ in_count = Len(I) /\ out_count = Len(O)
  /\ out_tail = (IF O = << >> THEN NULL ELSE O[Len(O)])
  /\ \A b \in taken : next[b] = NULL

Links == next \in [Buffers -> Pointer]

IInv == Links /\ \E I, O : Split(I, O)

(* What the property says of the two lists. *)
LEMMA SplitWellFormed ==
  ASSUME Links, NEW I, NEW O, Split(I, O)
  PROVE  ListsWellFormed /\ ListAt(next, in) = I /\ ListAt(next, out) = O
<1>1. ListAt(next, in) = I /\ ListAt(next, out) = O
  BY ListFound DEF Split
<1>2. /\ Len(I) \in 0 .. Cardinality(Buffers) /\ Len(O) \in 0 .. Cardinality(Buffers)
      /\ IsFiniteSet(Entries(I)) /\ Cardinality(Entries(I)) = Len(I)
      /\ IsFiniteSet(Entries(O)) /\ Cardinality(Entries(O)) = Len(O)
      /\ Entries(I) \subseteq Buffers /\ Entries(O) \subseteq Buffers
  BY DistinctLen DEF Split
<1>3. taken \subseteq Buffers /\ IsFiniteSet(taken) /\ Cardinality(taken) \in Nat
  <2>1. taken \subseteq Buffers
    BY DEF Split
  <2> QED
    BY <2>1, BufferAssumption, FS_Subset, FS_CardinalityType
<1>4. in \in Pointer /\ out \in Pointer /\ out_tail \in Pointer
  <2>1. ASSUME NEW s \in Seq(Buffers), s # << >>
        PROVE  s[1] \in Buffers /\ s[Len(s)] \in Buffers
    <3>1. Len(s) \in Nat /\ Len(s) # 0
      BY <2>1, LenProperties, EmptySeq
    <3>2. 1 \in 1 .. Len(s) /\ Len(s) \in 1 .. Len(s)
      BY <3>1
    <3> QED
      BY <3>2, ElementOfSeq
  <2>2. /\ in = (IF I = << >> THEN NULL ELSE I[1])
        /\ out = (IF O = << >> THEN NULL ELSE O[1])
        /\ out_tail = (IF O = << >> THEN NULL ELSE O[Len(O)])
        /\ I \in Seq(Buffers) /\ O \in Seq(Buffers)
    BY DEF Split, Linked
  <2> QED
    BY <2>1, <2>2 DEF Pointer
<1>5. TypeOK
  BY <1>2, <1>3, <1>4 DEF TypeOK, Links, Split
<1>6. Len(I) + Len(O) + Cardinality(taken) = Cardinality(Buffers)
  <2>1. /\ IsFiniteSet(Entries(I) \cup Entries(O))
        /\ Cardinality(Entries(I) \cup Entries(O)) = Len(I) + Len(O)
    <3>1. Entries(I) \cap Entries(O) = {}
      BY DEF Split
    <3>2. /\ IsFiniteSet(Entries(I) \cup Entries(O))
          /\ Cardinality(Entries(I) \cup Entries(O))
               = Cardinality(Entries(I)) + Cardinality(Entries(O)) - Cardinality({})
      BY <1>2, <3>1, FS_Union
    <3> QED
      BY <1>2, <3>2, FS_EmptySet
  <2>2. /\ (Entries(I) \cup Entries(O)) \cap taken = {}
        /\ Entries(I) \cup Entries(O) \cup taken = Buffers
    BY DEF Split
  <2>3. Cardinality(Buffers)
          = Cardinality(Entries(I) \cup Entries(O)) + Cardinality(taken) - Cardinality({})
    BY <1>3, <2>1, <2>2, FS_Union
  <2> QED
    BY <1>2, <1>3, <2>1, <2>3, FS_EmptySet
<1>7. {I[i] : i \in DOMAIN I} \cup {O[i] : i \in DOMAIN O} \cup taken = Buffers
  BY DEF Split, Entries
<1> QED
  BY <1>1, <1>5, <1>6, <1>7 DEF ListsWellFormed, Split

(* dpipe_create links the buffers it allocates into one list. *)
LEMMA Initially == Init => Links /\ \E I : Split(I, << >>) /\ Entries(I) = Buffers
<1> SUFFICES ASSUME Init PROVE Links /\ \E I : Split(I, << >>) /\ Entries(I) = Buffers
  OBVIOUS
<1> DEFINE n == Cardinality(Buffers)
<1>1. n \in Nat \ {0} /\ IsFiniteSet(1 .. n) /\ Cardinality(1 .. n) = n
  <2>1. n \in Nat /\ n # 0
    BY BufferAssumption, FS_CardinalityType, FS_EmptySet
  <2> QED
    BY <2>1, FS_Interval
<1> HIDE DEF n
<1>2. PICK order \in [1 .. n -> Buffers] :
        /\ \A b \in Buffers : \E i \in DOMAIN order : order[i] = b
        /\ LET At(b) == CHOOSE i \in DOMAIN order : order[i] = b
           IN  /\ in = order[n]
               /\ next = [b \in Buffers |-> IF At(b) = 1 THEN NULL ELSE order[At(b) - 1]]
               /\ in_count = n
        /\ out = NULL /\ out_tail = NULL /\ out_count = 0 /\ taken = {}
  BY DEF Init, n
<1> DEFINE At(b) == CHOOSE i \in 1 .. n : order[i] = b
<1>3. next = [b \in Buffers |-> IF At(b) = 1 THEN NULL ELSE order[At(b) - 1]]
  BY <1>2
<1>4. \A i, j \in 1 .. n : order[i] = order[j] => i = j
  <2>1. order \in Surjection(1 .. n, Buffers)
    BY <1>2 DEF Surjection
  <2>2. order \in Injection(1 .. n, Buffers)
    BY <1>1, <2>1, FS_SurjSameCardinalityImpliesInj DEF n
  <2> QED
    BY <2>2 DEF Injection, IsInjective
<1>5. \A i \in 1 .. n : At(order[i]) = i
  <2>1. SUFFICES ASSUME NEW i \in 1 .. n PROVE At(order[i]) = i
    OBVIOUS
  <2>2. At(order[i]) \in 1 .. n /\ order[At(order[i])] = order[i]
    OBVIOUS
  <2> QED
    BY <2>2, <1>4
<1>6. \A b \in Buffers : At(b) \in 1 .. n /\ order[At(b)] = b
  BY <1>2
<1> HIDE DEF At
<1>7. Links
  <2>1. SUFFICES ASSUME NEW b \in Buffers
                 PROVE  (IF At(b) = 1 THEN NULL ELSE order[At(b) - 1]) \in Pointer
    BY <1>3 DEF Links
  <2>2. At(b) # 1 => At(b) - 1 \in 1 .. n
    BY <1>1, <1>6
  <2> QED
    BY <2>2 DEF Pointer
<1> DEFINE I == [i \in 1 .. n |-> order[n + 1 - i]]
<1>8. I \in Seq(Buffers) /\ Len(I) = n /\ DOMAIN I = 1 .. n
  <2>1. \A i \in 1 .. n : n + 1 - i \in 1 .. n
    BY <1>1
  <2>2. I \in [1 .. n -> Buffers]
    BY <2>1
  <2> QED
    BY <1>1, <2>2
<1>9. \A i \in 1 .. n : n + 1 - i \in 1 .. n /\ I[i] = order[n + 1 - i]
  BY <1>1
<1> HIDE DEF I
<1>10. Distinct(I)
  <2>1. SUFFICES ASSUME NEW i \in 1 .. n, NEW j \in 1 .. n, I[i] = I[j] PROVE i = j
    BY <1>8 DEF Distinct
  <2>2. n + 1 - i = n + 1 - j
    BY <2>1, <1>4, <1>9
  <2> QED
    BY <2>2, <1>1
<1>11. Linked(next, in, I)
  <2>1. I # << >> /\ in = I[1]
    BY <1>1, <1>2, <1>8, <1>9, EmptySeq
  <2>2. ASSUME NEW i \in 1 .. n
        PROVE  next[I[i]] = (IF i = n THEN NULL ELSE I[i + 1])
    <3>1. PICK k \in 1 .. n : k = n + 1 - i /\ I[i] = order[k]
      BY <1>9
    <3>2. order[k] \in Buffers /\ At(order[k]) = k
      BY <1>2, <1>5
    <3>3. next[I[i]] = (IF k = 1 THEN NULL ELSE order[k - 1])
      BY <1>3, <3>1, <3>2
    <3>4. k = 1 <=> i = n
      BY <1>1, <3>1
    <3>5. CASE i # n
      <4>1. i + 1 \in 1 .. n /\ n + 1 - (i + 1) = k - 1
        BY <1>1, <3>1, <3>5
      <4> QED
        BY <4>1, <3>3, <3>4, <3>5, <1>9
    <3> QED
      BY <3>3, <3>4, <3>5
  <2> QED
    BY <2>1, <2>2, <1>8 DEF Linked
<1>12. Entries(I) = Buffers
  <2>1. ASSUME NEW b \in Buffers PROVE \E i \in 1 .. n : I[i] = b
    <3>1. PICK k \in 1 .. n : order[k] = b
      BY <1>6
    <3>2. n + 1 - k \in 1 .. n /\ n + 1 - (n + 1 - k) = k
      BY <1>1
    <3> QED
      BY <3>1, <3>2, <1>9
  <2>2. \A i \in 1 .. n : I[i] \in Buffers
    BY <1>2, <1>9
  <2> QED
    BY <2>1, <2>2, <1>8 DEF Entries
<1>13. << >> \in Seq(Buffers) /\ Len(<< >>) = 0 /\ Entries(<< >>) = {} /\ Distinct(<< >>)
       /\ Linked(next, NULL, << >>)
  BY DEF Entries, Distinct, Linked
<1>14. Split(I, << >>)
  BY <1>2, <1>8, <1>10, <1>11, <1>12, <1>13 DEF Split
<1> QED
  BY <1>7, <1>12, <1>14

-----------------------------------------------------------------------------
(* The critical sections. *)

(* dpipe_get unlinks the top of the free list. *)
LEMMA GetStep ==
  ASSUME Links, NEW I, NEW O, Split(I, O), dpipe_get
  PROVE  I # << >> /\ taken' = taken \cup {Head(I)} /\ Links' /\ Split(Tail(I), O)'
<1>1. I \in Seq(Buffers) /\ O \in Seq(Buffers) /\ Linked(next, in, I) /\ Distinct(I)
  BY DEF Split
<1>2. I # << >>
  BY <1>1 DEF dpipe_get, Linked
<1>3. /\ Head(I) \in Buffers /\ Tail(I) \in Seq(Buffers) /\ Len(I) \in Nat \ {0}
      /\ Len(Tail(I)) = Len(I) - 1 /\ Entries(I) = Entries(Tail(I)) \cup {Head(I)}
  BY <1>1, <1>2, PopHead
<1>4. Distinct(Tail(I)) /\ Head(I) \notin Entries(Tail(I))
  BY <1>1, <1>2, DistinctTail
<1>5. in = Head(I)
  BY <1>1, <1>2, UnlinkHead
<1>6. /\ Links' /\ next'[Head(I)] = NULL
      /\ \A b \in Buffers : b # Head(I) => next'[b] = next[b]
  BY <1>3, <1>5 DEF dpipe_get, Links, Pointer
<1>7. Entries(Tail(I)) \subseteq Buffers /\ Entries(O) \subseteq Buffers
  BY <1>1, <1>3, ElementsFinite
<1>8. Linked(next', in', Tail(I))
  <2>1. \A b \in Entries(Tail(I)) : next'[b] = next[b]
    BY <1>4, <1>6, <1>7
  <2>2. PICK mx : mx = next'
    OBVIOUS
  <2>3. \A b \in Entries(Tail(I)) : mx[b] = next[b]
    BY <2>1, <2>2
  <2>4. Linked(mx, next[in], Tail(I))
    BY <1>1, <1>2, <2>3, UnlinkHead
  <2> QED
    BY <2>2, <2>4 DEF dpipe_get
<1>9. Linked(next', out', O)
  <2>1. \A b \in Entries(O) : next'[b] = next[b]
    BY <1>3, <1>6, <1>7 DEF Split
  <2>2. Linked(next, out, O) /\ out' = out
    BY DEF Split, dpipe_get
  <2> QED
    BY <1>1, <2>1, <2>2, OtherList
<1>10. taken' = taken \cup {Head(I)} /\ in_count' = Len(Tail(I))
  BY <1>3, <1>5 DEF dpipe_get, Split
<1>11. \A b \in taken' : next'[b] = NULL
  <2>1. taken \subseteq Buffers /\ \A b \in taken : next[b] = NULL
    BY DEF Split
  <2> QED
    BY <1>6, <1>10, <2>1
<1>12. Split(Tail(I), O)'
  BY <1>1, <1>3, <1>4, <1>8, <1>9, <1>10, <1>11 DEF Split, dpipe_get
<1> QED
  BY <1>2, <1>6, <1>10, <1>12

(* dpipe_load unlinks the head of the output list. *)
LEMMA LoadStep ==
  ASSUME Links, NEW I, NEW O, Split(I, O), TakeOut
  PROVE  O # << >> /\ taken' = taken \cup {Head(O)} /\ Links' /\ Split(I, Tail(O))'
<1>1. I \in Seq(Buffers) /\ O \in Seq(Buffers) /\ Linked(next, out, O) /\ Distinct(O)
  BY DEF Split
<1>2. O # << >>
  BY <1>1 DEF TakeOut, Linked
<1>3. /\ Head(O) \in Buffers /\ Tail(O) \in Seq(Buffers) /\ Len(O) \in Nat \ {0}
      /\ Len(Tail(O)) = Len(O) - 1 /\ Entries(O) = Entries(Tail(O)) \cup {Head(O)}
  BY <1>1, <1>2, PopHead
<1>4. Distinct(Tail(O)) /\ Head(O) \notin Entries(Tail(O))
  BY <1>1, <1>2, DistinctTail
<1>5. /\ out = Head(O)
      /\ next[out] = NULL <=> Tail(O) = << >>
      /\ Tail(O) # << >> => Tail(O)[Len(Tail(O))] = O[Len(O)]
  BY <1>1, <1>2, UnlinkHead
<1>6. /\ Links' /\ next'[Head(O)] = NULL
      /\ \A b \in Buffers : b # Head(O) => next'[b] = next[b]
  BY <1>3, <1>5 DEF TakeOut, Links, Pointer
<1>7. Entries(Tail(O)) \subseteq Buffers /\ Entries(I) \subseteq Buffers
  BY <1>1, <1>3, ElementsFinite
<1>8. Linked(next', out', Tail(O))
  <2>1. \A b \in Entries(Tail(O)) : next'[b] = next[b]
    BY <1>4, <1>6, <1>7
  <2>2. PICK mx : mx = next'
    OBVIOUS
  <2>3. \A b \in Entries(Tail(O)) : mx[b] = next[b]
    BY <2>1, <2>2
  <2>4. Linked(mx, next[out], Tail(O))
    BY <1>1, <1>2, <2>3, UnlinkHead
  <2> QED
    BY <2>2, <2>4 DEF TakeOut
<1>9. Linked(next', in', I)
  <2>1. \A b \in Entries(I) : next'[b] = next[b]
    BY <1>3, <1>6, <1>7 DEF Split
  <2>2. Linked(next, in, I) /\ in' = in
    BY DEF Split, TakeOut
  <2> QED
    BY <1>1, <2>1, <2>2, OtherList
<1>10. taken' = taken \cup {Head(O)} /\ out_count' = Len(Tail(O))
  BY <1>3, <1>5 DEF TakeOut, Split
<1>11. \A b \in taken' : next'[b] = NULL
  <2>1. taken \subseteq Buffers /\ \A b \in taken : next[b] = NULL
    BY DEF Split
  <2> QED
    BY <1>6, <1>10, <2>1
<1>12. out_tail' = (IF Tail(O) = << >> THEN NULL ELSE Tail(O)[Len(Tail(O))])
  BY <1>2, <1>5 DEF TakeOut, Split
<1>13. Split(I, Tail(O))'
  BY <1>1, <1>3, <1>4, <1>8, <1>9, <1>10, <1>11, <1>12 DEF Split, TakeOut
<1> QED
  BY <1>2, <1>6, <1>10, <1>13

(* dpipe_put links a taken buffer on top of the free list. *)
LEMMA PutStep ==
  ASSUME Links, NEW I, NEW O, Split(I, O), NEW b \in Buffers, dpipe_put(b)
  PROVE  Links' /\ Split(Push(I, b), O)'
<1>1. I \in Seq(Buffers) /\ O \in Seq(Buffers) /\ Linked(next, in, I) /\ Distinct(I)
      /\ Linked(next, out, O) /\ b \in taken /\ b \notin Entries(I) /\ b \notin Entries(O)
  BY DEF Split, dpipe_put
<1>2. /\ Push(I, b) \in Seq(Buffers) /\ Len(I) \in Nat /\ Len(Push(I, b)) = Len(I) + 1
      /\ Entries(Push(I, b)) = Entries(I) \cup {b}
  BY <1>1, PushFront
<1>3. Distinct(Push(I, b))
  BY <1>1, DistinctPush
<1>4. in \in Pointer
  BY SplitWellFormed DEF ListsWellFormed, TypeOK
<1>5. Links' /\ next'[b] = in /\ \A e \in Buffers : e # b => next'[e] = next[e]
  BY <1>4 DEF dpipe_put, Links
<1>6. Entries(I) \subseteq Buffers /\ Entries(O) \subseteq Buffers
  BY <1>1, ElementsFinite
<1>7. Linked(next', in', Push(I, b))
  <2>1. \A e \in Entries(I) : next'[e] = next[e]
    BY <1>1, <1>5, <1>6
  <2> QED
    BY <1>1, <1>5, <2>1, LinkFront DEF dpipe_put
<1>8. Linked(next', out', O)
  <2>1. \A e \in Entries(O) : next'[e] = next[e]
    BY <1>1, <1>5, <1>6
  <2> QED
    BY <1>1, <2>1, OtherList DEF dpipe_put
<1>9. taken' = taken \ {b} /\ in_count' = Len(Push(I, b))
  BY <1>2 DEF dpipe_put, Split
<1>10. \A e \in taken' : next'[e] = NULL
  <2>1. taken \subseteq Buffers /\ \A e \in taken : next[e] = NULL
    BY DEF Split
  <2> QED
    BY <1>5, <1>9, <2>1
<1>11. Split(Push(I, b), O)'
  BY <1>1, <1>2, <1>3, <1>7, <1>8, <1>9, <1>10 DEF Split, dpipe_put
<1> QED
  BY <1>5, <1>11

(* dpipe_store links a taken buffer behind the tail of the output list. *)
LEMMA StoreStep ==
  ASSUME Links, NEW I, NEW O, Split(I, O), NEW b \in Buffers, dpipe_store(b)
  PROVE  Links' /\ Split(I, Append(O, b))'
<1>1. I \in Seq(Buffers) /\ O \in Seq(Buffers) /\ Linked(next, in, I) /\ Distinct(O)
      /\ Linked(next, out, O) /\ b \in taken /\ b \notin Entries(I) /\ b \notin Entries(O)
      /\ Entries(I) \cap Entries(O) = {}
  BY DEF Split, dpipe_store
<1>2. /\ Append(O, b) \in Seq(Buffers) /\ Append(O, b) # << >> /\ Len(O) \in Nat
      /\ Len(Append(O, b)) = Len(O) + 1 /\ Append(O, b)[Len(O) + 1] = b
      /\ Entries(Append(O, b)) = Entries(O) \cup {b}
  BY <1>1, PushTail
<1>3. Distinct(Append(O, b))
  BY <1>1, DistinctAppend
<1>4. Entries(I) \subseteq Buffers /\ Entries(O) \subseteq Buffers
  BY <1>1, ElementsFinite
<1>5. out_tail = (IF O = << >> THEN NULL ELSE O[Len(O)])
  BY DEF Split
<1>6. O # << >> => O[Len(O)] \in Entries(O)
  <2>1. O # << >> => Len(O) # 0
    BY <1>1, EmptySeq
  <2>2. O # << >> => Len(O) \in DOMAIN O
    BY <1>1, <1>2, <2>1, LenProperties
  <2> QED
    BY <2>2 DEF Entries
<1>7. /\ Links' /\ next'[b] = NULL
      /\ \A e \in Buffers : e # b /\ e # out_tail => next'[e] = next[e]
      /\ O # << >> => next'[O[Len(O)]] = b
      /\ out' = (IF O = << >> THEN b ELSE out)
  <2>1. CASE O = << >>
    BY <2>1, <1>5 DEF dpipe_store, Links, Pointer
  <2>2. CASE O # << >>
    <3>1. out_tail \in Buffers /\ out_tail # b /\ out_tail # NULL /\ out_tail = O[Len(O)]
      BY <2>2, <1>1, <1>4, <1>5, <1>6, BufferAssumption
    <3>2. next' = [next EXCEPT ![out_tail] = b, ![b] = NULL] /\ out' = out
      BY <3>1 DEF dpipe_store
    <3> QED
      BY <2>2, <3>1, <3>2 DEF Links, Pointer
  <2> QED
    BY <2>1, <2>2
<1>8. Linked(next', in', I)
  <2>1. \A e \in Entries(I) : next'[e] = next[e]
    <3>1. ASSUME NEW e \in Entries(I) PROVE e # b /\ e # out_tail /\ e \in Buffers
      BY <1>1, <1>4, <1>5, <1>6, BufferAssumption
    <3> QED
      BY <3>1, <1>7
  <2> QED
    BY <1>1, <2>1, OtherList DEF dpipe_store
<1>9. Linked(next', out', Append(O, b))
  <2>1. CASE O = << >>
    BY <2>1, <1>7, LinkFirst
  <2>2. CASE O # << >>
    <3>1. \A e \in Entries(O) : e # O[Len(O)] => next'[e] = next[e]
      BY <2>2, <1>1, <1>4, <1>5, <1>7
    <3> QED
      BY <2>2, <3>1, <1>1, <1>7, LinkBack
  <2> QED
    BY <2>1, <2>2
<1>10. /\ taken' = taken \ {b} /\ out_count' = Len(Append(O, b))
       /\ out_tail' = Append(O, b)[Len(Append(O, b))]
  BY <1>2 DEF dpipe_store, Split
<1>11. \A e \in taken' : next'[e] = NULL
  <2>1. taken \subseteq Buffers /\ \A e \in taken : next[e] = NULL
        /\ Entries(O) \cap taken = {}
    BY DEF Split
  <2>2. ASSUME NEW e \in taken, e # b PROVE e # out_tail
    BY <2>1, <1>5, <1>6, BufferAssumption
  <2> QED
    BY <1>7, <1>10, <2>1, <2>2
<1>12. Split(I, Append(O, b))'
  BY <1>1, <1>2, <1>3, <1>8, <1>9, <1>10, <1>11 DEF Split, dpipe_store
<1> QED
  BY <1>7, <1>12

(* Every critical section leaves two lists behind. *)
LEMMA Step == IInv /\ [Next]_vars => IInv'
<1> SUFFICES ASSUME IInv, [Next]_vars PROVE IInv'
  OBVIOUS
<1>1. Links
  BY DEF IInv
<1>2. PICK I, O : Split(I, O)
  BY DEF IInv
<1>3. CASE dpipe_get
  BY <1>1, <1>2, <1>3, GetStep DEF IInv
<1>4. CASE TakeOut
  BY <1>1, <1>2, <1>4, LoadStep DEF IInv
<1>5. ASSUME NEW b \in Buffers, dpipe_put(b) PROVE IInv'
  BY <1>1, <1>2, <1>5, PutStep DEF IInv
<1>6. ASSUME NEW b \in Buffers, dpipe_store(b) PROVE IInv'
  BY <1>1, <1>2, <1>6, StoreStep DEF IInv
<1>7. CASE UNCHANGED vars
  <2>1. Links' /\ Split(I, O)'
    BY <1>1, <1>2, <1>7 DEF Links, Split, vars
  <2> QED
    BY <2>1 DEF IInv
<1> QED
  BY <1>3, <1>4, <1>5, <1>6, <1>7 DEF Next, dpipe_load, dpipe_get_stopped

(* The inductive invariant holds at all times. *)
LEMMA Inductive == Spec => []IInv
<1>1. Init => IInv
  BY Initially DEF IInv
<1> QED
  BY <1>1, Step, PTL DEF Spec

(* For any number of buffers and in any order of the calls, the counters,   *)
(* the heads and the tail pointer of dpipe_t agree with the two lists after *)
(* every critical section, the lists and the taken buffers partition the    *)
(* buffers, and a taken buffer is linked to nothing.                        *)
THEOREM ListsCorrect == Spec => []ListsWellFormed
<1>1. IInv => ListsWellFormed
  BY SplitWellFormed DEF IInv
<1> QED
  BY <1>1, Inductive, PTL

-----------------------------------------------------------------------------
(* The lists implement FramePools. *)

(* A new pipe is a pool with all its buffers free. *)
LEMMA PoolsInit == Init => Pools!Init
<1> SUFFICES ASSUME Init PROVE Pools!Init
  OBVIOUS
<1>1. Links
  BY Initially
<1>2. PICK I : Split(I, << >>) /\ Entries(I) = Buffers
  BY Initially
<1>3. ListAt(next, in) = I /\ ListAt(next, out) = << >>
  BY <1>1, <1>2, SplitWellFormed
<1>4. I \in Seq(Buffers) /\ Distinct(I) /\ DOMAIN I = 1 .. Len(I)
  BY <1>2, LenProperties DEF Split
<1>5. taken = {}
  BY DEF Init
<1>6. \A b \in Buffers : \E i \in 1 .. Len(I) : I[i] = b
  BY <1>2, <1>4 DEF Entries
<1> QED
  BY <1>3, <1>4, <1>5, <1>6 DEF Pools!Init, Distinct

(* Every critical section is a step of the pools. *)
LEMMA PoolsStep == IInv /\ [Next]_vars => [Pools!Next]_(Pools!poolVars)
<1> SUFFICES ASSUME IInv, [Next]_vars PROVE [Pools!Next]_(Pools!poolVars)
  OBVIOUS
<1>1. Links
  BY DEF IInv
<1>2. PICK I, O : Split(I, O)
  BY DEF IInv
<1>3. ListAt(next, in) = I /\ ListAt(next, out) = O
  BY <1>1, <1>2, SplitWellFormed
<1>4. ASSUME NEW J, NEW P, Links', Split(J, P)'
      PROVE  ListAt(next', in') = J /\ ListAt(next', out') = P
  BY <1>4, ListFound DEF Split
<1>5. CASE dpipe_get
  <2>1. I # << >> /\ taken' = taken \cup {Head(I)} /\ Links' /\ Split(Tail(I), O)'
    BY <1>1, <1>2, <1>5, GetStep
  <2>2. ListAt(next', in') = Tail(I) /\ ListAt(next', out') = O
    BY <2>1, <1>4
  <2>3. Pools!TakeFree
    BY <2>1, <2>2, <1>3 DEF Pools!TakeFree
  <2> QED
    BY <2>3 DEF Pools!Next
<1>6. CASE TakeOut
  <2>1. O # << >> /\ taken' = taken \cup {Head(O)} /\ Links' /\ Split(I, Tail(O))'
    BY <1>1, <1>2, <1>6, LoadStep
  <2>2. ListAt(next', in') = I /\ ListAt(next', out') = Tail(O)
    BY <2>1, <1>4
  <2>3. Pools!TakeEldest
    BY <2>1, <2>2, <1>3 DEF Pools!TakeEldest
  <2> QED
    BY <2>3 DEF Pools!Next
<1>7. ASSUME NEW b \in Buffers, dpipe_put(b) PROVE Pools!Next
  <2>1. Links' /\ Split(Push(I, b), O)'
    BY <1>1, <1>2, <1>7, PutStep
  <2>2. ListAt(next', in') = <<b>> \o I /\ ListAt(next', out') = O
    BY <2>1, <1>4 DEF Push
  <2>3. Pools!GiveBack(b)
    BY <2>2, <1>3, <1>7 DEF Pools!GiveBack, dpipe_put
  <2> QED
    BY <2>3 DEF Pools!Next
<1>8. ASSUME NEW b \in Buffers, dpipe_store(b) PROVE Pools!Next
  <2>1. Links' /\ Split(I, Append(O, b))'
    BY <1>1, <1>2, <1>8, StoreStep
  <2>2. ListAt(next', in') = I /\ ListAt(next', out') = Append(O, b)
    BY <2>1, <1>4
  <2>3. Pools!Enqueue(b)
    BY <2>2, <1>3, <1>8 DEF Pools!Enqueue, dpipe_store
  <2> QED
    BY <2>3 DEF Pools!Next
<1>9. CASE UNCHANGED vars
  BY <1>9 DEF vars, Pools!poolVars
<1> QED
  BY <1>5, <1>6, <1>7, <1>8, <1>9 DEF Next, dpipe_load, dpipe_get_stopped

(* The pointer code of dpipe.cpp, its tail pointer included, is the stack   *)
(* of free buffers and the FIFO of stored ones, for any number of buffers.  *)
THEOREM Refinement == Spec => ImplementsFramePools
<1>1. Spec => Pools!Spec
  BY Inductive, PoolsInit, PoolsStep, PTL DEF Spec, Pools!Spec
<1> QED
  BY <1>1 DEF ImplementsFramePools
=============================================================================
