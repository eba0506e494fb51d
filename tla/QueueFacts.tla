----------------------------- MODULE QueueFacts -----------------------------
(***************************************************************************)
(* Facts about queues kept as sequences, free lists, counted sets, least   *)
(* elements and remainders that the proofs about the components share.     *)
(* Nothing here is about the program.                                      *)
(***************************************************************************)
EXTENDS Integers, Sequences, FiniteSets, FiniteSetTheorems, SequenceTheorems,
        WellFoundedInduction, TLAPS

(* What is in a queue. *)
Entries(s) == {s[i] : i \in DOMAIN s}

(* What taking the head does to a queue. *)
LEMMA PopHead ==
  ASSUME NEW S, NEW s \in Seq(S), s # << >>
  PROVE  /\ Head(s) \in S /\ Tail(s) \in Seq(S)
         /\ Len(s) \in Nat \ {0} /\ Len(Tail(s)) = Len(s) - 1
         /\ Head(s) = s[1]
         /\ \A i \in 1 .. Len(s) - 1 : Tail(s)[i] = s[i + 1]
         /\ Entries(s) = Entries(Tail(s)) \cup {Head(s)}
<1>1. /\ Head(s) \in S /\ Tail(s) \in Seq(S)
      /\ Len(Tail(s)) = Len(s) - 1
      /\ \A i \in 1 .. Len(Tail(s)) : Tail(s)[i] = s[i + 1]
  BY HeadTailProperties
<1>2. Len(s) \in Nat \ {0} /\ Head(s) = s[1] /\ DOMAIN s = 1 .. Len(s)
  BY EmptySeq, LenProperties
<1>3. DOMAIN Tail(s) = 1 .. Len(s) - 1
  BY <1>1, LenProperties
<1>4. ASSUME NEW i \in 1 .. Len(s)
      PROVE  s[i] \in {Tail(s)[j] : j \in DOMAIN Tail(s)} \cup {Head(s)}
  <2>1. CASE i = 1
    BY <2>1, <1>2
  <2>2. CASE i # 1
    <3>1. i - 1 \in 1 .. Len(s) - 1 /\ Tail(s)[i - 1] = s[i]
      BY <2>2, <1>1, <1>2
    <3> QED
      BY <3>1, <1>3
  <2> QED
    BY <2>1, <2>2
<1>5. ASSUME NEW i \in 1 .. Len(s) - 1
      PROVE  Tail(s)[i] \in {s[j] : j \in DOMAIN s}
  <2>1. i + 1 \in 1 .. Len(s) /\ Tail(s)[i] = s[i + 1]
    BY <1>1, <1>2
  <2> QED
    BY <2>1, <1>2
<1>6. Head(s) \in {s[j] : j \in DOMAIN s}
  BY <1>2
<1> QED
  BY <1>1, <1>2, <1>3, <1>4, <1>5, <1>6 DEF Entries

(* What appending does to a queue. *)
LEMMA PushTail ==
  ASSUME NEW S, NEW s \in Seq(S), NEW b \in S
  PROVE  /\ Append(s, b) \in Seq(S) /\ Append(s, b) # << >>
         /\ Len(s) \in Nat /\ Len(Append(s, b)) = Len(s) + 1
         /\ \A i \in 1 .. Len(s) : Append(s, b)[i] = s[i]
         /\ Append(s, b)[Len(s) + 1] = b
         /\ Entries(Append(s, b)) = Entries(s) \cup {b}
<1> DEFINE a == Append(s, b)
<1>1. /\ a \in Seq(S)
      /\ Len(a) = Len(s) + 1
      /\ \A i \in 1 .. Len(s) : a[i] = s[i]
      /\ a[Len(s) + 1] = b
      /\ Len(s) \in Nat
  BY AppendProperties, LenProperties
<1>2. DOMAIN a = 1 .. Len(s) + 1 /\ DOMAIN s = 1 .. Len(s)
  BY <1>1, LenProperties
<1>3. a # << >>
  BY <1>1, EmptySeq
<1> HIDE DEF a
<1>4. \A i \in 1 .. Len(s) + 1 : i \in 1 .. Len(s) \/ i = Len(s) + 1
  BY <1>1
<1>5. Entries(a) = Entries(s) \cup {b}
  BY <1>1, <1>2, <1>4 DEF Entries
<1> QED
  BY <1>1, <1>3, <1>5 DEF a

(* A queue used as a stack: what pushing does to it. *)
Push(s, b) == <<b>> \o s

(* Pushing on a stack (<<b>> \o s) adds one element and one entry. *)
LEMMA PushFront ==
  ASSUME NEW S, NEW s \in Seq(S), NEW b \in S
  PROVE  /\ Push(s, b) \in Seq(S) /\ Push(s, b) # << >>
         /\ Len(s) \in Nat /\ Len(Push(s, b)) = Len(s) + 1
         /\ Entries(Push(s, b)) = Entries(s) \cup {b}
<1> DEFINE a == Push(s, b)
<1>1. <<b>> \in Seq(S) /\ Len(<<b>>) = 1 /\ <<b>>[1] = b
  OBVIOUS
<1>2. /\ a \in Seq(S)
      /\ Len(a) = 1 + Len(s)
      /\ \A i \in 1 .. 1 + Len(s) : a[i] = IF i <= 1 THEN <<b>>[i] ELSE s[i - 1]
  BY <1>1, ConcatProperties DEF Push
<1>3. Len(s) \in Nat /\ DOMAIN s = 1 .. Len(s) /\ DOMAIN a = 1 .. Len(a)
  BY <1>2, LenProperties
<1> HIDE DEF a
<1>4. a[1] = b /\ 1 \in DOMAIN a
  BY <1>1, <1>2, <1>3
<1>5. \A i \in 1 .. Len(s) : i + 1 \in DOMAIN a /\ a[i + 1] = s[i]
  BY <1>2, <1>3
<1>6. \A i \in DOMAIN a : i = 1 \/ (i - 1 \in 1 .. Len(s) /\ a[i] = s[i - 1])
  BY <1>2, <1>3
<1>7. Entries(a) = Entries(s) \cup {b}
  BY <1>3, <1>4, <1>5, <1>6 DEF Entries
<1>8. a \in Seq(S) /\ a # << >> /\ Len(s) \in Nat /\ Len(a) = Len(s) + 1
  BY <1>2, <1>3, <1>4
<1> QED
  BY <1>7, <1>8 DEF a

(* A queue has at least as many places as it has different elements. *)
LEMMA ElementsFinite ==
  ASSUME NEW S, NEW s \in Seq(S)
  PROVE  /\ IsFiniteSet(Entries(s))
         /\ Cardinality(Entries(s)) <= Len(s)
         /\ Cardinality(Entries(s)) \in Nat
         /\ Entries(s) \subseteq S
         /\ Len(s) \in Nat
<1> DEFINE T == {s[i] : i \in DOMAIN s}
           f == [i \in 1 .. Len(s) |-> s[i]]
<1>1. Len(s) \in Nat /\ DOMAIN s = 1 .. Len(s) /\ T \subseteq S
  BY LenProperties, ElementOfSeq
<1>2. f \in Surjection(1 .. Len(s), T)
  BY <1>1 DEF Surjection
<1>3. IsFiniteSet(1 .. Len(s)) /\ Cardinality(1 .. Len(s)) = Len(s)
  BY <1>1, FS_Interval
<1>4. IsFiniteSet(T) /\ Cardinality(T) <= Len(s)
  BY <1>2, <1>3, FS_Surjection
<1> QED
  BY <1>1, <1>4, FS_CardinalityType DEF Entries

(* A finite set has an enumeration, which has its length. *)
LEMMA Enumeration ==
  ASSUME NEW S, IsFiniteSet(S)
  PROVE  /\ \E s \in [1 .. Cardinality(S) -> S] : \A b \in S : \E i \in DOMAIN s : s[i] = b
         /\ \A s \in [1 .. Cardinality(S) -> S] : s \in Seq(S) /\ Len(s) = Cardinality(S)
<1>1. Cardinality(S) \in Nat /\ ExistsBijection(1 .. Cardinality(S), S)
  BY FS_CardinalityType
<1>2. PICK s : s \in Bijection(1 .. Cardinality(S), S)
  BY <1>1 DEF ExistsBijection
<1>3. s \in [1 .. Cardinality(S) -> S] /\ \A b \in S : \E i \in 1 .. Cardinality(S) : s[i] = b
  BY <1>2 DEF Bijection, Surjection, Injection
<1> QED
  BY <1>1, <1>3

(* How many of the members of T have a value in P *)
CountIn(f, T, P) == Cardinality({x \in T : f[x] \in P})

(* What the change of one value does to the number. *)
LEMMA CountOne ==
  ASSUME NEW T, IsFiniteSet(T), NEW c \in T, NEW f, NEW g, NEW P,
         \A x \in T \ {c} : g[x] = f[x]
  PROVE  /\ CountIn(f, T, P) \in Nat /\ CountIn(g, T, P) \in Nat
         /\ f[c] \in P /\ g[c] \in P => CountIn(g, T, P) = CountIn(f, T, P)
         /\ f[c] \notin P /\ g[c] \notin P => CountIn(g, T, P) = CountIn(f, T, P)
         /\ f[c] \in P /\ g[c] \notin P => CountIn(g, T, P) = CountIn(f, T, P) - 1
         /\ f[c] \notin P /\ g[c] \in P => CountIn(g, T, P) = CountIn(f, T, P) + 1
<1> DEFINE F == {x \in T : f[x] \in P}
           G == {x \in T : g[x] \in P}
           R == {x \in T \ {c} : f[x] \in P}
<1>1. R \subseteq T /\ F \subseteq T /\ G \subseteq T /\ c \notin R
  OBVIOUS
<1>2. /\ F = (IF f[c] \in P THEN R \cup {c} ELSE R)
      /\ G = (IF g[c] \in P THEN R \cup {c} ELSE R)
  OBVIOUS
<1>3. IsFiniteSet(R)
  BY <1>1, FS_Subset
<1>4. Cardinality(R) \in Nat /\ Cardinality(R \cup {c}) = Cardinality(R) + 1
  BY <1>1, <1>3, FS_CardinalityType, FS_AddElement
<1> HIDE DEF F, G, R
<1>5. CountIn(f, T, P) = Cardinality(F) /\ CountIn(g, T, P) = Cardinality(G)
  BY DEF CountIn, F, G
<1> QED
  BY <1>2, <1>4, <1>5

(* Every non-empty set of numbers has a least element: what the proofs use  *)
(* for induction.                                                           *)
LEMMA LeastNumber ==
  ASSUME NEW T \in SUBSET Nat, T # {}
  PROVE  \E x \in T : \A y \in T : x <= y
<1> DEFINE R == OpToRel(<, Nat)
<1>1. IsWellFoundedOn(R, Nat)
  BY NatLessThanWellFounded
<1>2. \A x, y \in Nat : y < x => <<y, x>> \in R
  BY DEF OpToRel
<1> HIDE DEF R
<1>3. PICK x \in T : \A y \in T : ~(<<y, x>> \in R)
  BY <1>1, WFMin
<1>4. ASSUME NEW y \in T PROVE x <= y
  <2>1. x \in Nat /\ y \in Nat /\ ~(y < x)
    BY <1>2, <1>3
  <2> QED
    BY <2>1
<1> QED
  BY <1>3, <1>4

-----------------------------------------------------------------------------
(* Quotients and remainders. *)

(* Division with remainder. *)
LEMMA DivMod ==
  ASSUME NEW a \in Int, NEW n \in Nat \ {0}
  PROVE  /\ a \div n \in Int /\ a % n \in 0 .. n - 1
         /\ a = (a \div n) * n + (a % n)
  OBVIOUS

(* Multiplication keeps the order. *)
LEMMA FactorLess ==
  ASSUME NEW a \in Int, NEW b \in Int, NEW n \in Nat, a <= b
  PROVE  a * n <= b * n
  OBVIOUS

(* A number has one quotient and one remainder. *)
LEMMA DigitsUnique ==
  ASSUME NEW n \in Nat \ {0}, NEW a \in Int, NEW b \in Int, NEW r \in 0 .. n - 1, NEW q \in 0 .. n - 1,
         a * n + r = b * n + q
  PROVE  a = b /\ r = q
<1>1. ~(a < b)
  <2> SUFFICES ASSUME a + 1 <= b PROVE FALSE
    OBVIOUS
  <2>1. (a + 1) * n <= b * n
    BY FactorLess
  <2>2. (a + 1) * n = a * n + n
    OBVIOUS
  <2> QED
    BY <2>1, <2>2
<1>2. ~(b < a)
  <2> SUFFICES ASSUME b + 1 <= a PROVE FALSE
    OBVIOUS
  <2>1. (b + 1) * n <= a * n
    BY FactorLess
  <2>2. (b + 1) * n = b * n + n
    OBVIOUS
  <2> QED
    BY <2>1, <2>2
<1> QED
  BY <1>1, <1>2

(* Quotient and remainder of a number that is given by them. *)
LEMMA DivModOf ==
  ASSUME NEW n \in Nat \ {0}, NEW a \in Int, NEW r \in 0 .. n - 1
  PROVE  (a * n + r) \div n = a /\ (a * n + r) % n = r
<1>1. PICK x \in Int : x = a * n + r
  OBVIOUS
<1>2. /\ x \div n \in Int /\ x % n \in 0 .. n - 1
      /\ x = (x \div n) * n + (x % n)
  BY DivMod
<1> QED
  BY <1>1, <1>2, DigitsUnique

(* The numbers with a quotient between a and b. *)
LEMMA QuotientIn ==
  ASSUME NEW n \in Nat \ {0}, NEW a \in Int, NEW b \in Int, NEW i \in Int
  PROVE  i \in a * n .. b * n - 1 <=> i \div n \in a .. b - 1
<1>1. PICK q \in Int, r \in 0 .. n - 1 : q = i \div n /\ i = q * n + r
  BY DivMod
<1>2. a * n \in Int /\ b * n \in Int /\ q * n \in Int /\ (q + 1) * n = q * n + n
  OBVIOUS
<1>3. CASE a <= q /\ q + 1 <= b
  <2>1. a * n <= q * n /\ (q + 1) * n <= b * n
    BY <1>3, FactorLess
  <2> QED
    BY <1>1, <1>2, <1>3, <2>1
<1>4. CASE q + 1 <= a
  <2>1. (q + 1) * n <= a * n
    BY <1>4, FactorLess
  <2> QED
    BY <1>1, <1>2, <1>4, <2>1
<1>5. CASE b <= q
  <2>1. b * n <= q * n
    BY <1>5, FactorLess
  <2> QED
    BY <1>1, <1>2, <1>5, <2>1
<1> QED
  BY <1>3, <1>4, <1>5

(* The numbers with quotient q and a remainder between a and b. *)
LEMMA RemainderIn ==
  ASSUME NEW n \in Nat \ {0}, NEW q \in Int, NEW a \in Nat, NEW b \in Nat, b <= n, NEW i \in Int
  PROVE  i \in q * n + a .. q * n + b - 1 <=> i \div n = q /\ i % n \in a .. b - 1
<1>1. PICK p \in Int, r \in 0 .. n - 1 : p = i \div n /\ r = i % n /\ i = p * n + r
  BY DivMod
<1>2. p * n \in Int /\ q * n \in Int
  OBVIOUS
<1>3. CASE p = q
  BY <1>1, <1>2, <1>3
<1>4. CASE p # q
  <2>1. i \in q * n .. (q + 1) * n - 1 <=> p \in q .. q + 1 - 1
    BY <1>1, QuotientIn
  <2>2. (q + 1) * n = q * n + n
    OBVIOUS
  <2> QED
    BY <1>1, <1>2, <1>4, <2>1, <2>2
<1> QED
  BY <1>3, <1>4

(* Row a of m and place r of n in it are a place below m * n ... *)
LEMMA DigitsBelow ==
  ASSUME NEW n \in Nat \ {0}, NEW m \in Nat, NEW a \in 0 .. m - 1, NEW r \in 0 .. n - 1
  PROVE  a * n + r \in 0 .. m * n - 1
<1>1. (a + 1) * n <= m * n /\ 0 * n <= a * n
  BY FactorLess
<1>2. (a + 1) * n = a * n + n /\ 0 * n = 0
  OBVIOUS
<1>3. a * n \in Int /\ m * n \in Int
  OBVIOUS
<1> QED
  BY <1>1, <1>2, <1>3

(* ... and such a place is in one of the m rows. *)
LEMMA DigitsOf ==
  ASSUME NEW n \in Nat \ {0}, NEW m \in Nat, NEW x \in 0 .. m * n - 1
  PROVE  x \div n \in 0 .. m - 1
<1>1. /\ x \div n \in Int /\ x % n \in 0 .. n - 1
      /\ x = (x \div n) * n + (x % n)
  BY DivMod
<1>2. PICK a \in Int : a = x \div n
  BY <1>1
<1>3. ~(m <= a)
  <2> SUFFICES ASSUME m <= a PROVE FALSE
    OBVIOUS
  <2>1. m * n <= a * n
    BY FactorLess
  <2>2. a * n \in Int /\ m * n \in Int
    OBVIOUS
  <2> QED
    BY <2>1, <2>2, <1>1, <1>2
<1>4. ~(a + 1 <= 0)
  <2> SUFFICES ASSUME a + 1 <= 0 PROVE FALSE
    OBVIOUS
  <2>1. (a + 1) * n <= 0 * n
    BY FactorLess
  <2>2. (a + 1) * n = a * n + n /\ 0 * n = 0 /\ a * n \in Int
    OBVIOUS
  <2> QED
    BY <2>1, <2>2, <1>1, <1>2
<1> QED
  BY <1>2, <1>3, <1>4

(* Place r of row a, with n places in a row, and the places of m rows.  The *)
(* lemmas below say of rows what those above say of numbers.                *)
RowAt(a, n, r) == a * n + r
InRows(x, m, n) == x \in 0 .. m * n - 1

(* A place is a number, *)
LEMMA RowType ==
  ASSUME NEW n \in Int, NEW a \in Int, NEW r \in Int
  PROVE  RowAt(a, n, r) \in Int
  BY DEF RowAt

(* of a row, *)
LEMMA RowBelow ==
  ASSUME NEW n \in Nat \ {0}, NEW m \in Nat, NEW a \in 0 .. m - 1, NEW r \in 0 .. n - 1
  PROVE  InRows(RowAt(a, n, r), m, n)
  BY DigitsBelow DEF RowAt, InRows

(* of one row only, *)
LEMMA RowUnique ==
  ASSUME NEW n \in Nat \ {0}, NEW a \in Int, NEW b \in Int, NEW r \in 0 .. n - 1, NEW q \in 0 .. n - 1,
         RowAt(a, n, r) = RowAt(b, n, q)
  PROVE  a = b /\ r = q
  BY DigitsUnique DEF RowAt

(* which division finds, *)
LEMMA RowDivMod ==
  ASSUME NEW n \in Nat \ {0}, NEW a \in Int, NEW r \in 0 .. n - 1
  PROVE  RowAt(a, n, r) \div n = a /\ RowAt(a, n, r) % n = r
  BY DivModOf DEF RowAt

(* and every place is one of a row. *)
LEMMA RowOf ==
  ASSUME NEW n \in Nat \ {0}, NEW m \in Nat, NEW x \in Int, InRows(x, m, n)
  PROVE  \E a \in 0 .. m - 1, r \in 0 .. n - 1 : x = RowAt(a, n, r)
<1>1. x \in 0 .. m * n - 1
  BY DEF InRows
<1>2. x \div n \in 0 .. m - 1
  BY <1>1, DigitsOf
<1>3. x % n \in 0 .. n - 1 /\ x = (x \div n) * n + (x % n)
  BY DivMod
<1>4. x = RowAt(x \div n, n, x % n)
  BY <1>3 DEF RowAt
<1> QED
  BY <1>2, <1>3, <1>4

=============================================================================
