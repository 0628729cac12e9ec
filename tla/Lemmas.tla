-------------------------------- MODULE Lemmas --------------------------------
(***************************************************************************)
(* Facts that the proofs of several components use: remainders, the rings  *)
(* of P cells whose counters wrap around at a multiple of P (the one of a  *)
(* pipe and that of the console's input), and sums over finite sets.       *)
(* What the recursion behind a sum computes is proved by induction, in the *)
(* form that a set of naturals has a least element.                        *)
(***************************************************************************)
EXTENDS Integers, Functions, FiniteSetTheorems, SequenceTheorems, WellFoundedInduction, TLAPS

-----------------------------------------------------------------------------
(* remainders *)

\* a % P is the remainder of the division.
LEMMA DivMod ==
  ASSUME NEW P \in Nat \ {0}, NEW a \in Int
  PROVE  a \div P \in Int /\ a % P \in 0..P-1 /\ a = (P * (a \div P)) + (a % P)
  OBVIOUS

\* Two remainders do not differ by a multiple of P.
LEMMA Multiple ==
  ASSUME NEW P \in Nat \ {0}, NEW k \in Int, NEW r \in 0..P-1, NEW s \in 0..P-1, r - s = P * k
  PROVE  k = 0 /\ r = s
  <1>1. ASSUME k >= 1 PROVE P * k >= P
    BY <1>1
  <1>2. ASSUME k <= -1 PROVE P * k <= -P
    BY <1>2
  <1>. QED  BY <1>1, <1>2

\* Numbers that differ by a multiple of P have the same remainder.
LEMMA SameResidue ==
  ASSUME NEW P \in Nat \ {0}, NEW a \in Int, NEW b \in Int, NEW k \in Int, a - b = P * k
  PROVE  a % P = b % P
  <1>. DEFINE x == a \div P
              y == b \div P
              r == a % P
              s == b % P
  <1>1. a = (P * x) + r /\ x \in Int /\ r \in 0..P-1
    BY DivMod
  <1>2. b = (P * y) + s /\ y \in Int /\ s \in 0..P-1
    BY DivMod
  <1>. HIDE DEF x, y, r, s
  <1>3. r - s = P * ((k - x) + y)
    BY <1>1, <1>2
  <1>4. r = s
    BY <1>1, <1>2, <1>3, Multiple
  <1>. QED  BY <1>4 DEF r, s

\* In a window of P numbers all remainders are different.
LEMMA Window ==
  ASSUME NEW P \in Nat \ {0}, NEW a \in Int, NEW b \in Int, a % P = b % P, a - b \in 0..P-1
  PROVE  a = b
  <1>. DEFINE x == a \div P
              y == b \div P
  <1>1. a = (P * x) + (a % P) /\ x \in Int /\ (a % P) \in 0..P-1
    BY DivMod
  <1>2. b = (P * y) + (b % P) /\ y \in Int
    BY DivMod
  <1>. HIDE DEF x, y
  <1>3. a - b = P * (x - y)
    BY <1>1, <1>2
  <1>. QED  BY <1>3, Multiple

\* Adding a multiple of P, such as a ring counter's modulus, changes no remainder.
LEMMA Wraps ==
  ASSUME NEW P \in Nat \ {0}, NEW M \in Nat, M % P = 0, NEW a \in Int
  PROVE  (a + M) % P = a % P
  <1>. DEFINE k == M \div P
  <1>1. M = P * k /\ k \in Int
    BY DivMod
  <1>. HIDE DEF k
  <1>2. (a + M) - a = P * k /\ a + M \in Int
    BY <1>1
  <1>3. k \in Int
    BY <1>1
  <1>. QED  BY <1>2, <1>3, SameResidue, Zenon

\* The sum of two counters modulo M.
LEMMA Plus ==
  ASSUME NEW M \in Nat \ {0}, NEW a \in 0..M-1, NEW b \in 0..M
  PROVE  (a + b) % M = IF a + b < M THEN a + b ELSE a + b - M
  <1>1. CASE a + b < M
    BY <1>1
  <1>2. CASE a + b >= M
    <2>1. a + b - M \in 0..M-1 /\ (a + b - M) + M = a + b /\ M % M = 0 /\ a + b - M \in Int /\ M \in Nat
      BY <1>2
    <2>2. ((a + b - M) + M) % M = (a + b - M) % M
      BY <2>1, Wraps, Zenon
    <2>. QED  BY <1>2, <2>1, <2>2
  <1>. QED  BY <1>1, <1>2

\* The difference of two counters modulo M.
LEMMA Difference ==
  ASSUME NEW M \in Nat \ {0}, NEW a \in 0..M-1, NEW b \in 0..M-1
  PROVE  (a - b) % M = IF a >= b THEN a - b ELSE a - b + M
  OBVIOUS

-----------------------------------------------------------------------------
(* what the cells hold *)

\* counters modulo M can count the cells of a ring of P
Fits(P, M) == P \in Nat \ {0} /\ M \in Nat /\ M % P = 0

\* b is a ring of P cells for the elements of S
IsRing(S, P, b) == P \in Nat \ {0} /\ b \in [0..P-1 -> S]

\* the m cells of ring b from counter value i on
Span(P, b, i, m) == [k \in 1..m |-> b[(i + k - 1) % P]]

\* d is b with c put into the cell after the m cells from i on
Puts(S, P, b, i, m, c, d) ==
  IsRing(S, P, b) /\ i \in Int /\ m \in 0..P-1 /\ c \in S /\ d = [b EXCEPT ![(i + m) % P] = c]

\* h cells from j on follow m cells from i on; together they are g cells
Adjacent(i, m, j, h, g) == i \in Int /\ m \in Nat /\ h \in Nat /\ j = i + m /\ g = m + h

\* A span is a sequence of what is in the cells.
LEMMA SpanSeq ==
  ASSUME NEW S, NEW P, NEW b, IsRing(S, P, b), NEW i \in Int, NEW m \in Nat
  PROVE  /\ Span(P, b, i, m) \in Seq(S)
         /\ Len(Span(P, b, i, m)) = m
         /\ \A k \in 1..m : Span(P, b, i, m)[k] = b[(i + k - 1) % P]
  <1>1. ASSUME NEW k \in 1..m PROVE b[(i + k - 1) % P] \in S
    <2>1. (i + k - 1) % P \in 0..P-1
      BY DEF IsRing
    <2>. QED  BY <2>1 DEF IsRing
  <1>2. Span(P, b, i, m) \in [1..m -> S]
    BY <1>1 DEF Span
  <1>3. Span(P, b, i, m) \in Seq(S)
    BY <1>2, SeqDef
  <1>4. Len(Span(P, b, i, m)) = m
    BY <1>2, <1>3, LenProperties
  <1>. QED  BY <1>3, <1>4 DEF Span

\* Counter values that differ by a multiple of P start the same span.
LEMMA SpanShift ==
  ASSUME NEW P, NEW M, Fits(P, M), NEW b, NEW i \in Int, NEW m \in Nat
  PROVE  Span(P, b, i + M, m) = Span(P, b, i, m)
  <1>1. ASSUME NEW k \in 1..m PROVE (i + M + k - 1) % P = (i + k - 1) % P
    <2>1. i + k - 1 \in Int /\ i + M + k - 1 = (i + k - 1) + M
      BY DEF Fits
    <2>2. ((i + k - 1) + M) % P = (i + k - 1) % P
      BY <2>1, Wraps, Zenon DEF Fits
    <2>. QED  BY <2>1, <2>2, Zenon
  <1>. QED  BY <1>1, Zenon DEF Span

\* Writing the cell after a span that does not fill the ring leaves it alone ...
LEMMA SpanKept ==
  ASSUME NEW S, NEW P, NEW b, NEW i, NEW m, NEW c, NEW d, Puts(S, P, b, i, m, c, d)
  PROVE  Span(P, d, i, m) = Span(P, b, i, m)
  <1>. USE DEF Puts
  <1>1. ASSUME NEW k \in 1..m PROVE d[(i + k - 1) % P] = b[(i + k - 1) % P]
    <2>1. /\ (i + m) - (i + k - 1) \in 0..P-1 /\ i + m # i + k - 1
          /\ i + m \in Int /\ i + k - 1 \in Int /\ P \in Nat \ {0}
      BY DEF IsRing
    <2>2. (i + k - 1) % P # (i + m) % P
      BY <2>1, Window, Zenon
    <2>3. (i + k - 1) % P \in 0..P-1
      BY <2>1
    <2>. QED  BY <2>2, <2>3 DEF IsRing
  <1>. QED  BY <1>1 DEF Span

\* ... and makes it longer.
LEMMA SpanAppend ==
  ASSUME NEW S, NEW P, NEW b, NEW i, NEW m, NEW c, NEW d, Puts(S, P, b, i, m, c, d)
  PROVE  Span(P, d, i, m + 1) = Append(Span(P, b, i, m), c)
  <1>. DEFINE s == Span(P, b, i, m)
  <1>0. IsRing(S, P, b) /\ c \in S /\ i \in Int
    BY DEF Puts
  <1>1. P \in Nat \ {0} /\ m \in Nat /\ m + 1 \in Nat /\ (i + m) % P \in 0..P-1
    BY DEF IsRing, Puts
  <1>2. IsRing(S, P, d) /\ d[(i + m) % P] = c
    BY <1>1 DEF IsRing, Puts
  <1>3. s = Span(P, d, i, m)
    BY SpanKept
  <1>4. s \in Seq(S) /\ Len(s) = m
    BY <1>0, <1>1, SpanSeq
  <1>5. \A k \in 1..m : Span(P, d, i, m)[k] = d[(i + k - 1) % P]
    BY <1>1 DEF Span
  <1>. HIDE DEF s
  <1>6. /\ Append(s, c) \in Seq(S) /\ Len(Append(s, c)) = m + 1
        /\ (\A k \in 1..m : Append(s, c)[k] = s[k]) /\ Append(s, c)[m + 1] = c
    BY <1>0, <1>1, <1>4, AppendProperties
  <1>7. ASSUME NEW k \in 1..m+1 PROVE Append(s, c)[k] = d[(i + k - 1) % P]
    <2>1. CASE k = m + 1
      <3>1. i + k - 1 = i + m
        BY <1>0, <1>1, <2>1
      <3>. QED  BY <3>1, <2>1, <1>2, <1>6
    <2>2. CASE k # m + 1
      <3>1. k \in 1..m
        BY <1>1, <2>2
      <3>. QED  BY <3>1, <1>3, <1>5, <1>6, Zenon
    <2>. QED  BY <2>1, <2>2
  <1>8. Append(s, c) = Span(P, d, i, m + 1)
    <2>1. Append(s, c) = [k \in 1..m+1 |-> Append(s, c)[k]]
      BY <1>6, LenProperties
    <2>. QED  BY <2>1, <1>7 DEF Span
  <1>. QED  BY <1>8 DEF s

\* Reading the first cell of a span leaves the rest of it.
LEMMA SpanTake ==
  ASSUME NEW S, NEW P, NEW b, IsRing(S, P, b), NEW i \in Int, NEW m \in Nat \ {0}
  PROVE  /\ Span(P, b, i, m) # <<>>
         /\ Head(Span(P, b, i, m)) = b[i % P]
         /\ Tail(Span(P, b, i, m)) = Span(P, b, i + 1, m - 1)
  <1>. DEFINE s == Span(P, b, i, m)
  <1>1. m \in Nat /\ i + 1 \in Int /\ m - 1 \in Nat
    OBVIOUS
  <1>2. s \in Seq(S) /\ Len(s) = m /\ \A k \in 1..m : s[k] = b[(i + k - 1) % P]
    BY <1>1, SpanSeq
  <1>. HIDE DEF s
  <1>3. s # <<>>
    BY <1>2
  <1>4. Head(s) = s[1]
    BY <1>2, <1>3
  <1>5. s[1] = b[i % P]
    <2>1. 1 \in 1..m /\ i + 1 - 1 = i
      OBVIOUS
    <2>2. s[1] = b[(i + 1 - 1) % P]
      BY <1>2, <2>1, Zenon
    <2>. QED  BY <2>1, <2>2, Zenon
  <1>6. Tail(s) \in Seq(S) /\ Len(Tail(s)) = m - 1 /\ \A k \in 1..m-1 : Tail(s)[k] = s[k + 1]
    BY <1>2, <1>3, HeadTailProperties
  <1>7. ASSUME NEW k \in 1..m-1 PROVE Tail(s)[k] = b[(i + 1 + k - 1) % P]
    <2>1. k + 1 \in 1..m /\ i + (k + 1) - 1 = i + 1 + k - 1
      OBVIOUS
    <2>2. s[k + 1] = b[(i + (k + 1) - 1) % P]
      BY <1>2, <2>1, Zenon
    <2>. QED  BY <1>6, <2>1, <2>2, Zenon
  <1>8. Tail(s) = Span(P, b, i + 1, m - 1)
    <2>1. Tail(s) = [k \in 1..m-1 |-> Tail(s)[k]]
      BY <1>6, LenProperties
    <2>. QED  BY <2>1, <1>7 DEF Span
  <1>. QED  BY <1>3, <1>4, <1>5, <1>8 DEF s

\* Two adjacent spans are one.
LEMMA SpanConcat ==
  ASSUME NEW S, NEW P, NEW b, IsRing(S, P, b), NEW i, NEW m, NEW j, NEW h, NEW g,
         Adjacent(i, m, j, h, g)
  PROVE  Span(P, b, i, m) \o Span(P, b, j, h) = Span(P, b, i, g)
  <1>. DEFINE s == Span(P, b, i, m)
              t == Span(P, b, j, h)
  <1>1. i \in Int /\ m \in Nat /\ j \in Int /\ h \in Nat /\ j = i + m /\ g = m + h
    BY DEF Adjacent
  <1>2. s \in Seq(S) /\ Len(s) = m /\ \A k \in 1..m : s[k] = b[(i + k - 1) % P]
    BY <1>1, SpanSeq
  <1>3. t \in Seq(S) /\ Len(t) = h /\ \A k \in 1..h : t[k] = b[(j + k - 1) % P]
    BY <1>1, SpanSeq
  <1>. HIDE DEF s, t
  <1>4. /\ s \o t \in Seq(S) /\ Len(s \o t) = g
        /\ \A k \in 1..g : (s \o t)[k] = IF k <= m THEN s[k] ELSE t[k - m]
    <2>1. /\ s \o t \in Seq(S) /\ Len(s \o t) = Len(s) + Len(t)
          /\ \A k \in 1..Len(s) + Len(t) : (s \o t)[k] = IF k <= Len(s) THEN s[k] ELSE t[k - Len(s)]
      BY <1>2, <1>3, ConcatProperties
    <2>. QED  BY <1>1, <1>2, <1>3, <2>1
  <1>5. ASSUME NEW k \in 1..g PROVE (s \o t)[k] = b[(i + k - 1) % P]
    <2>1. CASE k <= m
      <3>1. k \in 1..m /\ (s \o t)[k] = s[k]
        BY <1>1, <2>1, <1>4
      <3>. QED  BY <3>1, <1>2, Zenon
    <2>2. CASE ~(k <= m)
      <3>1. k - m \in 1..h /\ j + (k - m) - 1 = i + k - 1 /\ (s \o t)[k] = t[k - m]
        BY <1>1, <2>2, <1>4
      <3>2. t[k - m] = b[(j + (k - m) - 1) % P]
        BY <3>1, <1>3, Zenon
      <3>. QED  BY <3>1, <3>2, Zenon
    <2>. QED  BY <2>1, <2>2
  <1>6. s \o t = Span(P, b, i, g)
    <2>1. s \o t = [k \in 1..g |-> (s \o t)[k]]
      BY <1>4, LenProperties
    <2>. QED  BY <2>1, <1>5 DEF Span
  <1>. QED  BY <1>6 DEF s, t

\* The beginning of a span.
LEMMA SpanPrefix ==
  ASSUME NEW S, NEW P, NEW b, IsRing(S, P, b), NEW i \in Int, NEW m \in Nat,
         NEW h \in 0..m
  PROVE  SubSeq(Span(P, b, i, m), 1, h) = Span(P, b, i, h)
  <1>. DEFINE s == Span(P, b, i, m)
  <1>1. h \in Nat /\ 1..h \subseteq 1..m
    OBVIOUS
  <1>2. s \in Seq(S) /\ Len(s) = m /\ \A k \in 1..m : s[k] = b[(i + k - 1) % P]
    BY SpanSeq
  <1>. HIDE DEF s
  <1>3. \A k \in 1..h : s[k] \in S
    BY <1>1, <1>2, ElementOfSeq
  <1>4. /\ SubSeq(s, 1, h) \in Seq(S) /\ Len(SubSeq(s, 1, h)) = h
        /\ \A k \in 1..h : SubSeq(s, 1, h)[k] = s[k]
    BY <1>1, <1>2, <1>3, SubSeqProperties
  <1>5. \A k \in 1..h : SubSeq(s, 1, h)[k] = b[(i + k - 1) % P]
    BY <1>1, <1>2, <1>4, Zenon
  <1>6. SubSeq(s, 1, h) = Span(P, b, i, h)
    <2>1. SubSeq(s, 1, h) = [k \in 1..h |-> SubSeq(s, 1, h)[k]]
      BY <1>4, LenProperties
    <2>. QED  BY <2>1, <1>5 DEF Span
  <1>. QED  BY <1>6 DEF s

-----------------------------------------------------------------------------
(* induction *)

\* A set of naturals has a least element: what induction comes down to here.
LEMMA LeastNat ==
  ASSUME NEW T, T \subseteq Nat, T # {}
  PROVE  \E x \in T : \A y \in T : x <= y
  <1>. DEFINE R == OpToRel(<, Nat)
  <1>1. \A x, y \in Nat : <<y, x>> \in R <=> y < x
    BY DEF OpToRel
  <1>2. IsWellFoundedOn(R, Nat)
    BY NatLessThanWellFounded
  <1>. HIDE DEF R
  <1>3. PICK x \in T : \A y \in T : ~(<<y, x>> \in R)
    BY <1>2, WFMin
  <1>4. \A y \in T : ~(y < x)
    BY <1>1, <1>3
  <1>. QED  BY <1>3, <1>4

-----------------------------------------------------------------------------
(* sums over a finite set *)

\* the member that a fold over s takes first
First(s) == CHOOSE x \in s : TRUE

\* one unfolding of the recursion by which SumFunctionOnSet is defined
Unfold(f, S, g) == [s \in SUBSET S |-> IF s = {} THEN 0 ELSE f[First(s)] + g[s \ {First(s)}]]

\* g has the sums of f over the members of D, which is closed under taking away
Sums(f, D, g) ==
  /\ g \in [D -> Int]
  /\ \A s \in D : g[s] = IF s = {} THEN 0 ELSE f[First(s)] + g[s \ {First(s)}]

\* Taking the first member away leaves a smaller set.
LEMMA Smaller ==
  ASSUME NEW S, IsFiniteSet(S), NEW s \in SUBSET S, s # {}
  PROVE  /\ First(s) \in s /\ First(s) \in S /\ s \ {First(s)} \in SUBSET S
         /\ IsFiniteSet(s) /\ Cardinality(s) \in Nat \ {0}
         /\ Cardinality(s \ {First(s)}) = Cardinality(s) - 1
  <1>1. First(s) \in s
    BY DEF First
  <1>2. IsFiniteSet(s) /\ Cardinality(s) \in Nat
    BY FS_Subset, FS_CardinalityType
  <1>3. Cardinality(s \ {First(s)}) = Cardinality(s) - 1 /\ Cardinality(s \ {First(s)}) \in Nat
    BY <1>1, <1>2, FS_RemoveElement, FS_CardinalityType
  <1>. QED  BY <1>1, <1>2, <1>3

\* The recursion has a solution.
LEMMA SumsExist ==
  ASSUME NEW S, IsFiniteSet(S), NEW f, \A x \in S : f[x] \in Int
  PROVE  \E g : Sums(f, SUBSET S, g)
  <1>. DEFINE D(m) == {s \in SUBSET S : Cardinality(s) <= m}
              T == {m \in Nat : ~\E g : Sums(f, D(m), g)}
  <1>0. \A s \in SUBSET S : Cardinality(s) \in Nat /\ IsFiniteSet(s) /\ (Cardinality(s) = 0 <=> s = {})
    BY FS_Subset, FS_CardinalityType, FS_EmptySet
  <1>1. T = {}
    <2>1. SUFFICES ASSUME T # {} PROVE FALSE
      OBVIOUS
    <2>2. PICK m \in T : \A y \in T : m <= y
      BY <2>1, LeastNat
    <2>3. CASE m = 0
      <3>1. \A s \in D(0) : s = {}
        BY <1>0
      <3>2. Sums(f, D(0), [s \in D(0) |-> 0])
        BY <3>1 DEF Sums
      <3>. QED  BY <2>2, <2>3, <3>2
    <2>4. CASE m # 0
      <3>0. m \in Nat
        BY <2>2
      <3>1. m - 1 \in Nat /\ m - 1 \notin T /\ m \in Nat
        <4>. HIDE DEF T
        <4>. QED  BY <2>2, <2>4, <3>0
      <3>2. PICK g : Sums(f, D(m - 1), g)
        BY <3>1
      <3>. DEFINE h == [s \in D(m) |-> IF s = {} THEN 0 ELSE f[First(s)] + g[s \ {First(s)}]]
      <3>3. ASSUME NEW s \in D(m), s # {} PROVE s \ {First(s)} \in D(m - 1) /\ First(s) \in S
        BY <3>1, <3>3, Smaller
      <3>4. h \in [D(m) -> Int]
        BY <3>2, <3>3 DEF Sums
      <3>5. ASSUME NEW s \in D(m - 1) PROVE s \in D(m) /\ h[s] = g[s]
        <4>1. s \in D(m)
          BY <1>0, <3>1
        <4>. QED  BY <3>2, <4>1 DEF Sums
      <3>6. ASSUME NEW s \in D(m) PROVE h[s] = IF s = {} THEN 0 ELSE f[First(s)] + h[s \ {First(s)}]
        <4>1. CASE s = {}
          BY <4>1
        <4>2. CASE s # {}
          <5>1. h[s \ {First(s)}] = g[s \ {First(s)}]
            BY <3>3, <3>5, <4>2
          <5>2. h[s] = f[First(s)] + g[s \ {First(s)}]
            BY <4>2
          <5>. QED  BY <4>2, <5>1, <5>2
        <4>. QED  BY <4>1, <4>2
      <3>. HIDE DEF h, D
      <3>7. Sums(f, D(m), h)
        BY <3>4, <3>6 DEF Sums
      <3>. USE DEF D
      <3>. QED  BY <2>2, <3>7
    <2>. QED  BY <2>3, <2>4
  <1>2. D(Cardinality(S)) = SUBSET S /\ Cardinality(S) \in Nat
    BY FS_Subset, FS_CardinalityType, <1>0
  <1>. QED  BY <1>1, <1>2

\* SumFunctionOnSet is that solution.
LEMMA SumIs ==
  ASSUME NEW S, IsFiniteSet(S), NEW f, \A x \in S : f[x] \in Int
  PROVE  \E g : Sums(f, SUBSET S, g) /\ SumFunctionOnSet(f, S) = g[S]
  <1>. DEFINE g == CHOOSE h : h = Unfold(f, S, h)
  <1>1. SumFunctionOnSet(f, S) = g[S]
    BY DEF SumFunctionOnSet, FoldFunctionOnSet, MapThenFoldSet, Unfold, First
  <1>2. PICK h : Sums(f, SUBSET S, h)
    BY SumsExist
  <1>3. h = Unfold(f, S, h)
    <2>1. h = [s \in SUBSET S |-> h[s]]
      BY <1>2 DEF Sums
    <2>2. \A s \in SUBSET S : h[s] = Unfold(f, S, h)[s]
      BY <1>2 DEF Sums, Unfold
    <2>3. Unfold(f, S, h) = [s \in SUBSET S |-> Unfold(f, S, h)[s]]
      BY DEF Unfold
    <2>. QED  BY <2>1, <2>2, <2>3
  <1>4. g = Unfold(f, S, g)
    BY <1>3
  <1>. HIDE DEF g
  <1>5. \A s \in SUBSET S : g[s] = IF s = {} THEN 0 ELSE f[First(s)] + g[s \ {First(s)}]
    <2>1. \A s \in SUBSET S : g[s] = Unfold(f, S, g)[s]
      BY <1>4
    <2>. QED  BY <2>1 DEF Unfold
  <1>6. \A s \in SUBSET S : g[s] = h[s]
    <2>. DEFINE T == {m \in Nat : \E s \in SUBSET S : Cardinality(s) = m /\ g[s] # h[s]}
    <2>1. SUFFICES ASSUME T # {} PROVE FALSE
      BY FS_Subset, FS_CardinalityType
    <2>2. PICK m \in T : \A y \in T : m <= y
      BY <2>1, LeastNat
    <2>3. PICK s \in SUBSET S : Cardinality(s) = m /\ g[s] # h[s]
      BY <2>2
    <2>4. s # {}
      BY <1>2, <1>5, <2>3 DEF Sums
    <2>5. s \ {First(s)} \in SUBSET S /\ Cardinality(s \ {First(s)}) = m - 1 /\ m - 1 \in Nat
      BY <2>3, <2>4, Smaller
    <2>6. g[s \ {First(s)}] = h[s \ {First(s)}]
      BY <2>2, <2>5
    <2>. QED  BY <1>2, <1>5, <2>3, <2>4, <2>6 DEF Sums
  <1>7. g \in [SUBSET S -> Int]
    <2>1. g = [s \in SUBSET S |-> g[s]]
      BY <1>4 DEF Unfold
    <2>. QED  BY <1>2, <1>6, <2>1 DEF Sums
  <1>. QED  BY <1>1, <1>5, <1>7 DEF Sums

\* A sum of naturals is one, and is 0 when all of them are.
LEMMA SumNat ==
  ASSUME NEW S, IsFiniteSet(S), NEW f \in [S -> Nat]
  PROVE  /\ SumFunctionOnSet(f, S) \in Nat
         /\ (\A x \in S : f[x] = 0) => SumFunctionOnSet(f, S) = 0
  <1>0. \A x \in S : f[x] \in Int
    OBVIOUS
  <1>1. PICK g : Sums(f, SUBSET S, g) /\ SumFunctionOnSet(f, S) = g[S]
    BY <1>0, SumIs
  <1>. DEFINE Good(s) == g[s] \in Nat /\ ((\A x \in S : f[x] = 0) => g[s] = 0)
              T == {m \in Nat : \E s \in SUBSET S : Cardinality(s) = m /\ ~Good(s)}
  <1>2. T = {}
    <2>1. SUFFICES ASSUME T # {} PROVE FALSE
      OBVIOUS
    <2>2. PICK m \in T : \A y \in T : m <= y
      BY <2>1, LeastNat
    <2>3. PICK s \in SUBSET S : Cardinality(s) = m /\ ~Good(s)
      BY <2>2
    <2>4. s # {}
      <3>1. {} \in SUBSET S
        OBVIOUS
      <3>2. g[{}] = 0
        BY <1>1, <3>1 DEF Sums
      <3>. QED  BY <2>3, <3>2
    <2>5. s \ {First(s)} \in SUBSET S /\ Cardinality(s \ {First(s)}) = m - 1 /\ m - 1 \in Nat /\ First(s) \in S
      BY <2>3, <2>4, Smaller
    <2>6. Good(s \ {First(s)})
      BY <2>2, <2>5
    <2>. QED  BY <1>1, <2>3, <2>4, <2>5, <2>6 DEF Sums
  <1>3. Cardinality(S) \in Nat
    BY FS_CardinalityType
  <1>. QED  BY <1>1, <1>2, <1>3

\* Changing one summand changes the sum by as much.
LEMMA SumChange ==
  ASSUME NEW S, IsFiniteSet(S), NEW f \in [S -> Nat], NEW e \in [S -> Nat], NEW x \in S,
         \A y \in S : y # x => e[y] = f[y]
  PROVE  SumFunctionOnSet(e, S) = (SumFunctionOnSet(f, S) - f[x]) + e[x]
  <1>0. \A y \in S : f[y] \in Int /\ e[y] \in Int
    OBVIOUS
  <1>1. PICK g : Sums(f, SUBSET S, g) /\ SumFunctionOnSet(f, S) = g[S]
    BY <1>0, SumIs
  <1>2. PICK h : Sums(e, SUBSET S, h) /\ SumFunctionOnSet(e, S) = h[S]
    BY <1>0, SumIs
  <1>. DEFINE Good(s) == h[s] = IF x \in s THEN (g[s] - f[x]) + e[x] ELSE g[s]
              T == {m \in Nat : \E s \in SUBSET S : Cardinality(s) = m /\ ~Good(s)}
  <1>3. T = {}
    <2>1. SUFFICES ASSUME T # {} PROVE FALSE
      OBVIOUS
    <2>2. PICK m \in T : \A y \in T : m <= y
      BY <2>1, LeastNat
    <2>3. PICK s \in SUBSET S : Cardinality(s) = m /\ ~Good(s)
      BY <2>2
    <2>4. s # {}
      BY <1>1, <1>2, <2>3 DEF Sums
    <2>. DEFINE r == s \ {First(s)}
    <2>5. /\ s \ {First(s)} \in SUBSET S /\ Cardinality(s \ {First(s)}) = m - 1 /\ m - 1 \in Nat
          /\ First(s) \in S /\ First(s) \in s
      <3>. HIDE DEF Good
      <3>. QED  BY <2>3, <2>4, Smaller
    <2>6. Good(r)
      BY <2>2, <2>5
    <2>7. g[s] = f[First(s)] + g[r] /\ h[s] = e[First(s)] + h[r]
      BY <1>1, <1>2, <2>4 DEF Sums
    <2>8. g[r] \in Int /\ h[r] \in Int /\ f[First(s)] \in Int /\ e[First(s)] \in Int /\ f[x] \in Int /\ e[x] \in Int
      BY <1>1, <1>2, <2>5 DEF Sums
    <2>9. CASE First(s) = x
      <3>1. x \notin r /\ x \in s
        BY <2>5, <2>9
      <3>. QED  BY <2>3, <2>6, <2>7, <2>8, <2>9, <3>1
    <2>10. CASE First(s) # x
      <3>1. (x \in r <=> x \in s) /\ e[First(s)] = f[First(s)]
        BY <2>5, <2>10
      <3>. HIDE DEF r
      <3>. QED  BY <2>3, <2>6, <2>7, <2>8, <3>1
    <2>. QED  BY <2>9, <2>10
  <1>4. Cardinality(S) \in Nat /\ S \in SUBSET S
    BY FS_CardinalityType
  <1>5. Good(S)
    BY <1>3, <1>4
  <1>. QED  BY <1>1, <1>2, <1>5
-----------------------------------------------------------------------------
(* sums over subsets *)

\* The sums over all subsets of S, taken in whatever order.
LEMMA SumsOver ==
  ASSUME NEW S, NEW f, NEW g, NEW D, D = SUBSET S, IsFiniteSet(S),
         \A x \in S : f[x] \in Int, Sums(f, D, g)
  PROVE  \A s \in D : \A x \in s : g[s] = f[x] + g[s \ {x}]
  <1>. DEFINE Good(s) == \A x \in s : g[s] = f[x] + g[s \ {x}]
              T == {m \in Nat : \E s \in SUBSET S : Cardinality(s) = m /\ ~Good(s)}
  <1>1. SUFFICES ASSUME T # {} PROVE FALSE
    BY FS_Subset, FS_CardinalityType
  <1>2. PICK m \in T : \A y \in T : m <= y
    BY <1>1, LeastNat
  <1>3. PICK s \in SUBSET S : Cardinality(s) = m /\ ~Good(s)
    BY <1>2
  <1>4. PICK x \in s : g[s] # f[x] + g[s \ {x}]
    BY <1>3
  <1>. DEFINE z == First(s)
  <1>5. /\ z \in s /\ s \ {z} \in SUBSET S /\ IsFiniteSet(s) /\ m \in Nat \ {0}
        /\ Cardinality(s \ {z}) = m - 1
    <2>. HIDE DEF Good
    <2>. QED  BY <1>3, <1>4, Smaller
  <1>6. g[s] = f[z] + g[s \ {z}]
    BY <1>4 DEF Sums
  <1>. HIDE DEF z
  <1>7. x # z
    BY <1>4, <1>6
  <1>8. s \ {x} \in SUBSET S /\ Cardinality(s \ {x}) = m - 1 /\ m - 1 \in Nat
    <2>1. Cardinality(s \ {x}) = Cardinality(s) - 1
      BY <1>4, <1>5, FS_RemoveElement
    <2>. HIDE DEF Good, T
    <2>. QED  BY <1>3, <1>5, <2>1
  <1>9. Good(s \ {z}) /\ Good(s \ {x})
    BY <1>2, <1>5, <1>8
  <1>10. g[s \ {z}] = f[x] + g[(s \ {z}) \ {x}] /\ g[s \ {x}] = f[z] + g[(s \ {x}) \ {z}]
    BY <1>4, <1>5, <1>7, <1>9
  <1>11. (s \ {z}) \ {x} = (s \ {x}) \ {z} /\ (s \ {z}) \ {x} \in SUBSET S
    BY <1>5
  <1>12. f[x] \in Int /\ f[z] \in Int /\ g[(s \ {z}) \ {x}] \in Int
    BY <1>4, <1>5, <1>11 DEF Sums
  <1>. DEFINE a == g[s]
              b == g[s \ {z}]
              c == g[s \ {x}]
              d == g[(s \ {z}) \ {x}]
  <1>13. a = f[z] + b /\ b = f[x] + d /\ c = f[z] + d /\ d \in Int /\ a # f[x] + c
    BY <1>4, <1>6, <1>10, <1>11, <1>12
  <1>. HIDE DEF Good, T, a, b, c, d
  <1>. QED  BY <1>12, <1>13

\* The sums over the subsets of a set are those of the set.
LEMMA SumsPart ==
  ASSUME NEW S, NEW R \in SUBSET S, NEW f, NEW g, NEW h, NEW D, D = SUBSET S, NEW E, E = SUBSET R,
         IsFiniteSet(S), \A x \in S : f[x] \in Int, Sums(f, D, g), Sums(f, E, h)
  PROVE  h[R] = g[R]
  <1>. DEFINE T == {m \in Nat : \E s \in SUBSET R : Cardinality(s) = m /\ g[s] # h[s]}
  <1>0. IsFiniteSet(R)
    BY FS_Subset
  <1>1. SUFFICES ASSUME T # {} PROVE FALSE
    BY <1>0, FS_Subset, FS_CardinalityType
  <1>2. PICK m \in T : \A y \in T : m <= y
    BY <1>1, LeastNat
  <1>3. PICK s \in SUBSET R : Cardinality(s) = m /\ g[s] # h[s]
    BY <1>2
  <1>4. s \in SUBSET S
    OBVIOUS
  <1>5. s # {}
    BY <1>3, <1>4 DEF Sums
  <1>6. s \ {First(s)} \in SUBSET R /\ Cardinality(s \ {First(s)}) = m - 1 /\ m - 1 \in Nat
    BY <1>0, <1>3, <1>5, Smaller
  <1>7. g[s \ {First(s)}] = h[s \ {First(s)}]
    BY <1>2, <1>6
  <1>. QED  BY <1>3, <1>4, <1>5, <1>7 DEF Sums

\* A sum without one of its terms.
LEMMA SumRemove ==
  ASSUME NEW S, IsFiniteSet(S), NEW f, \A y \in S : f[y] \in Int, NEW x \in S
  PROVE  /\ SumFunctionOnSet(f, S \ {x}) \in Int
         /\ SumFunctionOnSet(f, S) = f[x] + SumFunctionOnSet(f, S \ {x})
  <1>1. PICK g : Sums(f, SUBSET S, g) /\ SumFunctionOnSet(f, S) = g[S]
    BY SumIs
  <1>2. IsFiniteSet(S \ {x}) /\ \A y \in S \ {x} : f[y] \in Int
    BY FS_Subset
  <1>3. PICK h : Sums(f, SUBSET (S \ {x}), h) /\ SumFunctionOnSet(f, S \ {x}) = h[S \ {x}]
    BY <1>2, SumIs
  <1>. DEFINE R == S \ {x}
  <1>4. h[R] = g[R]
    <2>1. R \in SUBSET S /\ Sums(f, SUBSET R, h)
      BY <1>3
    <2>. HIDE DEF R
    <2>. QED  BY <1>1, <2>1, SumsPart
  <1>5. g[S] = f[x] + g[S \ {x}]
    <2>. DEFINE D == SUBSET S
    <2>1. D = SUBSET S /\ Sums(f, D, g) /\ S \in D
      BY <1>1
    <2>. HIDE DEF D
    <2>. QED  BY <2>1, SumsOver
  <1>6. g[S \ {x}] \in Int
    BY <1>1 DEF Sums
  <1>. QED  BY <1>1, <1>3, <1>4, <1>5, <1>6

\* A sum of nothing.
LEMMA SumEmpty ==
  ASSUME NEW f
  PROVE  SumFunctionOnSet(f, {}) = 0
  <1>1. PICK g : Sums(f, SUBSET {}, g) /\ SumFunctionOnSet(f, {}) = g[{}]
    BY SumIs, FS_EmptySet
  <1>. QED  BY <1>1 DEF Sums

-----------------------------------------------------------------------------
(* loops *)

\* a loop of N rounds from v0 on, of which round k takes value v to step[k][v]
IsLoop(N, V, v0, step) == N \in Nat /\ v0 \in V /\ step \in [1..N -> [V -> V]]

\* f has the values after each round
Loops(N, V, v0, step, f) ==
  f \in [0..N -> V] /\ f[0] = v0 /\ \A k \in 1..N : f[k] = step[k][f[k-1]]

\* A loop runs to its end.
LEMMA LoopRuns ==
  ASSUME NEW N, NEW V, NEW v0, NEW step, IsLoop(N, V, v0, step)
  PROVE  \E f : Loops(N, V, v0, step, f)
  <1>. DEFINE Runs(f, m) == f \in [0..m -> V] /\ f[0] = v0 /\ \A k \in 1..m : f[k] = step[k][f[k-1]]
              T == {m \in Nat : m <= N /\ ~\E f : Runs(f, m)}
  <1>. USE DEF IsLoop
  <1>0. SUFFICES \E f : Runs(f, N)
    BY DEF Loops
  <1>. SUFFICES ASSUME T # {} PROVE FALSE
    <2>1. T = {} => N \notin T
      OBVIOUS
    <2>. HIDE DEF Runs
    <2>. QED  BY <2>1
  <1>2. PICK m \in T : \A y \in T : m <= y
    BY LeastNat
  <1>3. CASE m = 0
    <2>1. Runs([k \in 0..0 |-> v0], 0)
      OBVIOUS
    <2>. QED  BY <1>2, <1>3, <2>1
  <1>4. CASE m # 0
    <2>1. m - 1 \in Nat /\ m - 1 <= N /\ m - 1 \notin T /\ m \in Nat /\ m \in 1..N
      <3>1. m \in Nat /\ m <= N
        BY <1>2
      <3>2. m - 1 \in Nat /\ m - 1 <= N /\ m \in 1..N /\ ~(m <= m - 1)
        BY <1>4, <3>1
      <3>. HIDE DEF T
      <3>. QED  BY <1>2, <3>1, <3>2
    <2>2. PICK f : Runs(f, m - 1)
      BY <2>1
    <2>. DEFINE g == [k \in 0..m |-> IF k = m THEN step[m][f[m-1]] ELSE f[k]]
    <2>3. step[m][f[m-1]] \in V
      <3>1. f[m-1] \in V
        BY <2>1, <2>2
      <3>2. step[m] \in [V -> V]
        BY <2>1
      <3>. QED  BY <3>1, <3>2
    <2>4. g \in [0..m -> V] /\ g[0] = v0 /\ g[m] = step[m][f[m-1]]
      BY <1>4, <2>1, <2>2, <2>3
    <2>5. \A k \in 0..m-1 : g[k] = f[k]
      BY <2>1
    <2>. HIDE DEF g
    <2>6. ASSUME NEW k \in 1..m PROVE g[k] = step[k][g[k-1]]
      <3>1. k - 1 \in 0..m-1
        BY <2>1
      <3>2. CASE k = m
        BY <3>1, <3>2, <2>4, <2>5
      <3>3. CASE k # m
        <4>1. k \in 1..m-1 /\ k \in 0..m-1
          BY <2>1, <3>3
        <4>. QED  BY <3>1, <4>1, <2>2, <2>5
      <3>. QED  BY <3>2, <3>3
    <2>7. Runs(g, m)
      BY <2>4, <2>6
    <2>. HIDE DEF Runs
    <2>. QED  BY <1>2, <2>7
  <1>. QED  BY <1>3, <1>4
=============================================================================
