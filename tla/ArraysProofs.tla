----------------------------- MODULE ArraysProofs -----------------------------
(***************************************************************************)
(* Proofs about Arrays, for any width of a length, any steps of the growth *)
(* and any inputs: no native writes behind the block of an object, every   *)
(* builder with characters ends in '\0', bytesAllocated counts each block  *)
(* once, at the size with which it is freed, and what a program sees are   *)
(* the sequences of LoxSequences.  The theorems name what the code does    *)
(* not guarantee and they are false without: no line is typed that makes   *)
(* the capacity wrap (LinesFit), and, for the sequences, no size is 0.     *)
(*                                                                         *)
(* The invariant says of each object alone that it is sound, and of all of *)
(* them together that bytesAllocated is their sum. A handler leaves an     *)
(* object or makes one, sound and showing a sequence (Leaves, Makes); each *)
(* native is read once for that, and the invariant and the implementation  *)
(* of the sequences both follow from it.                                   *)
(***************************************************************************)
EXTENDS Arrays, SetInduction, FiniteSetTheorems, SequenceTheorems

-----------------------------------------------------------------------------
(* Sums                                                                    *)

OneOf(T) == CHOOSE a \in T : TRUE

Added(f, g, T) == IF T = {} THEN 0 ELSE g[OneOf(T)] + f[T \ {OneOf(T)}]

\* f adds up g over each part of S, in the order of the fold.
Sums(f, g, S) == f = [T \in SUBSET S |-> Added(f, g, T)]

Sum(g, S) == (CHOOSE f : Sums(f, g, S))[S]

\* What f adds up.
LEMMA SumEach ==
  ASSUME NEW f, NEW g, NEW S, Sums(f, g, S)
  PROVE  \A T \in SUBSET S : f[T] = Added(f, g, T)
  BY DEF Sums

\* A finite set without the element the fold takes is smaller.
LEMMA Smaller ==
  ASSUME NEW T, IsFiniteSet(T)
  PROVE  /\ Cardinality(T) \in Nat
         /\ T = {} <=> Cardinality(T) = 0
         /\ \A a \in T : IsFiniteSet(T \ {a}) /\ Cardinality(T \ {a}) = Cardinality(T) - 1
         /\ T # {} => OneOf(T) \in T
  <1>1. T # {} => OneOf(T) \in T
    BY DEF OneOf
  <1> QED BY <1>1, FS_CardinalityType, FS_EmptySet, FS_RemoveElement

\* The fold ends.
LEMMA SumsExist ==
  ASSUME NEW g, NEW S, IsFiniteSet(S)
  PROVE  \E f : Sums(f, g, S)
  <1> DEFINE D == SUBSET S
             Upto(f, k) == /\ f = [T \in D |-> f[T]]
                           /\ \A T \in D : Cardinality(T) <= k => f[T] = Added(f, g, T)
             Defined == {k \in Nat : \E f : Upto(f, k)}
  <1>1. \A T \in D : IsFiniteSet(T) /\ Cardinality(T) \in Nat /\ Cardinality(T) <= Cardinality(S)
    BY FS_Subset, FS_CardinalityType
  <1>2. 0 \in Defined
    <2> DEFINE f == [T \in D |-> 0]
    <2>1. f = [T \in D |-> f[T]] /\ \A T \in D : f[T] = 0
      OBVIOUS
    <2>2. \A T \in D : Cardinality(T) <= 0 => T = {}
      BY <1>1, Smaller
    <2>3. \A T \in D : Cardinality(T) <= 0 => f[T] = Added(f, g, T)
      BY <2>1, <2>2 DEF Added
    <2> HIDE DEF f
    <2> QED BY <2>1, <2>3
  <1>3. ASSUME NEW k \in Nat, k \in Defined
        PROVE  k + 1 \in Defined
    <2>1. PICK f : Upto(f, k)
      BY <1>3
    <2> DEFINE h == [T \in D |-> Added(f, g, T)]
    <2>2. h = [T \in D |-> h[T]] /\ \A T \in D : h[T] = Added(f, g, T)
      OBVIOUS
    <2> HIDE DEF h
    <2>3. ASSUME NEW T \in D, Cardinality(T) <= k + 1
          PROVE  h[T] = Added(h, g, T)
      <3>1. CASE T = {}
        BY <2>2, <3>1 DEF Added
      <3>2. CASE T # {}
        <4> DEFINE R == T \ {OneOf(T)}
        <4>1. R \in D /\ Cardinality(R) = Cardinality(T) - 1 /\ Cardinality(T) \in Nat
          BY <1>1, <3>2, Smaller
        <4>2. Cardinality(R) <= k
          BY <2>3, <4>1
        <4>3. h[R] = f[R]
          BY <2>1, <2>2, <4>1, <4>2
        <4> QED BY <2>2, <3>2, <4>3 DEF Added
      <3> QED BY <3>1, <3>2
    <2> HIDE DEF D
    <2>4. Upto(h, k + 1)
      BY <2>2, <2>3
    <2> QED BY <2>4
  <1>4. Cardinality(S) \in Defined
    <2> HIDE DEF Defined
    <2> QED BY <1>2, <1>3, NatBySteps, FS_CardinalityType
  <1>5. PICK f : Upto(f, Cardinality(S))
    BY <1>4
  <1>6. \A T \in D : f[T] = Added(f, g, T)
    BY <1>1, <1>5
  <1>7. f = [T \in D |-> f[T]]
    BY <1>5
  <1>8. f = [T \in D |-> Added(f, g, T)]
    BY <1>6, <1>7
  <1> QED BY <1>8 DEF Sums

\* Two folds agree where what they add up agrees.
LEMMA SumsAgree ==
  ASSUME NEW f, NEW g, NEW S, Sums(f, g, S), NEW h, NEW i, NEW R, Sums(h, i, R),
         NEW U, IsFiniteSet(U), U \subseteq S, U \subseteq R, \A a \in U : g[a] = i[a]
  PROVE  f[U] = h[U]
  <1> DEFINE Same == {n \in Nat : \A T \in SUBSET U : Cardinality(T) = n => f[T] = h[T]}
  <1>1. \A T \in SUBSET U : IsFiniteSet(T) /\ Cardinality(T) \in Nat
    BY FS_Subset, FS_CardinalityType
  <1>2. \A T \in SUBSET U : f[T] = Added(f, g, T) /\ h[T] = Added(h, i, T)
    BY SumEach
  <1>3. 0 \in Same
    <2>1. \A T \in SUBSET U : Cardinality(T) = 0 => T = {}
      BY <1>1, Smaller
    <2> QED BY <1>2, <2>1 DEF Added
  <1>4. ASSUME NEW n \in Nat, n \in Same
        PROVE  n + 1 \in Same
    <2> SUFFICES ASSUME NEW T \in SUBSET U, Cardinality(T) = n + 1
                 PROVE  f[T] = h[T]
      OBVIOUS
    <2>1. T # {} /\ OneOf(T) \in T /\ Cardinality(T \ {OneOf(T)}) = n
      BY <1>1, Smaller
    <2>2. f[T \ {OneOf(T)}] = h[T \ {OneOf(T)}]
      BY <1>4, <2>1
    <2>3. g[OneOf(T)] = i[OneOf(T)]
      BY <2>1
    <2> QED BY <1>2, <2>1, <2>2, <2>3 DEF Added
  <1>5. Cardinality(U) \in Same
    <2> HIDE DEF Same
    <2> QED BY <1>1, <1>3, <1>4, NatBySteps
  <1> QED BY <1>5

\* A sum of naturals, in which any element may be taken out first.
LEMMA SumsTake ==
  ASSUME NEW f, NEW g, NEW S, Sums(f, g, S), IsFiniteSet(S), \A a \in S : g[a] \in Nat
  PROVE  \A T \in SUBSET S : f[T] \in Nat /\ \A a \in T : f[T] = g[a] + f[T \ {a}]
  <1> DEFINE Takes(T) == f[T] \in Nat /\ \A a \in T : f[T] = g[a] + f[T \ {a}]
             Good == {n \in Nat : \A T \in SUBSET S : Cardinality(T) <= n => Takes(T)}
  <1>1. \A T \in SUBSET S : IsFiniteSet(T) /\ Cardinality(T) \in Nat
    BY FS_Subset, FS_CardinalityType
  <1>2. \A T \in SUBSET S : f[T] = Added(f, g, T)
    BY SumEach
  <1>3. 0 \in Good
    <2> SUFFICES ASSUME NEW T \in SUBSET S, Cardinality(T) <= 0
                 PROVE  Takes(T)
      OBVIOUS
    <2>1. T = {}
      BY <1>1, Smaller
    <2>2. f[T] = 0
      BY <1>2, <2>1 DEF Added
    <2> QED BY <2>1, <2>2
  <1>4. ASSUME NEW n \in Nat, n \in Good
        PROVE  n + 1 \in Good
    <2> SUFFICES ASSUME NEW T \in SUBSET S, Cardinality(T) <= n + 1, T # {}
                 PROVE  Takes(T)
      <3>1. \A T \in SUBSET S : T = {} => Cardinality(T) = 0
        BY <1>1, Smaller
      <3>2. \A T \in SUBSET S : T = {} => Takes(T)
        BY <1>4, <3>1
      <3> QED BY <3>2
    <2> DEFINE x == OneOf(T)
    <2>1. /\ x \in T
          /\ \A a \in T : T \ {a} \in SUBSET S /\ Cardinality(T \ {a}) <= n
      BY <1>1, Smaller
    <2>2. \A a \in T : Takes(T \ {a})
      BY <1>4, <2>1
    <2>3. f[T] = g[x] + f[T \ {x}]
      BY <1>2 DEF Added
    <2> HIDE DEF x
    <2>4. f[T] \in Nat
      <3>1. g[x] \in Nat /\ f[T \ {x}] \in Nat
        BY <2>1, <2>2
      <3> QED BY <2>3, <3>1
    <2>5. ASSUME NEW a \in T, a # x
          PROVE  f[T] = g[a] + f[T \ {a}]
      <3> DEFINE R == (T \ {x}) \ {a}
      <3>1. R = (T \ {a}) \ {x} /\ R \in SUBSET S
        OBVIOUS
      <3>2. a \in T \ {x} /\ x \in T \ {a}
        BY <2>1, <2>5
      <3>3. f[T \ {x}] = g[a] + f[R]
        BY <2>1, <2>2, <3>2
      <3>4. f[T \ {a}] = g[x] + f[R]
        BY <2>2, <3>1, <3>2
      <3>5. Cardinality(R) <= n
        <4>1. Cardinality(R) = Cardinality(T \ {x}) - 1 /\ Cardinality(T \ {x}) \in Nat
          BY <1>1, <2>1, <3>2, Smaller
        <4> QED BY <2>1, <4>1
      <3>6. f[R] \in Nat
        BY <1>4, <3>1, <3>5
      <3>7. g[x] \in Nat /\ g[a] \in Nat
        BY <2>1
      <3> HIDE DEF R
      <3> QED BY <2>3, <3>3, <3>4, <3>6, <3>7
    <2> QED BY <2>3, <2>4, <2>5
  <1>5. ASSUME NEW T \in SUBSET S
        PROVE  Takes(T)
    <2>1. Cardinality(T) \in Good
      <3> HIDE DEF Good
      <3> QED BY <1>1, <1>3, <1>4, NatBySteps
    <2>2. Cardinality(T) <= Cardinality(T)
      BY <1>1
    <2> QED BY <2>1, <2>2
  <1> QED BY <1>5

-----------------------------------------------------------------------------
\* What the sum over a set is, and that equal summands give equal sums.
LEMMA SumSame ==
  ASSUME NEW S, IsFiniteSet(S), NEW g, NEW h, \A a \in S : g[a] = h[a]
  PROVE  Sum(g, S) = Sum(h, S)
  <1>1. Sums(CHOOSE f : Sums(f, g, S), g, S) /\ Sums(CHOOSE f : Sums(f, h, S), h, S)
    BY SumsExist
  <1> QED BY <1>1, SumsAgree DEF Sum

\* Any element may be taken out of the sum.
LEMMA SumTake ==
  ASSUME NEW S, IsFiniteSet(S), NEW g, \A a \in S : g[a] \in Nat
  PROVE  Sum(g, S) \in Nat /\ \A a \in S : Sum(g, S) = g[a] + Sum(g, S \ {a})
  <1> DEFINE F(U) == CHOOSE f : Sums(f, g, U)
  <1>1. \A U \in SUBSET S : IsFiniteSet(U) /\ Sums(F(U), g, U)
    BY SumsExist, FS_Subset
  <1>2. \A U : Sum(g, U) = F(U)[U]
    BY DEF Sum
  <1> HIDE DEF F
  <1>3. F(S)[S] \in Nat /\ \A a \in S : F(S)[S] = g[a] + F(S)[S \ {a}]
    BY <1>1, SumsTake
  <1>4. ASSUME NEW a \in S
        PROVE  F(S)[S \ {a}] = F(S \ {a})[S \ {a}]
    BY <1>1, SumsAgree
  <1> QED BY <1>2, <1>3, <1>4

\* A sum in two parts.
LEMMA SumSplit ==
  ASSUME NEW S, IsFiniteSet(S), NEW g, \A a \in S : g[a] \in Nat, NEW R, R \subseteq S
  PROVE  Sum(g, S) = Sum(g, R) + Sum(g, S \ R)
  <1> DEFINE Good == {n \in Nat : \A T \in SUBSET S : Cardinality(T) = n =>
                        Sum(g, S) = Sum(g, T) + Sum(g, S \ T)}
  <1>1. \A T \in SUBSET S : IsFiniteSet(T) /\ Cardinality(T) \in Nat /\ Sum(g, T) \in Nat
    BY FS_Subset, FS_CardinalityType, SumTake
  <1>2. 0 \in Good
    <2> SUFFICES ASSUME NEW T \in SUBSET S, Cardinality(T) = 0
                 PROVE  Sum(g, S) = Sum(g, T) + Sum(g, S \ T)
      OBVIOUS
    <2>1. T = {} /\ S \ T = S
      BY <1>1, Smaller
    <2>2. Sum(g, {}) = 0
      <3>1. Sums(CHOOSE f : Sums(f, g, {}), g, {})
        BY SumsExist, FS_EmptySet
      <3> QED BY <3>1, SumEach DEF Sum, Added
    <2> QED BY <1>1, <2>1, <2>2
  <1>3. ASSUME NEW n \in Nat, n \in Good
        PROVE  n + 1 \in Good
    <2> SUFFICES ASSUME NEW T \in SUBSET S, Cardinality(T) = n + 1
                 PROVE  Sum(g, S) = Sum(g, T) + Sum(g, S \ T)
      OBVIOUS
    <2>1. PICK a \in T : Cardinality(T \ {a}) = n
      BY <1>1, Smaller
    <2> DEFINE U == T \ {a}
    <2>2. U \in SUBSET S /\ a \in S \ U /\ (S \ U) \ {a} = S \ T /\ S \ U \in SUBSET S
          /\ S \ T \in SUBSET S
      OBVIOUS
    <2>3. Sum(g, S) = Sum(g, U) + Sum(g, S \ U)
      BY <1>3, <2>1, <2>2
    <2>4. Sum(g, T) = g[a] + Sum(g, U)
      BY <1>1, SumTake
    <2>5. Sum(g, S \ U) = g[a] + Sum(g, S \ T)
      <3>1. IsFiniteSet(S \ U) /\ \A b \in S \ U : g[b] \in Nat
        BY <1>1, <2>2
      <3> HIDE DEF U
      <3> QED BY <2>2, <3>1, SumTake
    <2>6. g[a] \in Nat /\ Sum(g, U) \in Nat /\ Sum(g, S \ T) \in Nat
      BY <1>1, <2>2
    <2> HIDE DEF U
    <2> QED BY <2>3, <2>4, <2>5, <2>6
  <1>4. Cardinality(R) \in Good
    <2> HIDE DEF Good
    <2> QED BY <1>1, <1>2, <1>3, NatBySteps
  <1> QED BY <1>4

-----------------------------------------------------------------------------
(* Arithmetic                                                              *)

\* What the proofs use of the constants.
LEMMA Widths ==
  /\ Modulus \in Nat /\ Align \in Nat \ {0}
  /\ ARRAYLIKE_MAX \in Nat /\ Modulus = ARRAYLIKE_MAX + Align
  /\ Align <= ARRAYLIKE_MAX /\ Modulus <= 2 * ARRAYLIKE_MAX
  /\ DoubleBelow \in Nat /\ 2 * DoubleBelow <= ARRAYLIKE_MAX
  /\ BuilderSize \in Nat /\ 2 <= BuilderSize /\ BuilderSize <= ARRAYLIKE_MAX
  BY WidthAssumption DEF ARRAYLIKE_MAX

\* The largest capacity is a multiple, as the others are.
LEMMA LargestIsMultiple == \E q \in Nat : ARRAYLIKE_MAX = q * Align
  <1> DEFINE q == Modulus \div Align
  <1>1. Modulus \in Nat /\ Align \in Nat \ {0} /\ Modulus % Align = 0 /\ Align <= Modulus
    BY WidthAssumption
  <1>2. q \in Nat
    BY <1>1
  <1>3. Modulus = Align * q
    BY <1>1
  <1>4. q # 0
    BY <1>1, <1>3
  <1> HIDE DEF q
  <1>5. q - 1 \in Nat /\ (q - 1) * Align = Align * q - Align
    BY <1>1, <1>2, <1>4
  <1> QED BY <1>3, <1>5 DEF ARRAYLIKE_MAX

\* What a quotient is.
LEMMA Quotient ==
  ASSUME NEW m \in Nat, NEW n \in Nat \ {0}
  PROVE  /\ m \div n \in Nat /\ (m \div n) * n \in Nat
         /\ (m \div n) * n <= m /\ m < (m \div n) * n + n
  <1> DEFINE q == m \div n
             r == m % n
  <1>1. q \in Nat /\ r \in 0 .. n - 1
    OBVIOUS
  <1>2. m = n * q + r
    OBVIOUS
  <1>3. n * q = q * n /\ q * n \in Nat
    BY <1>1
  <1> HIDE DEF q, r
  <1>4. q \in Nat /\ q * n \in Nat /\ q * n <= m /\ m < q * n + n
    BY <1>1, <1>2, <1>3
  <1> QED BY <1>4 DEF q

\* reserveArray rounds up, by less than a step, and never above the longest array.
LEMMA AlignedIs ==
  ASSUME NEW n \in Nat
  PROVE  /\ Aligned(n) \in Nat /\ n <= Aligned(n) /\ Aligned(n) < n + Align
         /\ n <= ARRAYLIKE_MAX => Aligned(n) <= ARRAYLIKE_MAX
  <1> DEFINE m == n + Align - 1
             q == m \div Align
  <1>1. Align \in Nat \ {0} /\ m \in Nat
    BY Widths
  <1>2. q \in Nat /\ q * Align \in Nat /\ q * Align <= m /\ m < q * Align + Align
    <2> HIDE DEF m
    <2> QED BY <1>1, Quotient
  <1>3. Aligned(n) = q * Align
    BY DEF Aligned
  <1> HIDE DEF q
  <1>5. Aligned(n) \in Nat /\ n <= Aligned(n) /\ Aligned(n) < n + Align
    BY <1>1, <1>2, <1>3
  <1>6. ASSUME n <= ARRAYLIKE_MAX
        PROVE  Aligned(n) <= ARRAYLIKE_MAX
    <2>1. PICK p \in Nat : ARRAYLIKE_MAX = p * Align
      BY LargestIsMultiple
    <2> HIDE DEF q, m
    <2>2. q * Align < (p + 1) * Align
      <3>1. (p + 1) * Align = p * Align + Align
        BY <1>1
      <3> QED BY <1>3, <1>5, <1>6, <2>1, <3>1, <1>1, Widths
    <2>3. q < p + 1
      <3>1. q >= p + 1 => q * Align >= (p + 1) * Align
        BY <1>1, <1>2
      <3> QED BY <1>1, <1>2, <2>2, <3>1
    <2>4. q <= p => q * Align <= p * Align
      BY <1>1, <1>2
    <2> QED BY <1>2, <1>3, <2>1, <2>3, <2>4
  <1> QED BY <1>5, <1>6

\* Half as much again is at least one more from 2 on.
LEMMA OneAndHalfIs ==
  ASSUME NEW n \in Nat
  PROVE  OneAndHalf(n) \in Nat /\ n <= OneAndHalf(n) /\ 2 * OneAndHalf(n) <= 3 * n
         /\ (n >= 2 => n + 1 <= OneAndHalf(n))
  BY DEF OneAndHalf

\* In 32 bits it is the same below the wrap, and always a length.
LEMMA OneAndHalf32Is ==
  ASSUME NEW n \in Nat
  PROVE  /\ OneAndHalf32(n) \in Nat /\ OneAndHalf32(n) <= ARRAYLIKE_MAX
         /\ 3 * n < Modulus => OneAndHalf32(n) = OneAndHalf(n)
  <1> DEFINE r == (n * 3) % Modulus
  <1>1. Modulus \in Nat \ {0}
    BY Widths
  <1>2. r \in 0 .. Modulus - 1
    BY <1>1, Remainder
  <1>3. 3 * n < Modulus => r = n * 3
    BY <1>1
  <1>4. OneAndHalf32(n) = r \div 2 /\ OneAndHalf(n) = (n * 3) \div 2
    BY DEF OneAndHalf32, OneAndHalf
  <1> HIDE DEF r
  <1>5. r \div 2 \in Nat /\ 2 * (r \div 2) <= r
    BY <1>2
  <1> QED BY <1>1, <1>2, <1>3, <1>4, <1>5, Widths

\* push grows to what it needs, and never above the longest array.
LEMMA GrownIs ==
  ASSUME NEW capacity \in Nat, NEW needed \in Nat, needed <= ARRAYLIKE_MAX
  PROVE  /\ Grown(capacity, needed) \in Nat /\ needed <= Grown(capacity, needed)
         /\ Grown(capacity, needed) <= ARRAYLIKE_MAX
  <1>1. OneAndHalf32(capacity) \in Nat /\ OneAndHalf32(capacity) <= ARRAYLIKE_MAX
    BY OneAndHalf32Is
  <1> QED BY <1>1, Widths DEF Grown, AtLeast

\* A new builder has a cell for the '\0'.
LEMMA BuilderCapacityIs ==
  ASSUME NEW n \in Nat, n < ARRAYLIKE_MAX
  PROVE  /\ BuilderCapacity(n) \in Nat /\ n < BuilderCapacity(n)
         /\ BuilderCapacity(n) <= ARRAYLIKE_MAX
  <1> DEFINE big == AtLeast(BuilderSize, Aligned((n + 1) * 2))
             half == Aligned(OneAndHalf(n + 1))
  <1>1. big \in Nat /\ n + 1 <= big
    <2>1. Aligned((n + 1) * 2) \in Nat /\ n + 1 <= Aligned((n + 1) * 2)
      <3>1. (n + 1) * 2 \in Nat
        OBVIOUS
      <3> QED BY <3>1, AlignedIs
    <2> QED BY <2>1, Widths DEF AtLeast
  <1>2. half \in Nat /\ n + 1 <= half
    <2>1. OneAndHalf(n + 1) \in Nat /\ n + 1 <= OneAndHalf(n + 1)
      BY OneAndHalfIs
    <2> QED BY <2>1, AlignedIs
  <1>3. BuilderCapacity(n) = AtMost(ARRAYLIKE_MAX, IF n + 1 < DoubleBelow THEN big ELSE half)
    BY DEF BuilderCapacity
  <1> HIDE DEF big, half
  <1> QED BY <1>1, <1>2, <1>3, Widths DEF AtMost

\* The number of an element is below the length if the subscript is.
LEMMA TruncIs ==
  ASSUME NEW h \in Int
  PROVE  /\ Trunc(h) \in Int
         /\ h >= 0 => Trunc(h) \in Nat /\ \A n \in Nat : h < 2 * n => Trunc(h) < n
  BY DEF Trunc

\* An end of a slice is a place in the sequence.
LEMMA PositionIs ==
  ASSUME NEW n \in Nat, NEW h \in Int
  PROVE  Position(n, h) \in 0 .. n
  BY TruncIs DEF Position

-----------------------------------------------------------------------------
(* Sequences                                                               *)

\* A sequence, of whatever elements.
Listing(s) == Len(s) \in Nat /\ s = [i \in 1 .. Len(s) |-> s[i]]

\* Where it can be found.
LEMMA ListingIs ==
  ASSUME NEW s
  PROVE  /\ \A S : s \in Seq(S) => Listing(s)
         /\ Listing(s) => DOMAIN s = 1 .. Len(s) /\ s \in Seq({s[i] : i \in 1 .. Len(s)})
  <1>1. ASSUME NEW S, s \in Seq(S)
        PROVE  Listing(s)
    <2>1. Len(s) \in Nat /\ s \in [1 .. Len(s) -> S]
      BY <1>1, LenProperties
    <2> QED BY <2>1 DEF Listing
  <1>2. ASSUME Listing(s)
        PROVE  DOMAIN s = 1 .. Len(s) /\ s \in Seq({s[i] : i \in 1 .. Len(s)})
    <2> DEFINE S == {s[i] : i \in 1 .. Len(s)}
    <2>1. Len(s) \in Nat /\ s = [i \in 1 .. Len(s) |-> s[i]] /\ DOMAIN s = 1 .. Len(s)
      BY <1>2 DEF Listing
    <2>2. s \in [1 .. Len(s) -> S]
      BY <2>1
    <2> HIDE DEF S
    <2>3. s \in Seq(S)
      BY <2>1, <2>2, SeqDef
    <2> QED BY <2>1, <2>3 DEF S
  <1> QED BY <1>1, <1>2

\* A function on the first n numbers is one.
LEMMA ListedIs ==
  ASSUME NEW n \in Nat, NEW s, s = [i \in 1 .. n |-> s[i]]
  PROVE  Listing(s) /\ Len(s) = n
  <1>1. Len(s) = n
    OBVIOUS
  <1> QED BY <1>1 DEF Listing

\* Two with the same elements are the same.
LEMMA SameListing ==
  ASSUME NEW s, NEW t, Listing(s), Listing(t), Len(s) = Len(t),
         \A i \in 1 .. Len(s) : s[i] = t[i]
  PROVE  s = t
  BY DEF Listing

\* One behind the other.
LEMMA Joined ==
  ASSUME NEW s, NEW t, Listing(s), Listing(t)
  PROVE  /\ Listing(s \o t) /\ Len(s \o t) = Len(s) + Len(t)
         /\ \A i \in 1 .. Len(s) + Len(t) :
              (s \o t)[i] = IF i <= Len(s) THEN s[i] ELSE t[i - Len(s)]
  <1> DEFINE A == {s[i] : i \in 1 .. Len(s)}
             B == {t[i] : i \in 1 .. Len(t)}
             S == A \union B
  <1>1. s \in Seq(A) /\ t \in Seq(B)
    BY ListingIs
  <1>2. A \subseteq S /\ B \subseteq S
    OBVIOUS
  <1> HIDE DEF A, B, S
  <1>3. s \in Seq(S) /\ t \in Seq(S)
    BY <1>1, <1>2, SeqMonotonic
  <1>4. /\ s \o t \in Seq(S) /\ Len(s \o t) = Len(s) + Len(t)
        /\ \A i \in 1 .. Len(s) + Len(t) :
             (s \o t)[i] = IF i <= Len(s) THEN s[i] ELSE t[i - Len(s)]
    BY <1>3, ConcatProperties
  <1> QED BY <1>4, ListingIs

\* Brackets do not matter.
LEMMA JoinedTwice ==
  \A s, t, u : Listing(s) /\ Listing(t) /\ Listing(u) => (s \o t) \o u = s \o (t \o u)
  <1> SUFFICES ASSUME NEW s, NEW t, NEW u, Listing(s), Listing(t), Listing(u)
               PROVE  (s \o t) \o u = s \o (t \o u)
    OBVIOUS
  <1> DEFINE A == {s[i] : i \in 1 .. Len(s)}
             B == {t[i] : i \in 1 .. Len(t)}
             C == {u[i] : i \in 1 .. Len(u)}
             S == A \union B \union C
  <1>1. s \in Seq(A) /\ t \in Seq(B) /\ u \in Seq(C)
    BY ListingIs
  <1>2. A \subseteq S /\ B \subseteq S /\ C \subseteq S
    OBVIOUS
  <1> HIDE DEF A, B, C, S
  <1>3. s \in Seq(S) /\ t \in Seq(S) /\ u \in Seq(S)
    BY <1>1, <1>2, SeqMonotonic
  <1> QED BY <1>3, ConcatAssociative

\* Nothing, one element and two.
LEMMA ShortListings ==
  /\ Listing(<<>>) /\ Len(<<>>) = 0 /\ \A s : Listing(s) => s \o <<>> = s /\ <<>> \o s = s
  /\ \A c : Listing(<<c>>) /\ Len(<<c>>) = 1 /\ <<c>>[1] = c
  /\ \A c, d : Listing(<<c, d>>) /\ Len(<<c, d>>) = 2
  <1>1. Listing(<<>>) /\ Len(<<>>) = 0
    BY ListingIs, EmptySeq
  <1>2. ASSUME NEW s, Listing(s)
        PROVE  s \o <<>> = s /\ <<>> \o s = s
    BY <1>2, ListingIs, ConcatEmptySeq
  <1>3. \A c : <<c>> \in Seq({c}) /\ Len(<<c>>) = 1 /\ <<c>>[1] = c
    OBVIOUS
  <1>4. \A c, d : <<c, d>> \in Seq({c, d}) /\ Len(<<c, d>>) = 2
    OBVIOUS
  <1> QED BY <1>1, <1>2, <1>3, <1>4, ListingIs

\* The first n elements.
LEMMA FirstOnes ==
  ASSUME NEW s, Listing(s), NEW n \in Nat, n <= Len(s)
  PROVE  SubSeq(s, 1, n) = [i \in 1 .. n |-> s[i]]
  <1> DEFINE S == {s[i] : i \in 1 .. Len(s)}
  <1>1. s \in Seq(S)
    BY ListingIs
  <1> HIDE DEF S
  <1> QED BY <1>1 DEF Listing

\* The first n cells of a block.
FirstCells(x, n) == [i \in 1 .. n |-> x.payload[i - 1]]

\* As a sequence.
LEMMA FirstCellsAre ==
  ASSUME NEW x, NEW n \in Nat
  PROVE  /\ Listing(FirstCells(x, n)) /\ Len(FirstCells(x, n)) = n
         /\ \A i \in 1 .. n : FirstCells(x, n)[i] = x.payload[i - 1]
  <1> DEFINE s == FirstCells(x, n)
  <1>1. (\A i \in 1 .. n : s[i] = x.payload[i - 1]) /\ s = [i \in 1 .. n |-> s[i]]
    BY DEF FirstCells
  <1> HIDE DEF s
  <1>2. Listing(s) /\ Len(s) = n
    BY <1>1, ListedIs
  <1> QED BY <1>1, <1>2 DEF s

\* The elements of an object.
LEMMA ContentsAre ==
  ASSUME NEW x, x.length \in Nat
  PROVE  /\ Contents(x) = FirstCells(x, x.length)
         /\ Listing(Contents(x)) /\ Len(Contents(x)) = x.length
         /\ \A i \in 1 .. x.length : Contents(x)[i] = x.payload[i - 1]
  <1>1. Contents(x) = FirstCells(x, x.length)
    BY DEF Contents, FirstCells
  <1> QED BY <1>1, FirstCellsAre

\* They are those of an object with the same cells.
LEMMA SameContents ==
  ASSUME NEW x, NEW y, x.length \in Nat, y.length = x.length,
         \A i \in 0 .. x.length - 1 : y.payload[i] = x.payload[i]
  PROVE  Contents(y) = Contents(x)
  <1>1. \A i \in 1 .. x.length : i - 1 \in 0 .. x.length - 1
    OBVIOUS
  <1>2. \A i \in 1 .. x.length : y.payload[i - 1] = x.payload[i - 1]
    BY <1>1
  <1> QED BY <1>2 DEF Contents

-----------------------------------------------------------------------------
(* Objects                                                                 *)

Fields == {"type", "length", "capacity", "payload"}

\* The memory of an object, what it shows inside it, and the '\0' behind that.
Block(x) ==
  /\ DOMAIN x = Fields
  /\ x.type \in Types /\ x.length \in Nat /\ x.capacity \in 0 .. ARRAYLIKE_MAX
  /\ DOMAIN x.payload = 0 .. x.capacity - 1

Inside(x) == Block(x) /\ x.length <= x.capacity

Sound(x) ==
  /\ Inside(x)
  /\ x.type = Builder /\ x.length > 0 => x.length < x.capacity /\ x.payload[x.length] = 0

\* An array and a builder are told apart by their type.
LEMMA TypesAre ==
  /\ Boxed \in Types /\ Builder \in Types /\ TypedArrays \subseteq Types
  /\ Boxed # Builder /\ Free.type \notin Types
  BY DEF Types, TypedArrays, Boxed, Builder, Free

\* A new object has no block.
LEMMA NewIs ==
  ASSUME NEW type \in Types
  PROVE  /\ Sound(NewArray(type)) /\ NewArray(type).type = type
         /\ NewArray(type).length = 0 /\ NewArray(type).capacity = 0
  <1>1. DOMAIN NewArray(type) = Fields
    BY DEF NewArray, Fields
  <1>2. /\ NewArray(type).type = type /\ NewArray(type).length = 0
        /\ NewArray(type).capacity = 0 /\ NewArray(type).payload = <<>>
    BY DEF NewArray
  <1>3. DOMAIN <<>> = 0 .. 0 - 1
    OBVIOUS
  <1>4. 0 \in 0 .. ARRAYLIKE_MAX
    BY Widths
  <1> QED BY <1>1, <1>2, <1>3, <1>4 DEF Sound, Inside, Block

\* Only the length changes.
LEMMA LengthIs ==
  ASSUME NEW x, Block(x), NEW n \in Nat
  PROVE  /\ Block([x EXCEPT !.length = n])
         /\ [x EXCEPT !.length = n].length = n
         /\ [x EXCEPT !.length = n].type = x.type
         /\ [x EXCEPT !.length = n].capacity = x.capacity
         /\ [x EXCEPT !.length = n].payload = x.payload
  <1> DEFINE y == [x EXCEPT !.length = n]
  <1>1. DOMAIN x = Fields
    BY DEF Block
  <1>2. /\ DOMAIN y = Fields /\ y.length = n /\ y.type = x.type
        /\ y.capacity = x.capacity /\ y.payload = x.payload
    BY <1>1 DEF Fields
  <1> HIDE DEF y
  <1>3. Block(y)
    BY <1>2 DEF Block
  <1> QED BY <1>2, <1>3 DEF y

\* More cells, and the old ones as they were.
LEMMA ReserveIs ==
  ASSUME NEW x, Block(x), NEW size \in Nat, size <= ARRAYLIKE_MAX
  PROVE  /\ Block(Reserve(x, size))
         /\ Reserve(x, size).type = x.type /\ Reserve(x, size).length = x.length
         /\ size <= Reserve(x, size).capacity /\ x.capacity <= Reserve(x, size).capacity
         /\ \A i \in 0 .. x.capacity - 1 : Reserve(x, size).payload[i] = x.payload[i]
  <1> DEFINE n == Aligned(size)
             cells == [i \in 0 .. n - 1 |-> IF i < x.capacity THEN x.payload[i] ELSE Junk]
             y == [x EXCEPT !.capacity = n, !.payload = cells]
  <1>1. n \in Nat /\ size <= n /\ n <= ARRAYLIKE_MAX
    BY AlignedIs
  <1>2. x.capacity \in Nat
    BY DEF Block
  <1>3. CASE n < x.capacity
    <2>1. Reserve(x, size) = x
      BY <1>3 DEF Reserve
    <2> QED BY <1>1, <1>2, <1>3, <2>1
  <1>4. CASE x.capacity <= n
    <2>1. Reserve(x, size) = y
      BY <1>1, <1>2, <1>4 DEF Reserve
    <2>2. /\ DOMAIN y = Fields /\ y.length = x.length /\ y.type = x.type
          /\ y.capacity = n /\ y.payload = cells
      BY DEF Block, Fields
    <2>3. /\ DOMAIN cells = 0 .. n - 1
          /\ \A i \in 0 .. n - 1 : i < x.capacity => cells[i] = x.payload[i]
      OBVIOUS
    <2> HIDE DEF y, cells, n
    <2>4. Block(y)
      BY <1>1, <2>2, <2>3 DEF Block
    <2>5. \A i \in 0 .. x.capacity - 1 : y.payload[i] = x.payload[i]
      BY <1>1, <1>2, <1>4, <2>2, <2>3
    <2> QED BY <1>1, <1>4, <2>1, <2>2, <2>4, <2>5
  <1> QED BY <1>1, <1>2, <1>3, <1>4

\* It shows what it showed.
LEMMA ReserveShows ==
  ASSUME NEW x, Block(x), x.length <= x.capacity, NEW size \in Nat, size <= ARRAYLIKE_MAX
  PROVE  /\ Block(Reserve(x, size))
         /\ Reserve(x, size).type = x.type /\ Reserve(x, size).length = x.length
         /\ size <= Reserve(x, size).capacity /\ x.capacity <= Reserve(x, size).capacity
         /\ Contents(Reserve(x, size)) = Contents(x)
  <1>1. x.length \in Nat /\ x.capacity \in Nat
    BY DEF Block
  <1>2. \A i \in 0 .. x.length - 1 : i \in 0 .. x.capacity - 1
    BY <1>1
  <1> DEFINE y == Reserve(x, size)
  <1>3. /\ Block(y) /\ y.type = x.type /\ y.length = x.length
        /\ size <= y.capacity /\ x.capacity <= y.capacity
        /\ \A i \in 0 .. x.capacity - 1 : y.payload[i] = x.payload[i]
    BY ReserveIs
  <1> HIDE DEF y
  <1>4. Contents(y) = Contents(x)
    BY <1>1, <1>2, <1>3, SameContents
  <1> QED BY <1>3, <1>4 DEF y

\* A write inside the block makes no cell and leaves the others alone.
LEMMA WriteIs ==
  ASSUME NEW x, Block(x), NEW at \in Nat, NEW vs, Len(vs) \in Nat,
         at + Len(vs) <= x.capacity
  PROVE  /\ Block(Write(x, at, vs))
         /\ Write(x, at, vs).type = x.type /\ Write(x, at, vs).length = x.length
         /\ Write(x, at, vs).capacity = x.capacity
         /\ \A i \in 1 .. Len(vs) : Write(x, at, vs).payload[at + i - 1] = vs[i]
         /\ \A i \in 0 .. x.capacity - 1 : i < at \/ at + Len(vs) <= i
              => Write(x, at, vs).payload[i] = x.payload[i]
  <1> DEFINE there == at .. at + Len(vs) - 1
             cells == [i \in DOMAIN x.payload \union there |->
                        IF i \in there THEN vs[i - at + 1] ELSE x.payload[i]]
             y == [x EXCEPT !.payload = cells]
  <1>1. x.capacity \in Nat /\ DOMAIN x.payload = 0 .. x.capacity - 1
    BY DEF Block
  <1>2. Write(x, at, vs) = y
    BY DEF Write
  <1>3. /\ DOMAIN y = Fields /\ y.length = x.length /\ y.type = x.type
        /\ y.capacity = x.capacity /\ y.payload = cells
    BY DEF Block, Fields
  <1>4. DOMAIN x.payload \union there = 0 .. x.capacity - 1
    BY <1>1
  <1>5. DOMAIN cells = 0 .. x.capacity - 1
    BY <1>4
  <1>6. ASSUME NEW i \in 0 .. x.capacity - 1
        PROVE  cells[i] = IF i \in there THEN vs[i - at + 1] ELSE x.payload[i]
    BY <1>4
  <1> HIDE DEF cells, y
  <1>7. Block(y)
    BY <1>3, <1>5 DEF Block
  <1>8. ASSUME NEW i \in 1 .. Len(vs)
        PROVE  y.payload[at + i - 1] = vs[i]
    <2>1. at + i - 1 \in 0 .. x.capacity - 1 /\ at + i - 1 \in there
      BY <1>1
    <2>2. (at + i - 1) - at + 1 = i
      OBVIOUS
    <2> HIDE DEF there
    <2> QED BY <1>3, <1>6, <2>1, <2>2
  <1>9. ASSUME NEW i \in 0 .. x.capacity - 1, i < at \/ at + Len(vs) <= i
        PROVE  y.payload[i] = x.payload[i]
    <2>1. i \notin there
      BY <1>9
    <2> QED BY <1>3, <1>6, <2>1
  <1> QED BY <1>2, <1>3, <1>7, <1>8, <1>9

\* What is written stands behind the cells before it.
LEMMA WriteShows ==
  ASSUME NEW x, Block(x), NEW at \in Nat, NEW vs, Listing(vs), at + Len(vs) <= x.capacity
  PROVE  FirstCells(Write(x, at, vs), at + Len(vs)) = FirstCells(x, at) \o vs
  <1> DEFINE y == Write(x, at, vs)
             n == at + Len(vs)
             c == FirstCells(x, at)
             d == FirstCells(y, n)
             both == c \o vs
  <1>1. x.capacity \in Nat /\ Len(vs) \in Nat /\ n \in Nat
    BY DEF Block, Listing
  <1>2. /\ \A i \in 1 .. Len(vs) : y.payload[at + i - 1] = vs[i]
        /\ \A i \in 0 .. x.capacity - 1 : i < at => y.payload[i] = x.payload[i]
    BY <1>1, WriteIs
  <1> HIDE DEF y
  <1>3. /\ Listing(c) /\ Len(c) = at /\ Listing(d) /\ Len(d) = n
        /\ \A i \in 1 .. at : c[i] = x.payload[i - 1]
        /\ \A i \in 1 .. n : d[i] = y.payload[i - 1]
    BY <1>1, FirstCellsAre
  <1> HIDE DEF c, d
  <1>4. /\ Listing(both) /\ Len(both) = n
        /\ \A i \in 1 .. n : both[i] = IF i <= at THEN c[i] ELSE vs[i - at]
    BY <1>3, Joined
  <1> HIDE DEF both
  <1>5. ASSUME NEW i \in 1 .. n
        PROVE  d[i] = both[i]
    <2>1. CASE i <= at
      <3>1. i \in 1 .. at /\ i - 1 \in 0 .. x.capacity - 1 /\ i - 1 < at
        BY <1>1, <2>1
      <3> QED BY <1>2, <1>3, <1>4, <2>1, <3>1
    <2>2. CASE at < i
      <3>1. i - at \in 1 .. Len(vs) /\ at + (i - at) - 1 = i - 1 /\ ~(i <= at)
        BY <1>1, <2>2
      <3>2. y.payload[i - 1] = vs[i - at]
        BY <1>2, <3>1
      <3> QED BY <1>3, <1>4, <3>1, <3>2
    <2> QED BY <1>1, <2>1, <2>2
  <1>6. d = both
    BY <1>3, <1>4, <1>5, SameListing
  <1> QED BY <1>6 DEF c, d, both, y

\* A builder that shows all it holds but one cell, and the '\0' in that.
LEMMA TerminateIs ==
  ASSUME NEW x, Block(x), x.length < x.capacity
  PROVE  /\ Sound(Terminate(x)) /\ Terminate(x).type = x.type
         /\ Terminate(x).length = x.length /\ Terminate(x).capacity = x.capacity
         /\ Contents(Terminate(x)) = Contents(x)
  <1>1. x.length \in Nat /\ x.capacity \in Nat
    BY DEF Block
  <1> DEFINE vs == <<0>>
             y == Write(x, x.length, vs)
  <1>2. Len(vs) = 1 /\ vs[1] = 0 /\ 1 \in 1 .. Len(vs)
    OBVIOUS
  <1> HIDE DEF vs
  <1>3. x.length \in Nat /\ Len(vs) \in Nat /\ x.length + Len(vs) <= x.capacity
    BY <1>1, <1>2
  <1>4. /\ Block(y) /\ y.type = x.type /\ y.length = x.length /\ y.capacity = x.capacity
        /\ \A i \in 1 .. Len(vs) : y.payload[x.length + i - 1] = vs[i]
        /\ \A i \in 0 .. x.capacity - 1 : i < x.length => y.payload[i] = x.payload[i]
    BY <1>3, WriteIs
  <1>5. y.payload[x.length] = 0
    <2>1. x.length + 1 - 1 = x.length
      BY <1>1
    <2> HIDE DEF y
    <2> QED BY <1>2, <1>4, <2>1
  <1> HIDE DEF y
  <1>6. Sound(y)
    BY <1>1, <1>4, <1>5 DEF Sound, Inside
  <1>7. Contents(y) = Contents(x)
    <2>1. \A i \in 0 .. x.length - 1 : i \in 0 .. x.capacity - 1 /\ i < x.length
      BY <1>1
    <2> QED BY <1>1, <1>4, <2>1, SameContents
  <1> QED BY <1>4, <1>6, <1>7 DEF Terminate, y, vs

\* What is added is inside, behind what was there.
LEMMA AddIs ==
  ASSUME NEW x, Block(x), NEW vs, Listing(vs), x.length + Len(vs) <= x.capacity
  PROVE  /\ Inside(Add(x, vs)) /\ Add(x, vs).type = x.type
         /\ Add(x, vs).length = x.length + Len(vs) /\ Add(x, vs).capacity = x.capacity
         /\ Contents(Add(x, vs)) = Contents(x) \o vs
  <1> DEFINE y == Write(x, x.length, vs)
             n == x.length + Len(vs)
  <1>1. x.length \in Nat /\ x.capacity \in Nat /\ Len(vs) \in Nat /\ n \in Nat
    BY DEF Block, Listing
  <1>2. /\ Block(y) /\ y.type = x.type /\ y.capacity = x.capacity
    BY <1>1, WriteIs
  <1> HIDE DEF y, n
  <1> DEFINE z == [y EXCEPT !.length = n]
  <1>3. Block(z) /\ z.length = n /\ z.type = y.type /\ z.capacity = y.capacity
        /\ z.payload = y.payload
    BY <1>1, <1>2, LengthIs
  <1> HIDE DEF z
  <1>4. Inside(z)
    BY <1>2, <1>3 DEF Inside, n
  <1>5. Add(x, vs) = z
    BY DEF Add, y, n, z
  <1>6. Contents(z) = Contents(x) \o vs
    <2>1. Contents(z) = FirstCells(z, n) /\ Contents(x) = FirstCells(x, x.length)
      BY <1>1, <1>3, ContentsAre
    <2>2. FirstCells(z, n) = FirstCells(y, n)
      BY <1>3 DEF FirstCells
    <2>3. FirstCells(y, n) = FirstCells(x, x.length) \o vs
      BY <1>1, WriteShows DEF y, n
    <2> QED BY <2>1, <2>2, <2>3
  <1> QED BY <1>2, <1>3, <1>4, <1>5, <1>6 DEF n

\* The missing elements are made.
LEMMA FillIs ==
  ASSUME NEW x, Block(x), NEW n \in Nat, x.length <= n, n <= x.capacity
  PROVE  /\ Inside(Fill(x, n)) /\ Fill(x, n).type = x.type
         /\ Fill(x, n).length = n /\ Fill(x, n).capacity = x.capacity
         /\ Contents(Fill(x, n)) =
              [i \in 1 .. n |-> IF i <= x.length THEN Contents(x)[i] ELSE Default(x.type)]
  <1> DEFINE vs == [i \in 1 .. n - x.length |-> Default(x.type)]
             c == Contents(x)
             d == [i \in 1 .. n |-> IF i <= x.length THEN c[i] ELSE Default(x.type)]
  <1>1. x.length \in Nat /\ n - x.length \in Nat
    BY DEF Block
  <1>2. \A i \in 1 .. n - x.length : vs[i] = Default(x.type)
    OBVIOUS
  <1>3. Listing(vs) /\ Len(vs) = n - x.length
    <2>1. vs = [i \in 1 .. n - x.length |-> vs[i]]
      OBVIOUS
    <2> HIDE DEF vs
    <2> QED BY <1>1, <2>1, ListedIs
  <1>4. Fill(x, n) = Add(x, vs)
    BY DEF Fill
  <1> HIDE DEF vs
  <1>5. x.length + Len(vs) = n
    BY <1>1, <1>3
  <1>6. /\ Inside(Add(x, vs)) /\ Add(x, vs).type = x.type
        /\ Add(x, vs).length = n /\ Add(x, vs).capacity = x.capacity
        /\ Contents(Add(x, vs)) = c \o vs
    BY <1>3, <1>5, AddIs
  <1>7. c \o vs = d
    <2>1. Listing(c) /\ Len(c) = x.length
      BY <1>1, ContentsAre
    <2>2. /\ d = [i \in 1 .. n |-> d[i]]
          /\ \A i \in 1 .. n : d[i] = IF i <= x.length THEN c[i] ELSE Default(x.type)
      OBVIOUS
    <2> HIDE DEF c, d
    <2>3. Listing(d) /\ Len(d) = n
      BY <2>2, ListedIs
    <2> DEFINE both == c \o vs
    <2>4. /\ Listing(both) /\ Len(both) = n
          /\ \A i \in 1 .. n : both[i] = IF i <= x.length THEN c[i] ELSE vs[i - x.length]
      BY <1>3, <1>5, <2>1, Joined
    <2> HIDE DEF both
    <2>5. ASSUME NEW i \in 1 .. n
          PROVE  both[i] = d[i]
      <3>1. ~(i <= x.length) => i - x.length \in 1 .. n - x.length
        BY <1>1
      <3> QED BY <1>2, <2>2, <2>4, <3>1
    <2>6. both = d
      BY <2>3, <2>4, <2>5, SameListing
    <2> QED BY <2>6 DEF both
  <1> QED BY <1>4, <1>6, <1>7

\* Arrays have no '\0'.
LEMMA ArraysAreSound ==
  ASSUME NEW x, Inside(x), x.type # Builder
  PROVE  Sound(x)
  BY DEF Sound

\* What is known of an object that is sound.
LEMMA SoundIs ==
  ASSUME NEW x, Sound(x)
  PROVE  /\ Block(x) /\ Inside(x)
         /\ x.type \in Types /\ x.length \in Nat /\ x.capacity \in Nat
         /\ x.length <= x.capacity /\ x.capacity <= ARRAYLIKE_MAX
         /\ x.type = Builder => x.length < x.capacity \/ x.length = 0
  BY Widths DEF Sound, Inside, Block

-----------------------------------------------------------------------------
(* Growth                                                                  *)

\* A builder that grows for n characters has room for them and the '\0'.
LEMMA GrowIs ==
  ASSUME NEW x, Inside(x), NEW n \in Nat,
         NeedsGrowth(x, n) => x.length + n + 1 <= ARRAYLIKE_MAX
  PROVE  /\ Block(GrowStringBuilder(x, n))
         /\ GrowStringBuilder(x, n).type = x.type /\ GrowStringBuilder(x, n).length = x.length
         /\ x.length + n < GrowStringBuilder(x, n).capacity
         /\ x.capacity <= GrowStringBuilder(x, n).capacity
         /\ \A i \in 0 .. x.capacity - 1 : GrowStringBuilder(x, n).payload[i] = x.payload[i]
  <1> DEFINE m == x.length + n + 1
             size == AtMost(ARRAYLIKE_MAX, OneAndHalf(m))
  <1>1. Block(x) /\ x.length \in Nat /\ x.capacity \in Nat /\ m \in Nat
    BY DEF Inside, Block
  <1>2. CASE ~NeedsGrowth(x, n)
    <2>1. GrowStringBuilder(x, n) = x
      BY <1>2 DEF GrowStringBuilder
    <2>2. x.length + n < x.capacity
      BY <1>1, <1>2 DEF NeedsGrowth
    <2> QED BY <1>1, <2>1, <2>2
  <1>3. CASE NeedsGrowth(x, n)
    <2>1. GrowStringBuilder(x, n) = Reserve(x, size)
      BY <1>3 DEF GrowStringBuilder
    <2>2. m <= ARRAYLIKE_MAX
      BY <1>3
    <2>3. size \in Nat /\ size <= ARRAYLIKE_MAX /\ m <= size
      <3> HIDE DEF m
      <3> QED BY <1>1, <2>2, OneAndHalfIs, Widths DEF AtMost
    <2> HIDE DEF size
    <2>4. /\ Block(Reserve(x, size)) /\ Reserve(x, size).type = x.type
          /\ Reserve(x, size).length = x.length
          /\ size <= Reserve(x, size).capacity /\ x.capacity <= Reserve(x, size).capacity
          /\ \A i \in 0 .. x.capacity - 1 : Reserve(x, size).payload[i] = x.payload[i]
      BY <1>1, <2>3, ReserveIs
    <2>5. x.length + n < Reserve(x, size).capacity
      <3>1. Reserve(x, size).capacity \in Nat
        BY <2>4 DEF Block
      <3> QED BY <1>1, <2>3, <2>4, <3>1
    <2> QED BY <2>1, <2>4, <2>5
  <1> QED BY <1>2, <1>3

\* An object that grew is as sound as it was.
LEMMA GrownIsSound ==
  ASSUME NEW x, Sound(x), NEW y, Block(y), y.type = x.type, y.length = x.length,
         x.capacity <= y.capacity,
         \A i \in 0 .. x.capacity - 1 : y.payload[i] = x.payload[i]
  PROVE  Sound(y)
  <1>1. x.length \in Nat /\ x.capacity \in Nat /\ y.capacity \in Nat /\ x.length <= x.capacity
    BY DEF Sound, Inside, Block
  <1>2. ASSUME y.type = Builder, y.length > 0
        PROVE  y.length < y.capacity /\ y.payload[y.length] = 0
    <2>1. x.length < x.capacity /\ x.payload[x.length] = 0
      BY <1>2 DEF Sound
    <2>2. x.length \in 0 .. x.capacity - 1
      BY <1>1, <2>1
    <2> QED BY <1>1, <2>1, <2>2
  <1> QED BY <1>1, <1>2 DEF Sound, Inside

-----------------------------------------------------------------------------
(* @sys.input                                                              *)

\* The two loops: what is there before the first turn, and what turn i makes of it.
Start(loop) ==
  IF loop[1] = "read" THEN Reserve(NewArray(Builder), BuilderSize)
  ELSE [x |-> loop[2], escaped |-> FALSE, writePos |-> 0]

Turn(loop, s, i) ==
  IF loop[1] = "read" THEN Add(Room(s), <<loop[2][i]>>) ELSE UnescapeOne(s, i - 1)

After(f, loop, i) == IF i = 0 THEN Start(loop) ELSE Turn(loop, f[i - 1], i)

Runs(f, loop, n) == f = [i \in 0 .. n |-> After(f, loop, i)]

\* Both loops end.
LEMMA RunsExist ==
  ASSUME NEW loop, NEW n \in Nat
  PROVE  \E f : Runs(f, loop, n)
  <1> DEFINE Upto(f, k) == /\ f = [i \in 0 .. n |-> f[i]]
                           /\ \A i \in 0 .. n : i <= k => f[i] = After(f, loop, i)
             Defined == {k \in Nat : \E f : Upto(f, k)}
  <1>1. 0 \in Defined
    <2> DEFINE f == [i \in 0 .. n |-> Start(loop)]
    <2>1. f = [i \in 0 .. n |-> f[i]] /\ \A i \in 0 .. n : f[i] = Start(loop)
      OBVIOUS
    <2> HIDE DEF f
    <2>2. \A i \in 0 .. n : i <= 0 => f[i] = After(f, loop, i)
      BY <2>1 DEF After
    <2> QED BY <2>1, <2>2
  <1>2. ASSUME NEW k \in Nat, k \in Defined
        PROVE  k + 1 \in Defined
    <2>1. PICK f : Upto(f, k)
      BY <1>2
    <2> DEFINE h == [i \in 0 .. n |-> After(f, loop, i)]
    <2>2. h = [i \in 0 .. n |-> h[i]] /\ \A i \in 0 .. n : h[i] = After(f, loop, i)
      OBVIOUS
    <2> HIDE DEF h
    <2>3. ASSUME NEW i \in 0 .. n, i <= k + 1
          PROVE  h[i] = After(h, loop, i)
      <3>1. CASE i = 0
        BY <2>2, <3>1 DEF After
      <3>2. CASE i # 0
        <4>1. i - 1 \in 0 .. n /\ i - 1 <= k
          BY <2>3, <3>2
        <4>2. h[i - 1] = f[i - 1]
          BY <2>1, <2>2, <4>1
        <4> QED BY <2>2, <3>2, <4>2 DEF After
      <3> QED BY <3>1, <3>2
    <2>4. Upto(h, k + 1)
      BY <2>2, <2>3
    <2> QED BY <2>4
  <1>3. n \in Defined
    <2> HIDE DEF Defined
    <2> QED BY <1>1, <1>2, NatBySteps
  <1>4. PICK f : Upto(f, n)
    BY <1>3
  <1>5. \A i \in 0 .. n : f[i] = After(f, loop, i)
    BY <1>4
  <1>6. f = [i \in 0 .. n |-> After(f, loop, i)]
    BY <1>4, <1>5
  <1> QED BY <1>6 DEF Runs

\* The model reads a line with such a loop.
LEMMA ReadLineIs ==
  ASSUME NEW line, Len(line) \in Nat
  PROVE  \E f : /\ Runs(f, <<"read", line>>, Len(line))
                /\ ReadLine(line) = Terminate(Room(f[Len(line)]))
  <1> DEFINE loop == <<"read", line>>
             R(f) == f = [n \in 0 .. Len(line) |->
                           IF n = 0 THEN Reserve(NewArray(Builder), BuilderSize)
                           ELSE Add(Room(f[n - 1]), <<line[n]>>)]
             g == CHOOSE f : R(f)
  <1>1. ASSUME NEW f
        PROVE  Runs(f, loop, Len(line)) <=> R(f)
    <2>1. loop[1] = "read" /\ loop[2] = line
      OBVIOUS
    <2> HIDE DEF loop
    <2>2. \A n : After(f, loop, n) = IF n = 0 THEN Reserve(NewArray(Builder), BuilderSize)
                                     ELSE Add(Room(f[n - 1]), <<line[n]>>)
      BY <2>1 DEF After, Start, Turn
    <2> QED BY <2>2 DEF Runs
  <1>2. \E f : R(f)
    <2> HIDE DEF R
    <2> QED BY <1>1, RunsExist
  <1>3. R(g)
    <2> HIDE DEF R
    <2> QED BY <1>2
  <1>4. ReadLine(line) = Terminate(Room(g[Len(line)]))
    BY Zenon DEF ReadLine
  <1> HIDE DEF R, g
  <1> QED BY <1>1, <1>3, <1>4

\* And unescapes it with one.
LEMMA UnescapedIs ==
  ASSUME NEW x, x.length \in Nat
  PROVE  \E f : Runs(f, <<"unescape", x>>, x.length) /\ Unescaped(x) = f[x.length]
  <1> DEFINE loop == <<"unescape", x>>
             R(f) == f = [i \in 0 .. x.length |->
                           IF i = 0 THEN [x |-> x, escaped |-> FALSE, writePos |-> 0]
                           ELSE UnescapeOne(f[i - 1], i - 1)]
             g == CHOOSE f : R(f)
  <1>1. ASSUME NEW f
        PROVE  Runs(f, loop, x.length) <=> R(f)
    <2>1. loop[1] # "read" /\ loop[2] = x
      OBVIOUS
    <2> HIDE DEF loop
    <2>2. \A i : After(f, loop, i) = IF i = 0 THEN [x |-> x, escaped |-> FALSE, writePos |-> 0]
                                     ELSE UnescapeOne(f[i - 1], i - 1)
      BY <2>1 DEF After, Start, Turn
    <2> QED BY <2>2 DEF Runs
  <1>2. \E f : R(f)
    <2> HIDE DEF R
    <2> QED BY <1>1, RunsExist
  <1>3. R(g)
    <2> HIDE DEF R
    <2> QED BY <1>2
  <1>4. Unescaped(x) = g[x.length]
    BY Zenon DEF Unescaped
  <1> HIDE DEF R, g
  <1> QED BY <1>1, <1>3, <1>4

\* Below the wrap of the 32 bits a builder always gets room for one more character.
LEMMA RoomIs ==
  ASSUME NEW x, Inside(x), 2 <= x.capacity, 3 * (x.length + 1) < Modulus
  PROVE  /\ Block(Room(x)) /\ Room(x).type = x.type /\ Room(x).length = x.length
         /\ x.length < Room(x).capacity /\ 2 <= Room(x).capacity
         /\ Contents(Room(x)) = Contents(x)
  <1> DEFINE size == AtMost(ARRAYLIKE_MAX, OneAndHalf32(x.capacity))
  <1>1. /\ Block(x) /\ x.length \in Nat /\ x.capacity \in Nat /\ x.length <= x.capacity
    BY DEF Inside, Block
  <1>2. CASE x.length + 1 < x.capacity
    <2>1. Room(x) = x
      BY <1>1, <1>2 DEF Room
    <2> QED BY <1>1, <1>2, <2>1
  <1>3. CASE x.capacity <= x.length + 1
    <2>1. Room(x) = Reserve(x, size)
      BY <1>1, <1>3 DEF Room
    <2>2. 3 * x.capacity < Modulus
      BY <1>1, <1>3, Widths
    <2>3. OneAndHalf32(x.capacity) \in Nat /\ OneAndHalf32(x.capacity) <= ARRAYLIKE_MAX
          /\ x.capacity + 1 <= OneAndHalf32(x.capacity)
      BY <1>1, <2>2, OneAndHalfIs, OneAndHalf32Is
    <2>4. size \in Nat /\ size <= ARRAYLIKE_MAX /\ x.capacity + 1 <= size
      BY <1>1, <2>3, Widths DEF AtMost
    <2> HIDE DEF size
    <2>5. /\ Block(Reserve(x, size)) /\ Reserve(x, size).type = x.type
          /\ Reserve(x, size).length = x.length /\ size <= Reserve(x, size).capacity
          /\ \A i \in 0 .. x.capacity - 1 : Reserve(x, size).payload[i] = x.payload[i]
      BY <1>1, <2>4, ReserveIs
    <2>6. Reserve(x, size).capacity \in Nat
      BY <2>5 DEF Block
    <2>7. Contents(Reserve(x, size)) = Contents(x)
      <3>1. \A i \in 0 .. x.length - 1 : i \in 0 .. x.capacity - 1
        BY <1>1
      <3> QED BY <1>1, <2>5, <3>1, SameContents
    <2> QED BY <1>1, <2>1, <2>4, <2>5, <2>6, <2>7
  <1> QED BY <1>1, <1>2, <1>3

Prefix(s, n) == [i \in 1 .. n |-> s[i]]

\* One element more.
LEMMA PrefixNext ==
  ASSUME NEW s, NEW n \in Nat
  PROVE  Prefix(s, n + 1) = Prefix(s, n) \o <<s[n + 1]>>
  <1> DEFINE p == Prefix(s, n)
             q == Prefix(s, n + 1)
             one == <<s[n + 1]>>
             both == p \o one
  <1>1. p = [i \in 1 .. n |-> p[i]] /\ \A i \in 1 .. n : p[i] = s[i]
    BY DEF Prefix
  <1>2. q = [i \in 1 .. n + 1 |-> q[i]] /\ \A i \in 1 .. n + 1 : q[i] = s[i]
    BY DEF Prefix
  <1>3. Listing(one) /\ Len(one) = 1 /\ one[1] = s[n + 1]
    BY ShortListings
  <1> HIDE DEF p, q, one
  <1>4. Listing(p) /\ Len(p) = n /\ Listing(q) /\ Len(q) = n + 1
    BY <1>1, <1>2, ListedIs
  <1>5. /\ Listing(both) /\ Len(both) = n + 1
        /\ \A i \in 1 .. n + 1 : both[i] = IF i <= n THEN p[i] ELSE one[i - n]
    BY <1>3, <1>4, Joined
  <1> HIDE DEF both
  <1>6. ASSUME NEW i \in 1 .. n + 1
        PROVE  q[i] = both[i]
    <2>1. i <= n => i \in 1 .. n
      OBVIOUS
    <2>2. ~(i <= n) => i = n + 1 /\ i - n = 1
      OBVIOUS
    <2> QED BY <1>1, <1>2, <1>3, <1>5, <2>1, <2>2
  <1>7. q = both
    BY <1>4, <1>5, <1>6, SameListing
  <1> QED BY <1>7 DEF p, q, one, both

\* A builder of the first n characters.
Reading(x, line, n) ==
  /\ Inside(x) /\ x.type = Builder /\ x.length = n /\ 2 <= x.capacity
  /\ Contents(x) = Prefix(line, n)

\* A line that was read is a builder of its characters.
LEMMA LineRead ==
  ASSUME NEW line, Listing(line), 3 * (Len(line) + 1) < Modulus
  PROVE  Sound(ReadLine(line)) /\ ReadLine(line).type = Builder
         /\ ReadLine(line).length = Len(line) /\ Contents(ReadLine(line)) = line
  <1> DEFINE loop == <<"read", line>>
             m == Len(line)
             Empty == NewArray(Builder)
  <1>0. m \in Nat
    BY DEF Listing
  <1>1. PICK f : Runs(f, loop, m) /\ ReadLine(line) = Terminate(Room(f[m]))
    BY <1>0, ReadLineIs
  <1>2. /\ f[0] = Reserve(Empty, BuilderSize)
        /\ \A i \in 1 .. m : f[i] = Add(Room(f[i - 1]), <<line[i]>>)
    <2>1. loop[1] = "read" /\ loop[2] = line
      OBVIOUS
    <2> HIDE DEF loop
    <2>2. \A i \in 0 .. m : f[i] = After(f, loop, i)
      BY <1>1 DEF Runs
    <2>3. \A i : After(f, loop, i) = IF i = 0 THEN Reserve(Empty, BuilderSize)
                                     ELSE Add(Room(f[i - 1]), <<line[i]>>)
      BY <2>1 DEF After, Start, Turn
    <2>4. 0 \in 0 .. m /\ \A i \in 1 .. m : i \in 0 .. m /\ i # 0
      BY <1>0
    <2> HIDE DEF Empty, m
    <2> QED BY <2>2, <2>3, <2>4
  <1> HIDE DEF loop
  <1> DEFINE Good == {n \in Nat : n <= m => Reading(f[n], line, n)}
  <1>3. 0 \in Good
    <2>1. Sound(Empty) /\ Empty.type = Builder /\ Empty.length = 0
      BY TypesAre, NewIs
    <2> HIDE DEF Empty
    <2>2. Block(Empty)
      BY <2>1, SoundIs
    <2> DEFINE y == Reserve(Empty, BuilderSize)
    <2>3. Block(y) /\ y.type = Builder /\ y.length = 0 /\ BuilderSize <= y.capacity
      BY <2>1, <2>2, ReserveIs, Widths
    <2> HIDE DEF y
    <2>4. y.capacity \in Nat
      BY <2>3 DEF Block
    <2>5. Contents(y) = Prefix(line, 0)
      BY <2>3 DEF Contents, Prefix
    <2>6. Reading(y, line, 0)
      BY <2>3, <2>4, <2>5, Widths DEF Reading, Inside
    <2> QED BY <1>2, <2>6 DEF y
  <1>4. ASSUME NEW n \in Nat, n \in Good
        PROVE  n + 1 \in Good
    <2> SUFFICES ASSUME n + 1 <= m
                 PROVE  Reading(f[n + 1], line, n + 1)
      OBVIOUS
    <2> DEFINE x == f[n]
               r == Room(x)
               vs == <<line[n + 1]>>
    <2>1. Reading(x, line, n)
      BY <1>0, <1>4
    <2>2. f[n + 1] = Add(r, vs)
      <3>1. n + 1 \in 1 .. m /\ (n + 1) - 1 = n
        BY <1>0
      <3> HIDE DEF m
      <3> QED BY <1>2, <3>1
    <2>3. Listing(vs) /\ Len(vs) = 1
      BY ShortListings
    <2>4. 3 * (n + 1) < Modulus
      BY <1>0, Widths
    <2>5. Prefix(line, n + 1) = Prefix(line, n) \o vs
      BY PrefixNext
    <2> HIDE DEF x, vs
    <2>6. Block(r) /\ r.type = Builder /\ r.length = n /\ n < r.capacity /\ 2 <= r.capacity
          /\ Contents(r) = Prefix(line, n)
      <3> HIDE DEF m
      <3> QED BY <2>1, <2>4, RoomIs DEF Reading
    <2> HIDE DEF r
    <2>7. r.capacity \in Nat /\ Len(vs) \in Nat /\ r.length + Len(vs) <= r.capacity
      BY <2>3, <2>6 DEF Block
    <2>8. Inside(Add(r, vs)) /\ Add(r, vs).type = r.type
          /\ Add(r, vs).length = r.length + Len(vs) /\ Add(r, vs).capacity = r.capacity
          /\ Contents(Add(r, vs)) = Contents(r) \o vs
      BY <2>3, <2>6, <2>7, AddIs
    <2>9. Reading(Add(r, vs), line, n + 1)
      BY <2>3, <2>5, <2>6, <2>8 DEF Reading
    <2> QED BY <2>2, <2>9
  <1>5. Reading(f[m], line, m)
    <2>1. m \in Good
      <3> HIDE DEF Good
      <3> QED BY <1>0, <1>3, <1>4, NatBySteps
    <2> QED BY <1>0, <2>1
  <1>6. Block(Room(f[m])) /\ Room(f[m]).type = Builder /\ Room(f[m]).length = m
        /\ m < Room(f[m]).capacity /\ Contents(Room(f[m])) = Prefix(line, m)
    BY <1>0, <1>5, RoomIs DEF Reading
  <1>7. Prefix(line, m) = line
    BY DEF Prefix, Listing
  <1> QED BY <1>1, <1>6, <1>7, TerminateIs

\* What a backslash and the character c stand for.
Meant(c) ==
  IF c \in {Backslash, Quote} THEN <<c>>
  ELSE IF c = LetterN THEN <<Newline>> ELSE <<Backslash, c>>

\* The text from s[i] on, if f has it from the later places.
From(f, s, i) ==
  IF i > Len(s) THEN <<>>
  ELSE IF s[i] # Backslash \/ i = Len(s) THEN <<s[i]>> \o f[i + 1]
  ELSE Meant(s[i + 1]) \o f[i + 2]

Means(f, s) == \A i \in 1 .. Len(s) + 1 : f[i] = From(f, s, i)

\* A backslash and a character stand for a text of one or two.
LEMMA MeantIs ==
  \A c : Listing(Meant(c)) /\ Len(Meant(c)) \in 1 .. 2
  <1>1. \A c : Meant(c) = <<c>> \/ Meant(c) = <<Newline>> \/ Meant(c) = <<Backslash, c>>
    BY DEF Meant
  <1>2. 1 \in 1 .. 2 /\ 2 \in 1 .. 2
    OBVIOUS
  <1> QED BY <1>1, <1>2, ShortListings

\* A text can be read from its end.
LEMMA MeansExist ==
  ASSUME NEW s, Len(s) \in Nat
  PROVE  \E f : f = [i \in 1 .. Len(s) + 1 |-> From(f, s, i)]
  <1> DEFINE m == Len(s) + 1
             Upto(f, k) == /\ f = [i \in 1 .. m |-> f[i]]
                           /\ \A i \in 1 .. m : m - i < k => f[i] = From(f, s, i)
             Defined == {k \in Nat : \E f : Upto(f, k)}
  <1>1. 0 \in Defined
    <2> DEFINE f == [i \in 1 .. m |-> <<>>]
    <2>1. f = [i \in 1 .. m |-> f[i]]
      OBVIOUS
    <2> HIDE DEF f
    <2>2. \A i \in 1 .. m : ~(m - i < 0)
      OBVIOUS
    <2> QED BY <2>1, <2>2
  <1>2. ASSUME NEW k \in Nat, k \in Defined
        PROVE  k + 1 \in Defined
    <2>1. PICK f : Upto(f, k)
      BY <1>2
    <2> DEFINE h == [i \in 1 .. m |-> From(f, s, i)]
    <2>2. h = [i \in 1 .. m |-> h[i]] /\ \A i \in 1 .. m : h[i] = From(f, s, i)
      OBVIOUS
    <2> HIDE DEF h
    <2>3. \A i \in 1 .. m : m - i < k => h[i] = f[i]
      BY <2>1, <2>2
    <2>4. ASSUME NEW i \in 1 .. m, m - i < k + 1
          PROVE  h[i] = From(h, s, i)
      <3>1. i <= Len(s) => i + 1 \in 1 .. m /\ m - (i + 1) < k
        BY <2>4
      <3>2. i <= Len(s) /\ i # Len(s) => i + 2 \in 1 .. m /\ m - (i + 2) < k
        BY <2>4
      <3>3. i <= Len(s) => h[i + 1] = f[i + 1]
        BY <2>3, <3>1
      <3>4. i <= Len(s) /\ i # Len(s) => h[i + 2] = f[i + 2]
        BY <2>3, <3>2
      <3>5. From(f, s, i) = From(h, s, i)
        BY <3>3, <3>4 DEF From
      <3> QED BY <2>2, <3>5
    <2>5. Upto(h, k + 1)
      BY <2>2, <2>4
    <2> QED BY <2>5
  <1>3. m \in Defined
    <2> HIDE DEF Defined
    <2> QED BY <1>1, <1>2, NatBySteps
  <1>4. PICK f : Upto(f, m)
    BY <1>3
  <1>5. \A i \in 1 .. m : f[i] = From(f, s, i)
    <2>1. \A i \in 1 .. m : m - i < m
      OBVIOUS
    <2> QED BY <1>4, <2>1
  <1>6. f = [i \in 1 .. m |-> From(f, s, i)]
    BY <1>4, <1>5
  <1> QED BY <1>6

\* That is what the sequence of a line is.
LEMMA UnescapedMeans ==
  ASSUME NEW s, Len(s) \in Nat
  PROVE  \E f : Means(f, s) /\ Abstract!Unescaped(s) = f[1]
  <1> DEFINE R(f) == f = [i \in 1 .. Len(s) + 1 |->
               IF i > Len(s) THEN <<>>
               ELSE IF s[i] # Backslash \/ i = Len(s) THEN <<s[i]>> \o f[i + 1]
               ELSE (CASE s[i + 1] = LetterN -> <<Newline>>
                       [] s[i + 1] \in {Backslash, Quote} -> <<s[i + 1]>>
                       [] OTHER -> <<Backslash, s[i + 1]>>) \o f[i + 2]]
             g == CHOOSE f : R(f)
  <1>1. \A c : Meant(c) = CASE c = LetterN -> <<Newline>>
                            [] c \in {Backslash, Quote} -> <<c>>
                            [] OTHER -> <<Backslash, c>>
    BY DistinctAssumption DEF Meant
  <1>2. \A f : R(f) <=> f = [i \in 1 .. Len(s) + 1 |-> From(f, s, i)]
    BY <1>1 DEF From
  <1>3. \E f : R(f)
    <2> HIDE DEF R
    <2> QED BY <1>2, MeansExist
  <1>4. R(g)
    <2> HIDE DEF R
    <2> QED BY <1>3
  <1>5. Abstract!Unescaped(s) = g[1]
    BY Zenon DEF Abstract!Unescaped
  <1> HIDE DEF R, g
  <1>6. Means(g, s)
    BY <1>2, <1>4 DEF Means
  <1> QED BY <1>5, <1>6

\* Each of the rests is a sequence.
LEMMA MeansAre ==
  ASSUME NEW s, Len(s) \in Nat, NEW f, Means(f, s)
  PROVE  \A i \in 1 .. Len(s) + 1 : Listing(f[i])
  <1> DEFINE m == Len(s) + 1
             Good == {k \in Nat : \A i \in 1 .. m : m - i < k => Listing(f[i])}
  <1>1. 0 \in Good
    OBVIOUS
  <1>2. ASSUME NEW k \in Nat, k \in Good
        PROVE  k + 1 \in Good
    <2> SUFFICES ASSUME NEW i \in 1 .. m, m - i < k + 1
                 PROVE  Listing(f[i])
      OBVIOUS
    <2>1. f[i] = From(f, s, i)
      BY DEF Means
    <2>2. i <= Len(s) => Listing(f[i + 1])
      <3>1. i <= Len(s) => i + 1 \in 1 .. m /\ m - (i + 1) < k
        OBVIOUS
      <3> QED BY <1>2, <3>1
    <2>3. i <= Len(s) /\ i # Len(s) => Listing(f[i + 2])
      <3>1. i <= Len(s) /\ i # Len(s) => i + 2 \in 1 .. m /\ m - (i + 2) < k
        OBVIOUS
      <3> QED BY <1>2, <3>1
    <2>4. i <= Len(s) => Listing(<<s[i]>> \o f[i + 1])
      BY <2>2, ShortListings, Joined
    <2>5. i <= Len(s) /\ i # Len(s) => Listing(Meant(s[i + 1]) \o f[i + 2])
      BY <2>3, MeantIs, Joined
    <2> QED BY <2>1, <2>4, <2>5, ShortListings DEF From
  <1>3. m \in Good
    <2> HIDE DEF Good
    <2> QED BY <1>1, <1>2, NatBySteps
  <1>4. \A i \in 1 .. m : m - i < m
    OBVIOUS
  <1> QED BY <1>3, <1>4

\* Where the text that is not yet read begins.
Unread(s, readPos) == IF s.escaped THEN readPos ELSE readPos + 1

\* What readPos has passed: nothing is written behind it, and what was written, with
\* what the rest means, is what the line means.
Unescaping(s, x, f, readPos) ==
  /\ DOMAIN s = {"x", "escaped", "writePos"}
  /\ Block(s.x) /\ s.x.type = x.type /\ s.x.length = x.length /\ s.x.capacity = x.capacity
  /\ s.writePos \in Nat /\ s.writePos + (IF s.escaped THEN 1 ELSE 0) <= readPos
  /\ \A i \in 0 .. x.capacity - 1 : readPos <= i => s.x.payload[i] = x.payload[i]
  /\ s.escaped => readPos < x.length /\ x.payload[readPos - 1] = Backslash
  /\ FirstCells(s.x, s.writePos) \o f[Unread(s, readPos)] = f[1]

\* At i these characters are read, and then what stands at j.
Reads(f, i, chars, j) == Listing(f[j]) /\ f[i] = chars \o f[j]

\* One or two characters are written where the loop has been.
LEMMA PutIs ==
  ASSUME NEW s, NEW x, NEW f, NEW readPos \in Nat, Unescaping(s, x, f, readPos),
         NEW chars, Listing(chars), readPos + 1 <= x.capacity,
         s.writePos + Len(chars) <= readPos + 1,
         Reads(f, Unread(s, readPos), chars, readPos + 2)
  PROVE  Unescaping(Put(s, chars), x, f, readPos + 1)
  <1> DEFINE n == readPos + 1
  <1>1. /\ Block(s.x) /\ s.x.type = x.type /\ s.x.length = x.length
        /\ s.x.capacity = x.capacity /\ s.writePos \in Nat
        /\ \A i \in 0 .. x.capacity - 1 : readPos <= i => s.x.payload[i] = x.payload[i]
        /\ FirstCells(s.x, s.writePos) \o f[Unread(s, readPos)] = f[1]
    BY DEF Unescaping
  <1> DEFINE y == Write(s.x, s.writePos, chars)
             at == s.writePos + Len(chars)
             z == [x |-> y, escaped |-> FALSE, writePos |-> at]
  <1>2. x.capacity \in Nat /\ Len(chars) \in Nat /\ at \in Nat /\ at <= s.x.capacity
    BY <1>1 DEF Block, Listing
  <1>3. /\ Block(y) /\ y.type = x.type /\ y.length = x.length /\ y.capacity = x.capacity
        /\ \A i \in 0 .. x.capacity - 1 : at <= i => y.payload[i] = s.x.payload[i]
        /\ FirstCells(y, at) = FirstCells(s.x, s.writePos) \o chars
    <2> DEFINE v == s.x
               w == s.writePos
    <2>1. Block(v) /\ w \in Nat /\ Len(chars) \in Nat /\ w + Len(chars) <= v.capacity
      BY <1>1, <1>2
    <2>2. v.type = x.type /\ v.length = x.length /\ v.capacity = x.capacity
      BY <1>1
    <2>3. at = w + Len(chars) /\ y = Write(v, w, chars)
      OBVIOUS
    <2> HIDE DEF v, w, y, at
    <2>4. FirstCells(y, at) = FirstCells(v, w) \o chars
      BY <2>1, <2>3, WriteShows
    <2>5. /\ Block(y) /\ y.type = v.type /\ y.length = v.length /\ y.capacity = v.capacity
          /\ \A i \in 0 .. v.capacity - 1 : at <= i => y.payload[i] = v.payload[i]
      BY <2>1, <2>3, WriteIs
    <2> QED BY <2>2, <2>4, <2>5 DEF v, w
  <1> HIDE DEF y
  <1>4. /\ DOMAIN z = {"x", "escaped", "writePos"}
        /\ z.x = y /\ z.escaped = FALSE /\ z.writePos = at
    OBVIOUS
  <1>5. Put(s, chars) = z
    BY DEF Put, y
  <1>6. \A i \in 0 .. x.capacity - 1 : n <= i => y.payload[i] = x.payload[i]
    <2>1. \A i \in 0 .. x.capacity - 1 : n <= i => at <= i /\ readPos <= i
      BY <1>2
    <2> QED BY <1>1, <1>3, <2>1
  <1> HIDE DEF z
  <1>7. FirstCells(y, at) \o f[Unread(z, n)] = f[1]
    <2> DEFINE w == FirstCells(s.x, s.writePos)
               rest == f[readPos + 2]
    <2>1. Unread(z, n) = readPos + 2
      BY <1>4 DEF Unread
    <2>2. Listing(w) /\ Listing(rest)
      BY <1>1, FirstCellsAre DEF Reads
    <2>3. w \o (chars \o rest) = f[1]
      BY <1>1 DEF Reads
    <2>4. FirstCells(y, at) \o f[Unread(z, n)] = (w \o chars) \o rest
      BY <1>3, <2>1
    <2> HIDE DEF w, rest
    <2>5. (w \o chars) \o rest = w \o (chars \o rest)
      BY <2>2, JoinedTwice
    <2> QED BY <2>3, <2>4, <2>5
  <1>8. z.writePos \in Nat /\ z.writePos + (IF z.escaped THEN 1 ELSE 0) <= n
    BY <1>2, <1>4
  <1> HIDE DEF n, at
  <1>9. Unescaping(z, x, f, n)
    BY <1>3, <1>4, <1>6, <1>7, <1>8 DEF Unescaping
  <1> QED BY <1>5, <1>9 DEF n

\* A turn of the loop passes one character and writes no further.
LEMMA TurnIs ==
  ASSUME NEW s, NEW x, x.length \in Nat, NEW f, Means(f, Contents(x)), NEW readPos \in Nat,
         Unescaping(s, x, f, readPos), readPos < x.length, x.length < x.capacity
  PROVE  Unescaping(UnescapeOne(s, readPos), x, f, readPos + 1)
  <1> DEFINE c == s.x.payload[readPos]
             line == Contents(x)
             starts == c = Backslash /\ readPos + 1 < s.x.length
  <1>1. UnescapeOne(s, readPos) = IF s.escaped THEN Put(s, Meant(c))
                                  ELSE IF starts THEN [s EXCEPT !.escaped = TRUE]
                                  ELSE Put(s, <<c>>)
    BY DEF UnescapeOne, Meant
  <1>2. /\ s.writePos \in Nat /\ s.writePos + (IF s.escaped THEN 1 ELSE 0) <= readPos
        /\ \A i \in 0 .. x.capacity - 1 : readPos <= i => s.x.payload[i] = x.payload[i]
        /\ s.escaped => readPos < x.length /\ x.payload[readPos - 1] = Backslash
        /\ s.x.length = x.length /\ x.capacity \in Nat
    BY DEF Unescaping, Block
  <1>3. /\ Len(line) = x.length
        /\ \A i \in 1 .. x.length : line[i] = x.payload[i - 1]
        /\ \A i \in 1 .. x.length + 1 : f[i] = From(f, line, i) /\ Listing(f[i])
    BY ContentsAre, MeansAre DEF Means
  <1>4. c = line[readPos + 1]
    <2>1. readPos \in 0 .. x.capacity - 1 /\ readPos + 1 \in 1 .. x.length
          /\ (readPos + 1) - 1 = readPos
      BY <1>2
    <2> QED BY <1>2, <1>3, <2>1
  <1>5. Listing(f[readPos + 2])
    <2>1. readPos + 2 \in 1 .. x.length + 1
      OBVIOUS
    <2> QED BY <1>3, <2>1
  <1>6. readPos + 1 <= x.capacity
    BY <1>2
  <1> HIDE DEF c, line, starts
  <1>7. CASE s.escaped
    <2> DEFINE chars == Meant(c)
    <2>1. Listing(chars) /\ Len(chars) \in 1 .. 2
      BY MeantIs
    <2>2. Reads(f, Unread(s, readPos), chars, readPos + 2)
      <3>1. Unread(s, readPos) = readPos
        BY <1>7 DEF Unread
      <3>2. readPos \in 1 .. x.length /\ readPos \in 1 .. x.length + 1
            /\ readPos # x.length /\ ~(readPos > x.length)
        BY <1>2, <1>7
      <3>3. line[readPos] = Backslash
        BY <1>2, <1>3, <1>7, <3>2
      <3>4. f[readPos] = From(f, line, readPos)
        BY <1>3, <3>2
      <3>5. From(f, line, readPos) = Meant(line[readPos + 1]) \o f[readPos + 2]
        BY <1>3, <3>2, <3>3 DEF From
      <3> QED BY <1>4, <1>5, <3>1, <3>4, <3>5 DEF Reads
    <2> HIDE DEF chars
    <2>3. s.writePos + Len(chars) <= readPos + 1
      <3>1. s.writePos \in Nat /\ s.writePos + 1 <= readPos
        BY <1>2, <1>7
      <3>2. \A w \in Nat, k \in 1 .. 2 : w + 1 <= readPos => w + k <= readPos + 1
        OBVIOUS
      <3> QED BY <2>1, <3>1, <3>2
    <2>4. Unescaping(Put(s, chars), x, f, readPos + 1)
      BY <1>6, <2>1, <2>2, <2>3, PutIs
    <2> QED BY <1>1, <1>7, <2>4 DEF chars
  <1>8. CASE ~s.escaped /\ ~starts
    <2> DEFINE one == <<c>>
    <2>1. UnescapeOne(s, readPos) = Put(s, one)
      BY <1>1, <1>8
    <2>2. Listing(one) /\ Len(one) = 1
      BY ShortListings
    <2>3. Reads(f, Unread(s, readPos), one, readPos + 2)
      <3> DEFINE i == readPos + 1
      <3>1. Unread(s, readPos) = i
        BY <1>8 DEF Unread
      <3>2. i \in 1 .. x.length + 1 /\ ~(i > x.length) /\ i + 1 = readPos + 2
        OBVIOUS
      <3>3. line[i] # Backslash \/ i = x.length
        BY <1>2, <1>4, <1>8 DEF starts
      <3> HIDE DEF i
      <3>4. From(f, line, i) = <<line[i]>> \o f[i + 1]
        BY <1>3, <3>2, <3>3 DEF From
      <3>5. line[i] = c
        BY <1>4 DEF i
      <3> QED BY <1>3, <1>5, <3>1, <3>2, <3>4, <3>5 DEF Reads
    <2> HIDE DEF one
    <2>4. s.writePos + Len(one) <= readPos + 1
      BY <1>2, <1>8, <2>2
    <2>5. Unescaping(Put(s, one), x, f, readPos + 1)
      BY <1>6, <2>2, <2>3, <2>4, PutIs
    <2> QED BY <2>1, <2>5
  <1>9. CASE ~s.escaped /\ starts
    <2> DEFINE t == [s EXCEPT !.escaped = TRUE]
    <2>1. UnescapeOne(s, readPos) = t
      BY <1>1, <1>9
    <2>2. /\ DOMAIN t = {"x", "escaped", "writePos"} /\ t.x = s.x /\ t.writePos = s.writePos
          /\ t.escaped = TRUE
      BY DEF Unescaping
    <2> HIDE DEF t
    <2>3. t.writePos + (IF t.escaped THEN 1 ELSE 0) <= readPos + 1
      BY <1>2, <1>9, <2>2
    <2>4. Unread(t, readPos + 1) = Unread(s, readPos)
      BY <1>9, <2>2 DEF Unread
    <2>5. \A i \in 0 .. x.capacity - 1 : readPos + 1 <= i => s.x.payload[i] = x.payload[i]
      BY <1>2
    <2>6. readPos + 1 < x.length /\ x.payload[(readPos + 1) - 1] = Backslash
      <3>1. (readPos + 1) - 1 = readPos /\ readPos \in 0 .. x.capacity - 1
        BY <1>2
      <3> QED BY <1>2, <1>9, <3>1 DEF starts, c
    <2>7. FirstCells(t.x, t.writePos) \o f[Unread(t, readPos + 1)] = f[1]
      BY <2>2, <2>4 DEF Unescaping
    <2>8. /\ Block(s.x) /\ s.x.type = x.type /\ s.x.length = x.length
          /\ s.x.capacity = x.capacity /\ s.writePos \in Nat
      BY DEF Unescaping
    <2>9. Unescaping(t, x, f, readPos + 1)
      BY <2>2, <2>3, <2>5, <2>6, <2>7, <2>8 DEF Unescaping
    <2> QED BY <2>1, <2>9
  <1> QED BY <1>7, <1>8, <1>9

\* What unescaping leaves is a builder too, with what the line means.
LEMMA LineUnescaped ==
  ASSUME NEW x, Sound(x), x.length < x.capacity
  PROVE  Sound(Unescape(x)) /\ Unescape(x).type = x.type
         /\ Contents(Unescape(x)) = Abstract!Unescaped(Contents(x))
  <1> DEFINE loop == <<"unescape", x>>
             m == x.length
             line == Contents(x)
  <1>1. Block(x) /\ m \in Nat /\ x.capacity \in Nat
    BY SoundIs
  <1>2. PICK f : Runs(f, loop, m) /\ Unescaped(x) = f[m]
    BY <1>1, UnescapedIs
  <1>3. /\ f[0] = [x |-> x, escaped |-> FALSE, writePos |-> 0]
        /\ \A i \in 1 .. m : f[i] = UnescapeOne(f[i - 1], i - 1)
    <2>1. loop[1] # "read" /\ loop[2] = x
      OBVIOUS
    <2> HIDE DEF loop
    <2>2. \A i \in 0 .. m : f[i] = After(f, loop, i)
      BY <1>2 DEF Runs
    <2>3. \A i : After(f, loop, i) = IF i = 0 THEN [x |-> x, escaped |-> FALSE, writePos |-> 0]
                                     ELSE UnescapeOne(f[i - 1], i - 1)
      BY <2>1 DEF After, Start, Turn
    <2>4. 0 \in 0 .. m /\ \A i \in 1 .. m : i \in 0 .. m /\ i # 0
      BY <1>1
    <2> HIDE DEF m
    <2> QED BY <2>2, <2>3, <2>4
  <1> HIDE DEF loop
  <1>4. Listing(line) /\ Len(line) = m
    BY <1>1, ContentsAre
  <1>5. PICK g : Means(g, line) /\ Abstract!Unescaped(line) = g[1]
    BY <1>1, <1>4, UnescapedMeans
  <1>6. Listing(g[1]) /\ g[m + 1] = <<>>
    <2>1. 1 \in 1 .. m + 1 /\ m + 1 \in 1 .. m + 1 /\ m + 1 > m
      BY <1>1
    <2>2. g[m + 1] = From(g, line, m + 1)
      BY <1>4, <1>5, <2>1 DEF Means
    <2> HIDE DEF m, line
    <2>3. From(g, line, m + 1) = <<>>
      BY <1>4, <2>1 DEF From
    <2> QED BY <1>1, <1>4, <1>5, <2>1, <2>2, <2>3, MeansAre
  <1> HIDE DEF m
  <1> DEFINE Good == {n \in Nat : n <= m => Unescaping(f[n], x, g, n)}
  <1>7. 0 \in Good
    <2> DEFINE s == [x |-> x, escaped |-> FALSE, writePos |-> 0]
    <2>1. /\ DOMAIN s = {"x", "escaped", "writePos"}
          /\ s.x = x /\ s.escaped = FALSE /\ s.writePos = 0
      OBVIOUS
    <2> HIDE DEF s
    <2>2. FirstCells(x, 0) = <<>>
      BY DEF FirstCells
    <2>3. Unread(s, 0) = 1
      BY <2>1 DEF Unread
    <2>4. <<>> \o g[1] = g[1]
      BY <1>6, ShortListings
    <2>5. FirstCells(s.x, s.writePos) \o g[Unread(s, 0)] = g[1]
      BY <2>1, <2>2, <2>3, <2>4
    <2>6. Unescaping(s, x, g, 0)
      BY <1>1, <2>1, <2>5 DEF Unescaping
    <2> QED BY <1>3, <2>6 DEF s
  <1>8. ASSUME NEW n \in Nat, n \in Good
        PROVE  n + 1 \in Good
    <2> SUFFICES ASSUME n + 1 <= m
                 PROVE  Unescaping(f[n + 1], x, g, n + 1)
      OBVIOUS
    <2>1. Unescaping(f[n], x, g, n)
      BY <1>1, <1>8
    <2>2. f[n + 1] = UnescapeOne(f[n], n)
      <3>1. n + 1 \in 1 .. m /\ (n + 1) - 1 = n
        BY <1>1
      <3> QED BY <1>3, <3>1
    <2>3. n < x.length
      BY <1>1 DEF m
    <2>4. x.length \in Nat
      BY <1>1 DEF m
    <2> QED BY <1>5, <2>1, <2>2, <2>3, <2>4, TurnIs
  <1>9. Unescaping(f[m], x, g, m)
    <2>1. m \in Good
      <3> HIDE DEF Good
      <3> QED BY <1>1, <1>7, <1>8, NatBySteps
    <2> QED BY <1>1, <2>1
  <1> DEFINE s == f[m]
             y == [s.x EXCEPT !.length = s.writePos]
  <1> HIDE DEF s
  <1>10. /\ Block(s.x) /\ s.x.type = x.type /\ s.x.capacity = x.capacity
         /\ s.writePos \in Nat /\ s.writePos <= m
         /\ FirstCells(s.x, s.writePos) = Abstract!Unescaped(line)
    <2>1. ~s.escaped
      BY <1>1, <1>9 DEF Unescaping, s, m
    <2>2. Unread(s, m) = m + 1
      BY <2>1 DEF Unread
    <2>3. s.writePos \in Nat
      BY <1>9 DEF Unescaping, s
    <2>4. FirstCells(s.x, s.writePos) \o <<>> = g[1]
      BY <1>6, <1>9, <2>2 DEF Unescaping, s
    <2>5. FirstCells(s.x, s.writePos) = g[1]
      BY <2>3, <2>4, FirstCellsAre, ShortListings
    <2> QED BY <1>1, <1>5, <1>9, <2>1, <2>5 DEF Unescaping, s
  <1>11. /\ Block(y) /\ y.length = s.writePos /\ y.type = x.type /\ y.capacity = x.capacity
         /\ y.payload = s.x.payload
    BY <1>10, LengthIs
  <1>12. Unescape(x) = Terminate(y)
    BY <1>2 DEF Unescape, s
  <1> HIDE DEF y
  <1>13. y.length < y.capacity
    BY <1>1, <1>10, <1>11 DEF m
  <1>14. Contents(y) = Abstract!Unescaped(line)
    <2>1. FirstCells(y, y.length) = FirstCells(s.x, s.writePos)
      BY <1>11 DEF FirstCells
    <2> QED BY <1>10, <1>11, <2>1, ContentsAre
  <1> QED BY <1>11, <1>12, <1>13, <1>14, TerminateIs

-----------------------------------------------------------------------------
(* Memory                                                                  *)

\* What an object costs, with the size that frees it.
BytesOf(x) == FreeSize(x.type) * x.capacity + HeaderSize

Costs == [a \in Ids |-> BytesOf(array[a])]

Inductive ==
  /\ \A a \in Live : Sound(array[a])
  /\ held \subseteq Live
  /\ bytesAllocated = Sum(Costs, Live)
  /\ running \in BOOLEAN

\* Sums over objects are over finite sets.
LEMMA IdsFinite == IsFiniteSet(Ids) /\ \A S \in SUBSET Ids : IsFiniteSet(S)
  BY InputAssumption, FS_Subset

\* An element is freed with the size it grew by.
LEMMA SizesAre ==
  ASSUME NEW type
  PROVE  FreeSize(type) \in Nat /\ GrowSize(type) = FreeSize(type)
  <1>1. FreeSize(type) = IF type = Boxed \/ type = "ARRAY_F64" THEN 8 ELSE 1
    BY DEF FreeSize
  <1>2. GrowSize(type) = IF type = Boxed \/ type = "ARRAY_F64" THEN 8 ELSE 1
    BY DEF GrowSize
  <1> QED BY <1>1, <1>2

\* A cost is a number of bytes.
LEMMA CostIs ==
  ASSUME NEW x, x.capacity \in Nat
  PROVE  BytesOf(x) \in Nat
  <1>1. FreeSize(x.type) \in Nat
    BY SizesAre
  <1>2. FreeSize(x.type) * x.capacity \in Nat
    BY <1>1
  <1> QED BY <1>2 DEF BytesOf, HeaderSize

\* The fold of the model is the sum of the costs.
LEMMA FreedIs ==
  ASSUME NEW S, S \subseteq Ids
  PROVE  FreedBytes(S) = Sum(Costs, S)
  <1> DEFINE Q(f, T) == IF T = {} THEN 0
                        ELSE LET a == CHOOSE a \in T : TRUE
                             IN (FreeSize(array[a].type) * array[a].capacity + HeaderSize)
                                + f[T \ {a}]
             F(f) == f = [T \in SUBSET S |-> Q(f, T)]
             c == CHOOSE f : F(f)
             d == CHOOSE f : Sums(f, Costs, S)
  <1>1. FreedBytes(S) = c[S]
    BY Zenon DEF FreedBytes, MapThenSumSet, MapThenFoldSet
  <1>2. \A f : F(f) <=> Sums(f, Costs, S)
    <2>1. ASSUME NEW T \in SUBSET S, T # {}
          PROVE  Costs[OneOf(T)] = FreeSize(array[OneOf(T)].type) * array[OneOf(T)].capacity + HeaderSize
      <3>1. OneOf(T) \in T
        BY <2>1 DEF OneOf
      <3> QED BY <3>1 DEF Costs, BytesOf
    <2>2. ASSUME NEW f, NEW T \in SUBSET S
          PROVE  Added(f, Costs, T) = Q(f, T)
      BY <2>1 DEF Added, OneOf
    <2> HIDE DEF Q
    <2> QED BY <2>2 DEF Sums
  <1>3. \E f : Sums(f, Costs, S)
    BY SumsExist, IdsFinite
  <1> HIDE DEF F
  <1>4. Sums(c, Costs, S) /\ Sums(d, Costs, S)
    BY <1>2, <1>3
  <1> HIDE DEF c, d
  <1>5. c[S] = d[S]
    BY <1>4, IdsFinite, SumsAgree
  <1>6. Sum(Costs, S) = d[S]
    BY DEF Sum, d
  <1> QED BY <1>1, <1>5, <1>6

\* The sum after some parts went and one came or changed.
LEMMA SumAfter ==
  ASSUME NEW S, IsFiniteSet(S), NEW g, \A b \in S : g[b] \in Nat, NEW F, F \subseteq S,
         NEW a, a \notin F, NEW h, h[a] \in Nat, \A b \in (S \ F) \ {a} : h[b] = g[b]
  PROVE  Sum(h, (S \ F) \union {a}) =
           h[a] + Sum(g, S) - Sum(g, F) - (IF a \in S THEN g[a] ELSE 0)
  <1> DEFINE K == S \ F
             R == K \union {a}
             D == K \ {a}
  <1>1. IsFiniteSet(K) /\ IsFiniteSet(F) /\ IsFiniteSet(R) /\ IsFiniteSet(D)
    BY FS_Subset, FS_AddElement
  <1>2. K \subseteq S /\ R \ {a} = D /\ D = K \ {a} /\ D \subseteq K /\ a \in R
    OBVIOUS
  <1>3. Sum(g, S) = Sum(g, F) + Sum(g, K)
    BY SumSplit
  <1>4. (\A b \in K : g[b] \in Nat) /\ (\A b \in D : g[b] \in Nat) /\ (\A b \in R : h[b] \in Nat)
    OBVIOUS
  <1>5. Sum(h, D) = Sum(g, D)
    BY <1>1, SumSame
  <1>6. a \in S => a \in K
    OBVIOUS
  <1>7. a \notin S => D = K
    OBVIOUS
  <1> HIDE DEF K, R, D
  <1>8. Sum(h, R) = h[a] + Sum(h, D)
    BY <1>1, <1>2, <1>4, SumTake
  <1>9. Sum(g, F) \in Nat /\ Sum(g, K) \in Nat /\ Sum(g, D) \in Nat
    BY <1>1, <1>4, SumTake
  <1>10. a \in S => Sum(g, K) = g[a] + Sum(g, D) /\ g[a] \in Nat
    BY <1>1, <1>2, <1>4, <1>6, SumTake
  <1>11. Sum(h, R) = h[a] + Sum(g, S) - Sum(g, F) - (IF a \in S THEN g[a] ELSE 0)
    BY <1>3, <1>5, <1>7, <1>8, <1>9, <1>10
  <1> QED BY <1>11 DEF R, K

\* What is live after an object was stored and some were freed.
LEMMA StoredIs ==
  ASSUME NEW a \in Ids, NEW new, Sound(new), NEW size, NEW freed, freed \subseteq Live,
         a \notin freed, Stores(a, new, size, freed)
  PROVE  /\ Live' = (Live \ freed) \union {a}
         /\ array'[a] = new
         /\ \A b \in (Live \ freed) \ {a} : array'[b] = array[b]
         /\ bytesAllocated' = bytesAllocated + size - Sum(Costs, freed)
  <1>1. new # Free
    BY TypesAre, SoundIs
  <1>2. array' = [b \in Ids |-> IF b = a THEN new ELSE IF b \in freed THEN Free ELSE array[b]]
    BY DEF Stores
  <1>3. Live' = (Live \ freed) \union {a}
    BY <1>1, <1>2 DEF Live
  <1>4. Live \subseteq Ids
    BY DEF Live
  <1>5. \A b \in (Live \ freed) \ {a} : array'[b] = array[b]
    BY <1>2, <1>4
  <1>6. FreedBytes(freed) = Sum(Costs, freed)
    BY <1>4, FreedIs
  <1> QED BY <1>2, <1>3, <1>5, <1>6 DEF Stores

\* The costs of the live objects.
LEMMA CostsAre ==
  ASSUME \A a \in Live : Sound(array[a])
  PROVE  /\ IsFiniteSet(Live) /\ Live \subseteq Ids
         /\ \A a \in Live : Costs[a] = BytesOf(array[a]) /\ Costs[a] \in Nat
  <1>1. Live \subseteq Ids
    BY DEF Live
  <1>2. IsFiniteSet(Live)
    BY <1>1, IdsFinite
  <1>3. \A a \in Live : Costs[a] = BytesOf(array[a])
    BY <1>1 DEF Costs
  <1>4. \A a \in Live : array[a].capacity \in Nat
    BY SoundIs
  <1> QED BY <1>1, <1>2, <1>3, <1>4, CostIs

\* What is stored, and the bytes that come with it.
LEMMA StoresKeeps ==
  ASSUME Inductive, NEW a \in Ids, NEW new, Sound(new), NEW size, NEW freed,
         freed \subseteq Garbage, a \notin freed, Stores(a, new, size, freed),
         held' \subseteq held \union {a}, running' \in BOOLEAN,
         size = BytesOf(new) - (IF a \in Live THEN BytesOf(array[a]) ELSE 0)
  PROVE  Inductive'
  <1>1. freed \subseteq Live
    BY DEF Garbage
  <1>2. /\ Live' = (Live \ freed) \union {a}
        /\ array'[a] = new
        /\ \A b \in (Live \ freed) \ {a} : array'[b] = array[b]
        /\ bytesAllocated' = bytesAllocated + size - Sum(Costs, freed)
    BY <1>1, StoredIs
  <1>3. /\ IsFiniteSet(Live) /\ Live \subseteq Ids
        /\ \A b \in Live : Costs[b] = BytesOf(array[b]) /\ Costs[b] \in Nat
    BY CostsAre DEF Inductive
  <1>4. \A b \in Live' : Sound(array'[b])
    BY <1>2 DEF Inductive
  <1>5. held' \subseteq Live'
    BY <1>2 DEF Inductive, Garbage
  <1>6. BytesOf(new) \in Nat
    BY SoundIs, CostIs
  <1>7. Costs'[a] = BytesOf(new) /\ \A b \in (Live \ freed) \ {a} : Costs'[b] = Costs[b]
    BY <1>2, <1>3 DEF Costs
  <1>8. Sum(Costs', (Live \ freed) \union {a}) =
          Costs'[a] + Sum(Costs, Live) - Sum(Costs, freed) - (IF a \in Live THEN Costs[a] ELSE 0)
    <2> DEFINE g == Costs
               h == Costs'
               S == Live
    <2>1. h[a] \in Nat /\ \A b \in (S \ freed) \ {a} : h[b] = g[b]
      BY <1>6, <1>7
    <2>2. IsFiniteSet(S) /\ (\A b \in S : g[b] \in Nat) /\ freed \subseteq S
      BY <1>1, <1>3
    <2> HIDE DEF g, h, S
    <2>3. Sum(h, (S \ freed) \union {a}) =
            h[a] + Sum(g, S) - Sum(g, freed) - (IF a \in S THEN g[a] ELSE 0)
      BY <2>1, <2>2, SumAfter
    <2> QED BY <2>3 DEF g, h, S
  <1>9. Sum(Costs, Live) \in Nat /\ Sum(Costs, freed) \in Nat
    <2>1. IsFiniteSet(freed) /\ \A b \in freed : Costs[b] \in Nat
      BY <1>1, <1>3, IdsFinite
    <2> QED BY <1>3, <2>1, SumTake
  <1>10. bytesAllocated' = Sum(Costs', Live')
    <2>1. bytesAllocated = Sum(Costs, Live)
      BY DEF Inductive
    <2>2. a \in Live => Costs[a] = BytesOf(array[a]) /\ BytesOf(array[a]) \in Nat
      BY <1>3
    <2> QED BY <1>2, <1>6, <1>7, <1>8, <1>9, <2>1, <2>2
  <1> QED BY <1>4, <1>5, <1>10 DEF Inductive

\* A handler that leaves an object of the program sound.
LEMMA UpdateKeeps ==
  ASSUME Inductive, NEW a \in held, NEW new, Sound(new), new.type = array[a].type,
         array[a].capacity <= new.capacity, Update(a, new)
  PROVE  Inductive'
  <1>1. a \in Live /\ a \in Ids /\ a \notin Garbage /\ Sound(array[a])
    BY DEF Inductive, Live, Garbage
  <1> DEFINE size == GrowSize(new.type) * (new.capacity - array[a].capacity)
  <1>2. PICK freed : freed \subseteq Garbage /\ Stores(a, new, size, freed)
    BY DEF Update
  <1>3. held' = held /\ running' = running
    BY DEF Update
  <1>4. size = BytesOf(new) - BytesOf(array[a])
    <2> DEFINE k == FreeSize(new.type)
               p == new.capacity
               q == array[a].capacity
    <2>1. k \in Nat /\ GrowSize(new.type) = k
      BY SizesAre
    <2>2. p \in Nat /\ q \in Nat
      BY <1>1, SoundIs
    <2>3. BytesOf(new) = k * p + HeaderSize /\ BytesOf(array[a]) = k * q + HeaderSize
      BY DEF BytesOf
    <2> HIDE DEF k, p, q
    <2>4. k * (p - q) = k * p - k * q /\ k * p \in Nat /\ k * q \in Nat
      BY <2>1, <2>2
    <2>5. k * (p - q) = BytesOf(new) - BytesOf(array[a])
      BY <2>3, <2>4 DEF HeaderSize
    <2> QED BY <2>1, <2>5 DEF p, q
  <1> HIDE DEF size
  <1>5. size = BytesOf(new) - (IF a \in Live THEN BytesOf(array[a]) ELSE 0)
    BY <1>1, <1>4
  <1>6. held' \subseteq held \union {a} /\ running' \in BOOLEAN /\ a \notin freed
    BY <1>1, <1>2, <1>3 DEF Inductive
  <1> QED BY <1>1, <1>2, <1>5, <1>6, StoresKeeps

\* A handler that makes a sound object.
LEMMA InsertKeeps ==
  ASSUME Inductive, NEW a \in Ids, NEW new, Sound(new), Insert(a, new)
  PROVE  Inductive'
  <1> DEFINE size == HeaderSize + GrowSize(new.type) * new.capacity
  <1>1. PICK freed : freed \subseteq Garbage /\ Stores(a, new, size, freed)
    BY DEF Insert
  <1>2. a \notin Live /\ held' = held \union {a} /\ running' = running
    BY DEF Insert
  <1>3. size = BytesOf(new) /\ BytesOf(new) \in Nat
    <2>1. BytesOf(new) \in Nat /\ new.capacity \in Nat
      BY CostIs, SoundIs
    <2>2. GrowSize(new.type) = FreeSize(new.type) /\ FreeSize(new.type) \in Nat
      BY SizesAre
    <2>3. FreeSize(new.type) * new.capacity \in Nat
      BY <2>1, <2>2
    <2> QED BY <2>1, <2>2, <2>3 DEF BytesOf, HeaderSize
  <1> HIDE DEF size
  <1>4. size = BytesOf(new) - (IF a \in Live THEN BytesOf(array[a]) ELSE 0)
    BY <1>2, <1>3
  <1>5. held' \subseteq held \union {a} /\ running' \in BOOLEAN /\ a \notin freed
    BY <1>1, <1>2 DEF Inductive, Garbage
  <1> QED BY <1>1, <1>4, <1>5, StoresKeeps

\* The step leaves the object at a sound, and it shows s.
Leaves(a, s) ==
  \E new : /\ Sound(new) /\ new.type = array[a].type /\ array[a].capacity <= new.capacity
           /\ Contents(new) = s /\ Update(a, new)

\* The step makes a sound object of this type, which shows s.
Makes(a, type, s) ==
  \E new : Sound(new) /\ new.type = type /\ Contents(new) = s /\ Insert(a, new)

\* Both keep the invariant, whatever is shown.
LEMMA StepsKeep ==
  ASSUME Inductive
  PROVE  /\ \A a \in held : \A s : Leaves(a, s) => Inductive'
         /\ \A a \in Ids : \A type, s : Makes(a, type, s) => Inductive'
  <1>1. ASSUME NEW a \in held, NEW s, Leaves(a, s)
        PROVE  Inductive'
    BY <1>1, UpdateKeeps DEF Leaves
  <1>2. ASSUME NEW a \in Ids, NEW type, NEW s, Makes(a, type, s)
        PROVE  Inductive'
    BY <1>2, InsertKeeps DEF Makes
  <1> QED BY <1>1, <1>2

-----------------------------------------------------------------------------
(* Making objects                                                          *)

\* An object without elements.
LEMMA NothingShown ==
  ASSUME NEW x, x.length = 0
  PROVE  Contents(x) = <<>>
  BY DEF Contents

\* Nothing in a block of this many cells, and then elements.
LEMMA FirstElements ==
  ASSUME NEW type \in Types, NEW n \in Nat, n <= ARRAYLIKE_MAX, NEW vs, Listing(vs),
         Len(vs) <= n
  PROVE  LET x == Add(Reserve(NewArray(type), n), vs) IN
         /\ Inside(x) /\ x.type = type /\ x.length = Len(vs) /\ n <= x.capacity
         /\ Contents(x) = vs
  <1> DEFINE e == NewArray(type)
             r == Reserve(e, n)
  <1>1. Block(e) /\ e.type = type /\ e.length = 0
    BY NewIs, SoundIs
  <1> HIDE DEF e
  <1>2. Block(r) /\ r.type = type /\ r.length = 0 /\ n <= r.capacity
    BY <1>1, ReserveIs
  <1> HIDE DEF r
  <1>3. r.length + Len(vs) <= r.capacity /\ 0 + Len(vs) = Len(vs)
    BY <1>2 DEF Block, Listing
  <1>4. Inside(Add(r, vs)) /\ Add(r, vs).type = type /\ Add(r, vs).length = Len(vs)
        /\ Add(r, vs).capacity = r.capacity /\ Contents(Add(r, vs)) = Contents(r) \o vs
    BY <1>2, <1>3, AddIs
  <1>5. Contents(r) = <<>>
    BY <1>2, NothingShown
  <1> QED BY <1>2, <1>4, <1>5, ShortListings DEF r, e

\* The lengths that are explored are lengths.
LEMMA LengthsAre == \A n \in Lengths : n \in Nat /\ n <= ARRAYLIKE_MAX
  BY BoundAssumption, Widths

\* OP_NEW_ARRAY.
LEMMA LiteralMakes ==
  ASSUME NEW a \in Ids, NEW vs \in Pushes, NewArrayLiteral(a, vs)
  PROVE  Makes(a, Boxed, vs)
  <1> DEFINE empty == NewArray(Boxed)
             full == Add(Reserve(empty, Len(vs)), vs)
             new == IF vs = <<>> THEN empty ELSE full
  <1>1. Len(vs) \in Nat /\ Len(vs) <= ARRAYLIKE_MAX /\ Listing(vs)
    BY LengthsAre, InputAssumption, ListingIs DEF NewArrayLiteral
  <1>2. Sound(empty) /\ empty.type = Boxed /\ Contents(empty) = <<>>
    BY TypesAre, NewIs, NothingShown
  <1>3. Sound(full) /\ full.type = Boxed /\ Contents(full) = vs
    <2>1. Inside(full) /\ full.type = Boxed /\ Contents(full) = vs
      BY <1>1, TypesAre, FirstElements
    <2> HIDE DEF full
    <2> QED BY <2>1, TypesAre, ArraysAreSound
  <1>4. Insert(a, new)
    BY DEF NewArrayLiteral
  <1> HIDE DEF empty, full
  <1>5. Sound(new) /\ new.type = Boxed /\ Contents(new) = vs
    BY <1>2, <1>3
  <1> QED BY <1>4, <1>5 DEF Makes

\* Array(), F64Array() ...
LEMMA ArrayMakes ==
  ASSUME NEW a \in Ids, NEW type \in Types \ {Builder},
         NEW size \in Sizes \union {Absent}, ArrayNative(a, type, size)
  PROVE  Makes(a, type, [i \in 1 .. (IF size = Absent THEN 0 ELSE Trunc(size)) |-> Default(type)])
  <1> DEFINE length == IF size = Absent THEN 0 ELSE Trunc(size)
             e == NewArray(type)
             r == Reserve(e, length)
             x == Fill(r, length)
             s == [i \in 1 .. length |-> Default(type)]
  <1>1. length \in Nat /\ length <= ARRAYLIKE_MAX
    BY LengthsAre DEF ArrayNative
  <1>2. Insert(a, x)
    BY DEF ArrayNative
  <1> HIDE DEF length
  <1>3. Block(e) /\ e.type = type /\ e.length = 0
    BY NewIs, SoundIs
  <1> HIDE DEF e
  <1>4. Block(r) /\ r.type = type /\ r.length = 0 /\ length <= r.capacity
    BY <1>1, <1>3, ReserveIs
  <1> HIDE DEF r
  <1>5. Inside(x) /\ x.type = type /\ Contents(x) =
          [i \in 1 .. length |-> IF i <= r.length THEN Contents(r)[i] ELSE Default(r.type)]
    BY <1>1, <1>4, FillIs
  <1> HIDE DEF x
  <1>6. Sound(x)
    BY <1>5, ArraysAreSound
  <1>7. Contents(x) = s
    <2>1. \A i \in 1 .. length : ~(i <= 0)
      BY <1>1
    <2> QED BY <1>4, <1>5, <2>1
  <1> QED BY <1>2, <1>5, <1>6, <1>7 DEF Makes, length

\* A text is shorter than the longest array: a builder keeps a cell for the '\0'.
LEMMA TextIs ==
  ASSUME Inductive, NEW src \in Texts \union Ids, IsText(src)
  PROVE  /\ Listing(Text(src)) /\ Len(Text(src)) \in Nat /\ Len(Text(src)) < ARRAYLIKE_MAX
         /\ src \in Ids => /\ src \in held /\ Sound(array[src]) /\ array[src].type = Builder
                           /\ Text(src) = Contents(array[src])
                           /\ NoPointer(src) => Text(src) = <<>>
  <1>1. CASE src \in Ids
    <2> DEFINE x == array[src]
    <2>1. src \in held /\ Sound(x) /\ x.type = Builder
      BY <1>1 DEF IsText, Inductive
    <2>2. /\ x.length \in Nat /\ x.length < ARRAYLIKE_MAX
          /\ x.capacity = 0 => x.length = 0
      BY <2>1, SoundIs, Widths
    <2>3. Text(src) = Contents(x)
      BY <1>1 DEF Text
    <2>4. Listing(Contents(x)) /\ Len(Contents(x)) = x.length
      BY <2>2, ContentsAre
    <2>5. NoPointer(src) => Contents(x) = <<>>
      BY <1>1, <2>2, NothingShown DEF NoPointer
    <2> QED BY <2>1, <2>2, <2>3, <2>4, <2>5
  <1>2. CASE src \notin Ids
    <2>1. Text(src) = src /\ src \in Texts
      BY <1>2 DEF Text
    <2>2. src \in Seq(Chars) /\ Len(src) < ARRAYLIKE_MAX
      BY <2>1, BoundAssumption
    <2> QED BY <1>2, <2>1, <2>2, LenProperties, ListingIs
  <1> QED BY <1>1, <1>2

\* An empty builder with a block.
Made(n) == [NewArray(Builder) EXCEPT !.capacity = n, !.payload = [i \in 0 .. n - 1 |-> Junk]]

\* It is a block of this capacity.
LEMMA MadeIs ==
  ASSUME NEW n \in Nat, n <= ARRAYLIKE_MAX
  PROVE  Block(Made(n)) /\ Made(n).type = Builder /\ Made(n).length = 0
         /\ Made(n).capacity = n
  <1> DEFINE e == NewArray(Builder)
             cells == [i \in 0 .. n - 1 |-> Junk]
             y == [e EXCEPT !.capacity = n, !.payload = cells]
  <1>1. DOMAIN e = Fields /\ e.type = Builder /\ e.length = 0
    BY TypesAre, NewIs DEF Sound, Inside, Block
  <1>2. DOMAIN cells = 0 .. n - 1
    OBVIOUS
  <1> HIDE DEF e, cells
  <1>3. /\ DOMAIN y = Fields /\ y.type = Builder /\ y.length = 0
        /\ y.capacity = n /\ y.payload = cells
    BY <1>1 DEF Fields
  <1> HIDE DEF y
  <1>4. Block(y)
    BY <1>2, <1>3, TypesAre DEF Block
  <1>5. Made(n) = y
    BY DEF Made, y, e, cells
  <1> QED BY <1>3, <1>4, <1>5

\* StringBuilder().
LEMMA BuilderMakes ==
  ASSUME Inductive, NEW a \in Ids, NEW src \in Texts \union Ids \union {Absent},
         StringBuilderNative(a, src)
  PROVE  Makes(a, Builder, IF src # Absent /\ IsText(src) THEN Text(src) ELSE <<>>)
  <1> DEFINE given == src # Absent /\ IsText(src)
             copies == given /\ (src \in Ids => ~NoPointer(src))
             text == Text(src)
             n == BuilderCapacity(Len(text))
             copy == Terminate(Add(Made(n), text))
             empty == Terminate(Made(BuilderSize))
             new == IF copies THEN copy ELSE empty
             s == IF given THEN text ELSE <<>>
  <1>1. Insert(a, new)
    BY DEF StringBuilderNative, Made
  <1>2. Sound(empty) /\ empty.type = Builder /\ Contents(empty) = <<>>
    <2> DEFINE m == Made(BuilderSize)
    <2>1. Block(m) /\ m.length < m.capacity /\ m.length = 0 /\ m.type = Builder
      BY MadeIs, Widths
    <2> HIDE DEF m
    <2>2. Contents(m) = <<>>
      BY <2>1, NothingShown
    <2> QED BY <2>1, <2>2, TerminateIs DEF m
  <1>3. ASSUME given
        PROVE  Listing(text) /\ Len(text) \in Nat /\ Len(text) < ARRAYLIKE_MAX
               /\ (~copies => text = <<>>)
    <2>1. src \in Texts \union Ids /\ IsText(src)
      BY <1>3
    <2>2. Listing(text) /\ Len(text) \in Nat /\ Len(text) < ARRAYLIKE_MAX
      BY <2>1, TextIs
    <2>3. src \in Ids /\ NoPointer(src) => text = <<>>
      BY <2>1, TextIs
    <2> HIDE DEF text
    <2> QED BY <1>3, <2>2, <2>3
  <1>4. ASSUME copies
        PROVE  Sound(copy) /\ copy.type = Builder /\ Contents(copy) = text
    <2>1. Listing(text) /\ Len(text) \in Nat /\ Len(text) < ARRAYLIKE_MAX
      BY <1>3, <1>4
    <2> HIDE DEF text
    <2>2. n \in Nat /\ Len(text) < n /\ n <= ARRAYLIKE_MAX
      BY <2>1, BuilderCapacityIs
    <2> HIDE DEF n
    <2> DEFINE m == Made(n)
               y == Add(m, text)
    <2>3. Block(m) /\ m.length = 0 /\ m.capacity = n /\ m.type = Builder
      BY <2>2, MadeIs
    <2> HIDE DEF m
    <2>4. m.length + Len(text) <= m.capacity /\ 0 + Len(text) < n
      BY <2>1, <2>2, <2>3
    <2>5. Inside(y) /\ y.type = Builder /\ y.length = m.length + Len(text)
          /\ y.capacity = m.capacity /\ Contents(y) = Contents(m) \o text
      BY <2>1, <2>3, <2>4, AddIs
    <2>6. Contents(m) = <<>>
      BY <2>3, NothingShown
    <2>7. <<>> \o text = text
      BY <2>1, ShortListings
    <2> HIDE DEF y
    <2>8. Block(y) /\ y.length < y.capacity
      BY <2>3, <2>4, <2>5 DEF Inside
    <2> QED BY <2>5, <2>6, <2>7, <2>8, TerminateIs DEF y, m
  <1> HIDE DEF copy, empty, text
  <1>5. Sound(new) /\ new.type = Builder /\ Contents(new) = s
    BY <1>2, <1>3, <1>4
  <1> QED BY <1>1, <1>5 DEF Makes, text

-----------------------------------------------------------------------------
(* @array                                                                  *)

\* An object of the program, and whether it is an array.
LEMMA HeldIs ==
  ASSUME Inductive, NEW a \in held
  PROVE  /\ a \in Ids /\ a \in Live /\ Sound(array[a]) /\ Inside(array[a]) /\ Block(array[a])
         /\ IsArrayLike(a) <=> array[a].type # Builder
         /\ array[a].type \in Types /\ array[a].length \in Nat /\ array[a].capacity \in Nat
         /\ array[a].length <= array[a].capacity /\ array[a].capacity <= ARRAYLIKE_MAX
  <1>1. a \in Live /\ a \in Ids /\ Sound(array[a])
    BY DEF Inductive, Live
  <1> QED BY <1>1, SoundIs DEF IsArrayLike

\* setTypedArrayElement stores one cell for each value.
LEMMA CellsAre ==
  ASSUME NEW type, NEW vs \in Seq(Values \union {Nil}), NEW cells \in StoredAll(type, vs)
  PROVE  Listing(cells) /\ Len(cells) = Len(vs)
  <1> DEFINE S == UNION {Stored(type, vs[i]) : i \in DOMAIN vs}
  <1>1. cells \in [DOMAIN vs -> S]
    BY DEF StoredAll
  <1>2. DOMAIN vs = 1 .. Len(vs) /\ Len(vs) \in Nat
    BY LenProperties
  <1> HIDE DEF S
  <1>3. cells = [i \in 1 .. Len(vs) |-> cells[i]]
    BY <1>1, <1>2
  <1> QED BY <1>2, <1>3, ListedIs

\* push().
LEMMA PushLeaves ==
  ASSUME Inductive, NEW a \in held, NEW vs \in Pushes, PushNative(a, vs)
  PROVE  \E cells \in StoredAll(array[a].type, vs) : Leaves(a, Contents(array[a]) \o cells)
  <1> DEFINE x == array[a]
             newSize == x.length + Len(vs)
             needed == Aligned(newSize)
             size == Grown(x.capacity, needed)
             grows == vs # <<>> /\ needed > x.capacity
             y == IF grows THEN Reserve(x, size) ELSE x
  <1>1. /\ Block(x) /\ x.type # Builder /\ x.length \in Nat /\ x.capacity \in Nat
        /\ x.length <= x.capacity
    BY HeldIs DEF PushNative
  <1>2. vs \in Seq(Values \union {Nil}) /\ Len(vs) \in Nat
    BY InputAssumption, LenProperties
  <1>3. newSize \in Nat /\ newSize <= ARRAYLIKE_MAX
    BY <1>1, <1>2 DEF PushNative
  <1>4. PICK cells \in StoredAll(x.type, vs) : Update(a, Add(y, cells))
    BY DEF PushNative
  <1>5. Listing(cells) /\ Len(cells) = Len(vs)
    BY <1>2, CellsAre
  <1>6. vs = <<>> => Len(vs) = 0
    BY <1>2, EmptySeq
  <1> HIDE DEF x, newSize
  <1>7. needed \in Nat /\ newSize <= needed /\ needed <= ARRAYLIKE_MAX
    BY <1>3, AlignedIs
  <1> HIDE DEF needed
  <1>8. size \in Nat /\ needed <= size /\ size <= ARRAYLIKE_MAX
    BY <1>1, <1>7, GrownIs
  <1> HIDE DEF size
  <1>9. Block(y) /\ y.type = x.type /\ y.length = x.length /\ newSize <= y.capacity
        /\ x.capacity <= y.capacity /\ Contents(y) = Contents(x)
    <2>1. CASE grows
      <3>1. Block(Reserve(x, size)) /\ Reserve(x, size).type = x.type
            /\ Reserve(x, size).length = x.length /\ size <= Reserve(x, size).capacity
            /\ x.capacity <= Reserve(x, size).capacity
            /\ Contents(Reserve(x, size)) = Contents(x)
        BY <1>1, <1>8, ReserveShows
      <3>2. Reserve(x, size).capacity \in Nat
        BY <3>1 DEF Block
      <3> QED BY <1>3, <1>7, <1>8, <2>1, <3>1, <3>2
    <2>2. CASE ~grows
      <3>1. newSize <= x.capacity
        BY <1>1, <1>2, <1>3, <1>6, <1>7, <2>2 DEF newSize
      <3> QED BY <1>1, <2>2, <3>1
    <2> QED BY <2>1, <2>2
  <1> HIDE DEF y
  <1>10. Len(cells) \in Nat /\ y.length + Len(cells) <= y.capacity
    BY <1>2, <1>5, <1>9 DEF newSize
  <1>11. Inside(Add(y, cells)) /\ Add(y, cells).type = y.type
         /\ Add(y, cells).capacity = y.capacity
         /\ Contents(Add(y, cells)) = Contents(y) \o cells
    BY <1>5, <1>9, <1>10, AddIs
  <1>12. Sound(Add(y, cells))
    BY <1>1, <1>9, <1>11, ArraysAreSound
  <1> DEFINE z == Add(y, cells)
  <1> HIDE DEF z
  <1>13. /\ Sound(z) /\ z.type = x.type /\ x.capacity <= z.capacity
         /\ Contents(z) = Contents(x) \o cells /\ Update(a, z)
    BY <1>4, <1>9, <1>11, <1>12 DEF z
  <1>14. Leaves(a, Contents(x) \o cells)
    BY <1>13 DEF Leaves, x
  <1> QED BY <1>4, <1>14 DEF x

\* pop().
LEMMA PopLeaves ==
  ASSUME Inductive, NEW a \in held, PopNative(a)
  PROVE  LET s == Contents(array[a]) IN
         /\ Leaves(a, SubSeq(s, 1, Len(s) - 1))
         /\ Len(s) > 0 /\ array[a].payload[array[a].length - 1] = s[Len(s)]
  <1> DEFINE x == array[a]
             n == x.length - 1
             y == [x EXCEPT !.length = n]
  <1>1. /\ Block(x) /\ x.type # Builder /\ x.length \in Nat /\ x.capacity \in Nat
        /\ x.length <= x.capacity /\ x.length > 0
    BY HeldIs DEF PopNative
  <1>2. Update(a, y)
    BY DEF PopNative
  <1>3. n \in Nat /\ n <= x.capacity
    BY <1>1
  <1>7. n = x.length - 1 /\ n + 1 \in 1 .. x.length /\ (n + 1) - 1 = n
    BY <1>1
  <1> HIDE DEF n, x
  <1>4. /\ Block(y) /\ y.length = n /\ y.type = x.type /\ y.capacity = x.capacity
        /\ y.payload = x.payload
    BY <1>1, <1>3, LengthIs
  <1> HIDE DEF y
  <1>5. Sound(y)
    BY <1>1, <1>3, <1>4 DEF Sound, Inside
  <1>6. x.capacity <= y.capacity
    BY <1>1, <1>4
  <1> DEFINE s == Contents(x)
             u == SubSeq(s, 1, n)
  <1>8. Listing(s) /\ Len(s) = x.length /\ \A i \in 1 .. x.length : s[i] = x.payload[i - 1]
    BY <1>1, ContentsAre
  <1>9. Contents(y) = u
    <2>1. Contents(y) = [i \in 1 .. n |-> x.payload[i - 1]]
      BY <1>4 DEF Contents
    <2>2. u = [i \in 1 .. n |-> s[i]]
      BY <1>3, <1>8, FirstOnes
    <2>3. \A i \in 1 .. n : i \in 1 .. x.length
      BY <1>1, <1>3, <1>7
    <2> HIDE DEF s, u
    <2> QED BY <1>8, <2>1, <2>2, <2>3
  <1>10. x.payload[n] = s[n + 1] /\ n + 1 = x.length
    BY <1>1, <1>3, <1>7, <1>8
  <1> HIDE DEF s, u
  <1>11. Leaves(a, u)
    BY <1>2, <1>4, <1>5, <1>6, <1>9 DEF Leaves, x
  <1>12. Len(s) - 1 = n /\ Len(s) > 0
    BY <1>1, <1>7, <1>8
  <1>13. u = SubSeq(s, 1, Len(s) - 1)
    BY <1>12 DEF u
  <1>14. x.payload[x.length - 1] = s[Len(s)]
    BY <1>7, <1>8, <1>10
  <1> QED BY <1>11, <1>12, <1>13, <1>14 DEF s, x

\* resize().
LEMMA ResizeLeaves ==
  ASSUME Inductive, NEW a \in held, NEW size \in Sizes, ResizeNative(a, size)
  PROVE  Leaves(a, [i \in 1 .. Trunc(size) |->
           IF i <= array[a].length THEN Contents(array[a])[i] ELSE Default(array[a].type)])
  <1> DEFINE x == array[a]
             n == Trunc(size)
             r == Reserve(x, n)
             y == IF n > x.length THEN Fill(r, n) ELSE [x EXCEPT !.length = n]
             s == [i \in 1 .. n |-> IF i <= x.length THEN Contents(x)[i] ELSE Default(x.type)]
  <1>1. /\ Block(x) /\ x.type # Builder /\ x.length \in Nat /\ x.capacity \in Nat
        /\ x.length <= x.capacity
    BY HeldIs DEF ResizeNative
  <1>2. n \in Nat /\ n <= ARRAYLIKE_MAX
    BY LengthsAre DEF ResizeNative
  <1>3. Update(a, y)
    BY DEF ResizeNative
  <1> HIDE DEF n, x
  <1>4. Inside(y) /\ y.type = x.type /\ x.capacity <= y.capacity /\ Contents(y) = s
    <2>1. CASE n > x.length
      <3>1. Block(r) /\ r.type = x.type /\ r.length = x.length /\ n <= r.capacity
            /\ x.capacity <= r.capacity /\ Contents(r) = Contents(x)
        BY <1>1, <1>2, ReserveShows
      <3> HIDE DEF r
      <3>2. Inside(Fill(r, n)) /\ Fill(r, n).type = r.type /\ Fill(r, n).capacity = r.capacity
            /\ Contents(Fill(r, n)) =
                 [i \in 1 .. n |-> IF i <= r.length THEN Contents(r)[i] ELSE Default(r.type)]
        BY <1>1, <1>2, <2>1, <3>1, FillIs
      <3> QED BY <2>1, <3>1, <3>2
    <2>2. CASE ~(n > x.length)
      <3> DEFINE z == [x EXCEPT !.length = n]
      <3>1. /\ Block(z) /\ z.length = n /\ z.type = x.type /\ z.capacity = x.capacity
            /\ z.payload = x.payload
        BY <1>1, <1>2, LengthIs
      <3>2. y = z
        BY <2>2
      <3>4. \A i \in 1 .. n : i <= x.length /\ i \in 1 .. x.length
        BY <1>1, <1>2, <2>2
      <3> HIDE DEF z, y
      <3>3. n <= x.capacity /\ x.capacity <= x.capacity
        BY <1>1, <1>2, <2>2
      <3>5. \A i \in 1 .. x.length : Contents(x)[i] = x.payload[i - 1]
        BY <1>1, ContentsAre
      <3>6. Contents(z) = s
        BY <3>1, <3>4, <3>5 DEF Contents
      <3> HIDE DEF s
      <3> QED BY <3>1, <3>2, <3>3, <3>6 DEF Inside
    <2> QED BY <2>1, <2>2
  <1> HIDE DEF y, s
  <1>5. Sound(y)
    BY <1>1, <1>4, ArraysAreSound
  <1>6. Leaves(a, s)
    BY <1>3, <1>4, <1>5 DEF Leaves, x
  <1> QED BY <1>6 DEF s, x, n

\* What lies between two places of a sequence, and the places that are cut at.
Between(s, b, e) == [k \in 1 .. e - b |-> s[k + b]]
CutFrom(n, h) == IF h = Absent THEN 0 ELSE Position(n, h)
CutTo(n, h) == IF h = Absent THEN n ELSE Position(n, h)

\* A slice of a sequence is what lies between them.
LEMMA SectionIs ==
  ASSUME NEW s, Listing(s), NEW f \in Cuts \union {Absent}, NEW t \in Cuts \union {Absent}
  PROVE  /\ CutFrom(Len(s), f) \in 0 .. Len(s) /\ CutTo(Len(s), t) \in 0 .. Len(s)
         /\ Abstract!Section(s, f, t) = Between(s, CutFrom(Len(s), f), CutTo(Len(s), t))
  <1> DEFINE n == Len(s)
             b == CutFrom(n, f)
             e == CutTo(n, t)
             P(h) == IF Abstract!Trunc(h) < 0 THEN n + Abstract!Trunc(h) ELSE Abstract!Trunc(h)
             before == {i \in DOMAIN s : f # Absent /\ i <= P(f)}
             behind == {i \in DOMAIN s : t # Absent /\ i > P(t)}
             inside == DOMAIN s \ (before \union behind)
  <1>1. n \in Nat /\ DOMAIN s = 1 .. n
    BY ListingIs DEF Listing
  <1>3. Abstract!Section(s, f, t) = [k \in 1 .. Cardinality(inside) |-> s[k + Cardinality(before)]]
    BY Zenon DEF Abstract!Section, Abstract!Cardinality, Cardinality
  <1> HIDE DEF n
  <1>4. \A h \in Cuts : /\ P(h) \in Int /\ Position(n, h) \in 0 .. n
                        /\ \A i \in 1 .. n : i <= P(h) <=> i <= Position(n, h)
    <2> SUFFICES ASSUME NEW h \in Cuts
                 PROVE  /\ P(h) \in Int /\ Position(n, h) \in 0 .. n
                        /\ \A i \in 1 .. n : i <= P(h) <=> i <= Position(n, h)
      OBVIOUS
    <2>1. h \in Int /\ Trunc(h) \in Int
      BY InputAssumption, TruncIs
    <2>0. Abstract!Trunc(h) = Trunc(h)
      BY DEF Abstract!Trunc, Trunc
    <2>2. P(h) \in Int
      BY <1>1, <2>0, <2>1
    <2>3. Position(n, h) = IF P(h) < 0 THEN 0 ELSE IF P(h) > n THEN n ELSE P(h)
      BY <2>0 DEF Position
    <2> HIDE DEF P
    <2> QED BY <1>1, <2>2, <2>3
  <1> HIDE DEF P
  <1>5. b \in 0 .. n /\ e \in 0 .. n
    BY <1>1, <1>4 DEF CutFrom, CutTo
  <1>6. before = 1 .. b
    BY <1>1, <1>4 DEF CutFrom
  <1>7. \A i \in 1 .. n : (t # Absent /\ i > P(t)) <=> i > e
    BY <1>1, <1>4 DEF CutTo
  <1> HIDE DEF b, e, before
  <1>8. inside = b + 1 .. e
    BY <1>1, <1>5, <1>6, <1>7
  <1> HIDE DEF inside
  <1>9. Cardinality(before) = b
    BY <1>5, <1>6, FS_Interval
  <1>10. Cardinality(inside) = IF b + 1 > e THEN 0 ELSE e - b
    <2>1. b + 1 \in Int /\ e \in Int /\ (e - (b + 1)) + 1 = e - b
      BY <1>1, <1>5
    <2> QED BY <1>8, <2>1, FS_Interval
  <1>11. 1 .. Cardinality(inside) = 1 .. e - b
    BY <1>1, <1>5, <1>10
  <1>12. Abstract!Section(s, f, t) = [k \in 1 .. e - b |-> s[k + b]]
    BY <1>3, <1>9, <1>11
  <1> QED BY <1>5, <1>12 DEF Between, b, e, n

\* slice() of an array.
LEMMA SliceMakes ==
  ASSUME Inductive, NEW a \in held, NEW b \in Ids, NEW from \in Cuts \union {Absent},
         NEW to \in Cuts \union {Absent}, SliceNative(a, b, from, to)
  PROVE  Makes(b, array[a].type, Abstract!Section(Contents(array[a]), from, to))
  <1> DEFINE x == array[a]
             start == CutFrom(x.length, from)
             end == CutTo(x.length, to)
             first == IF start > end THEN end ELSE start
             copied == [i \in 1 .. end - first |-> x.payload[first + i - 1]]
             empty == NewArray(x.type)
             full == Add(Reserve(empty, Len(copied)), copied)
             s == Contents(x)
  <1>1. x.type # Builder /\ x.type \in Types /\ x.length \in Nat
    BY HeldIs DEF SliceNative
  <1>2. Len(copied) \in Nat /\ Len(copied) <= ARRAYLIKE_MAX
    BY LengthsAre DEF SliceNative, CutFrom, CutTo
  <1>3. Insert(b, IF copied = <<>> THEN empty ELSE full)
    BY DEF SliceNative, CutFrom, CutTo
  <1> HIDE DEF x
  <1>6. Listing(s) /\ Len(s) = x.length /\ \A i \in 1 .. x.length : s[i] = x.payload[i - 1]
    BY <1>1, ContentsAre
  <1>7. start \in 0 .. x.length /\ end \in 0 .. x.length
        /\ Abstract!Section(s, from, to) = [k \in 1 .. end - start |-> s[k + start]]
    <2> HIDE DEF s
    <2>1. /\ CutFrom(Len(s), from) \in 0 .. Len(s) /\ CutTo(Len(s), to) \in 0 .. Len(s)
          /\ Abstract!Section(s, from, to) = Between(s, CutFrom(Len(s), from), CutTo(Len(s), to))
      BY <1>6, SectionIs
    <2> QED BY <1>6, <2>1 DEF Between
  <1>8. copied = [i \in 1 .. end - first |-> copied[i]]
    OBVIOUS
  <1>9. copied = Abstract!Section(s, from, to)
    <2> HIDE DEF start, end, s
    <2>1. 1 .. end - first = 1 .. end - start
      BY <1>1, <1>7
    <2>2. ASSUME NEW i \in 1 .. end - start
          PROVE  x.payload[first + i - 1] = s[i + start]
      <3>1. first = start /\ i + start \in 1 .. x.length /\ (i + start) - 1 = start + i - 1
        BY <1>1, <1>7
      <3> QED BY <1>6, <3>1
    <2> QED BY <1>7, <2>1, <2>2
  <1>10. end - first \in Nat
    <2> HIDE DEF start, end
    <2> QED BY <1>1, <1>7
  <1> HIDE DEF copied, first, end
  <1>11. Listing(copied)
    BY <1>8, <1>10, ListedIs
  <1>4. Sound(empty) /\ empty.type = x.type /\ Contents(empty) = <<>>
    BY <1>1, NewIs, NothingShown
  <1>5. Sound(full) /\ full.type = x.type /\ Contents(full) = copied
    <2>1. Inside(full) /\ full.type = x.type /\ Contents(full) = copied
      BY <1>1, <1>2, <1>11, FirstElements
    <2> HIDE DEF full
    <2> QED BY <1>1, <2>1, ArraysAreSound
  <1> DEFINE new == IF copied = <<>> THEN empty ELSE full
  <1> HIDE DEF empty, full
  <1>12. Sound(new) /\ new.type = x.type /\ Contents(new) = copied /\ Insert(b, new)
    BY <1>3, <1>4, <1>5
  <1> HIDE DEF new
  <1>13. Makes(b, x.type, copied)
    BY <1>12 DEF Makes
  <1> QED BY <1>9, <1>13 DEF s, x

-----------------------------------------------------------------------------
(* @string and @sys.input                                                  *)

\* append(), to itself too.
LEMMA AppendLeaves ==
  ASSUME Inductive, NEW b \in held, NEW src \in Texts \union held, AppendNative(b, src)
  PROVE  Leaves(b, Contents(array[b]) \o Text(src))
  <1> DEFINE x == array[b]
             n == Len(Text(src))
             grown == GrowStringBuilder(x, n)
             mine == [i \in 1 .. n |-> grown.payload[i - 1]]
             chars == IF src = b THEN mine ELSE Text(src)
             nothing == src \in Ids \ {b} /\ NoPointer(src)
             longer == Terminate(Add(grown, chars))
  <1>1. /\ Sound(x) /\ Inside(x) /\ x.type = Builder
        /\ x.length \in Nat /\ x.capacity \in Nat
    BY HeldIs DEF AppendNative
  <1> DEFINE text == Text(src)
  <1>2. /\ n \in Nat /\ Listing(text) /\ Len(text) = n
        /\ nothing => text = <<>>
        /\ src = b => text = Contents(x)
    <2>1. src \in Texts \union Ids /\ IsText(src) /\ b \in Ids
      BY HeldIs DEF AppendNative
    <2> QED BY <2>1, TextIs
  <1>3. NeedsGrowth(x, n) => x.length + n + 1 <= ARRAYLIKE_MAX
    BY DEF AppendNative
  <1>4. Update(b, IF nothing THEN grown ELSE longer)
    BY DEF AppendNative
  <1>9. chars = IF src = b THEN mine ELSE text
    OBVIOUS
  <1>10. mine = FirstCells(grown, n)
    BY DEF FirstCells
  <1> HIDE DEF nothing, x, chars, n, mine, text
  <1>6. /\ Block(grown) /\ grown.type = x.type /\ grown.length = x.length
        /\ x.length + n < grown.capacity /\ x.capacity <= grown.capacity
        /\ \A i \in 0 .. x.capacity - 1 : grown.payload[i] = x.payload[i]
    BY <1>1, <1>2, <1>3, GrowIs
  <1> HIDE DEF grown
  <1>7. Sound(grown)
    BY <1>1, <1>6, GrownIsSound
  <1>11. Contents(grown) = Contents(x)
    <2>1. \A i \in 0 .. x.length - 1 : i \in 0 .. x.capacity - 1
      BY <1>1 DEF Inside
    <2> QED BY <1>1, <1>6, <2>1, SameContents
  <1>5. chars = text /\ Len(chars) = n /\ Listing(chars)
    <2>1. CASE src = b
      <3>1. text = Contents(x) /\ Len(Contents(x)) = x.length
        BY <1>1, <1>2, <2>1, ContentsAre
      <3>2. n = x.length
        BY <1>2, <3>1
      <3>3. FirstCells(grown, n) = Contents(grown)
        BY <1>1, <1>6, <3>2, ContentsAre
      <3> QED BY <1>2, <1>9, <1>10, <1>11, <2>1, <3>1, <3>3
    <2>2. CASE src # b
      BY <1>2, <1>9, <2>2
    <2> QED BY <2>1, <2>2
  <1>8. Sound(longer) /\ longer.type = x.type /\ x.capacity <= longer.capacity
        /\ Contents(longer) = Contents(x) \o text
    <2> DEFINE y == Add(grown, chars)
    <2>1. Len(chars) \in Nat /\ grown.length + Len(chars) <= grown.capacity
          /\ grown.length + Len(chars) < grown.capacity
      BY <1>1, <1>2, <1>5, <1>6 DEF Block
    <2>2. Inside(y) /\ y.type = grown.type /\ y.length = grown.length + Len(chars)
          /\ y.capacity = grown.capacity /\ Contents(y) = Contents(grown) \o chars
      BY <1>5, <1>6, <2>1, AddIs
    <2> HIDE DEF y
    <2>3. Block(y) /\ y.length < y.capacity
      BY <2>1, <2>2 DEF Inside
    <2>4. Sound(Terminate(y)) /\ Terminate(y).type = y.type
          /\ Terminate(y).capacity = y.capacity /\ Contents(Terminate(y)) = Contents(y)
      BY <2>3, TerminateIs
    <2> QED BY <1>5, <1>6, <1>11, <2>2, <2>4 DEF y
  <1>12. nothing => Contents(grown) = Contents(x) \o text
    <2>1. Listing(Contents(x))
      BY <1>1, ContentsAre
    <2> QED BY <1>2, <1>11, <2>1, ShortListings
  <1> DEFINE new == IF nothing THEN grown ELSE longer
             s == Contents(x) \o text
  <1> HIDE DEF longer, s
  <1>13. Sound(new) /\ new.type = x.type /\ x.capacity <= new.capacity
         /\ Contents(new) = s /\ Update(b, new)
    BY <1>4, <1>6, <1>7, <1>8, <1>12 DEF s
  <1> HIDE DEF new
  <1>14. Leaves(b, s)
    BY <1>13 DEF Leaves, x
  <1> QED BY <1>14 DEF s, x, text

\* slice() of text.
LEMMA TextSliceMakes ==
  ASSUME Inductive, NEW b \in Ids, NEW src \in Texts \union held, NEW from \in Cuts,
         NEW to \in Cuts \union {Absent}, IsText(src), TextSliceNative(b, src, from, to)
  PROVE  Makes(b, Builder, Abstract!Section(Text(src), from, to))
  <1> DEFINE text == Text(src)
             n == Len(text)
             begin == Position(n, from)
             i == Trunc(to) + (IF Trunc(to) < 0 THEN n ELSE 0)
             end == IF to = Absent THEN n
                    ELSE IF i < begin THEN begin ELSE IF i > n THEN n ELSE i
             copied == [j \in 1 .. end - begin |-> text[begin + j]]
             size == Len(copied) + 1
             empty == NewArray(Builder)
             y == Add(Reserve(empty, size), copied)
             full == Terminate(y)
  <1>1. Insert(b, IF copied = <<>> THEN empty ELSE full)
    BY DEF TextSliceNative
  <1> DEFINE upto == CutTo(n, to)
             part == Abstract!Section(text, from, to)
  <1>2. n \in Nat /\ n < ARRAYLIKE_MAX /\ Listing(text)
    <2>1. src \in Texts \union Ids
      BY HeldIs
    <2> QED BY <2>1, TextIs
  <1>12. upto \in 0 .. n /\ part = [k \in 1 .. upto - begin |-> text[k + begin]]
    <2>1. from # Absent /\ from \in Cuts \union {Absent}
      BY DistinctAssumption
    <2>2. begin = CutFrom(n, from)
      BY <2>1 DEF CutFrom
    <2> HIDE DEF text
    <2>3. upto \in 0 .. n /\ part = Between(text, CutFrom(n, from), upto)
      BY <1>2, <2>1, SectionIs
    <2> QED BY <2>2, <2>3 DEF Between
  <1>3. begin \in 0 .. n
    <2>1. from \in Int
      BY InputAssumption
    <2> HIDE DEF n
    <2> QED BY <1>2, <2>1, PositionIs
  <1>4. end \in begin .. n
    <2>1. to # Absent => Trunc(to) \in Int
      BY InputAssumption, TruncIs
    <2> HIDE DEF n, begin
    <2> QED BY <1>2, <1>3, <2>1
  <1>13. end = IF upto < begin THEN begin ELSE upto
    <2>1. to # Absent => Trunc(to) \in Int
      BY InputAssumption, TruncIs
    <2> HIDE DEF n, begin
    <2> QED BY <1>2, <1>3, <2>1 DEF Position, CutTo
  <1> HIDE DEF n, begin, end, text, upto, part
  <1>14. copied = part
    <2>1. 1 .. end - begin = 1 .. upto - begin
      BY <1>2, <1>3, <1>12, <1>13
    <2>2. \A k \in 1 .. upto - begin : begin + k = k + begin
      BY <1>2, <1>3, <1>12
    <2> QED BY <1>12, <2>1, <2>2
  <1>5. Listing(copied) /\ Len(copied) = end - begin
    <2>1. copied = [k \in 1 .. end - begin |-> copied[k]] /\ end - begin \in Nat
      BY <1>2, <1>3, <1>4
    <2> HIDE DEF copied
    <2> QED BY <2>1, ListedIs
  <1>6. Len(copied) \in Nat /\ Len(copied) < ARRAYLIKE_MAX
    BY <1>2, <1>3, <1>4, <1>5, Widths
  <1>7. Sound(empty) /\ empty.type = Builder /\ Contents(empty) = <<>>
    BY TypesAre, NewIs, NothingShown
  <1> HIDE DEF copied
  <1>8. size \in Nat /\ size <= ARRAYLIKE_MAX /\ Len(copied) <= size /\ Len(copied) < size
    BY <1>6, Widths
  <1> HIDE DEF size
  <1>9. Inside(y) /\ y.type = Builder /\ y.length = Len(copied) /\ size <= y.capacity
        /\ Contents(y) = copied
    BY <1>5, <1>6, <1>8, TypesAre, FirstElements
  <1> HIDE DEF y
  <1>10. Block(y) /\ y.length < y.capacity
    BY <1>6, <1>8, <1>9 DEF Inside, Block
  <1>11. Sound(full) /\ full.type = Builder /\ Contents(full) = copied
    BY <1>9, <1>10, TerminateIs
  <1> DEFINE new == IF copied = <<>> THEN empty ELSE full
  <1> HIDE DEF empty, full
  <1>15. Sound(new) /\ new.type = Builder /\ Contents(new) = copied /\ Insert(b, new)
    BY <1>1, <1>7, <1>11
  <1> HIDE DEF new
  <1>16. Makes(b, Builder, copied)
    BY <1>15 DEF Makes
  <1> QED BY <1>14, <1>16 DEF part, text

\* input().
LEMMA InputMakes ==
  ASSUME Inductive, LinesFit, NEW b \in Ids, NEW line \in Lines, InputNative(b, line)
  PROVE  Makes(b, Builder, Abstract!Unescaped(line))
  <1> DEFINE x == ReadLine(line)
             y == Unescape(x)
  <1>1. line \in Seq(Chars) /\ 3 * (Len(line) + 1) < Modulus
    BY BoundAssumption DEF LinesFit
  <1> DEFINE s == Abstract!Unescaped(line)
  <1>2. Len(line) \in Nat /\ Listing(line)
    BY <1>1, LenProperties, ListingIs
  <1>3. Sound(x) /\ x.type = Builder /\ x.length = Len(line) /\ Contents(x) = line
    BY <1>1, <1>2, LineRead
  <1>6. line = <<>> => s = <<>>
    <2> SUFFICES ASSUME line = <<>>
                 PROVE  s = <<>>
      OBVIOUS
    <2>1. PICK f : Means(f, line) /\ s = f[1]
      BY <1>2, UnescapedMeans
    <2>2. Len(line) = 0 /\ 1 \in 1 .. Len(line) + 1
      OBVIOUS
    <2>3. f[1] = From(f, line, 1)
      BY <2>1, <2>2 DEF Means
    <2> QED BY <2>1, <2>2, <2>3 DEF From
  <1>4. Insert(b, IF line = <<>> THEN x ELSE y)
    BY DEF InputNative
  <1> HIDE DEF x
  <1>5. ASSUME line # <<>>
        PROVE  Sound(y) /\ y.type = Builder /\ Contents(y) = s
    <2>1. Len(line) # 0
      BY <1>1, <1>5, EmptySeq
    <2>2. x.length > 0
      BY <1>2, <1>3, <2>1
    <2>3. x.length < x.capacity
      BY <1>3, <2>2 DEF Sound
    <2> QED BY <1>3, <2>3, LineUnescaped
  <1> DEFINE new == IF line = <<>> THEN x ELSE y
  <1> HIDE DEF y, s
  <1>7. Sound(new) /\ new.type = Builder /\ Contents(new) = s /\ Insert(b, new)
    BY <1>3, <1>4, <1>5, <1>6
  <1> HIDE DEF new
  <1>8. Makes(b, Builder, s)
    BY <1>7 DEF Makes
  <1> QED BY <1>8 DEF s

-----------------------------------------------------------------------------
(* Subscripts and collections                                              *)

\* A subscript that is assigned.
LEMMA SubscriptLeaves ==
  ASSUME Inductive, NEW a \in held, NEW h \in Indices, NEW v, SetSubscript(a, h, v)
  PROVE  \E cell \in Stored(array[a].type, v) :
           Leaves(a, [Contents(array[a]) EXCEPT ![Trunc(h) + 1] = cell])
  <1> DEFINE x == array[a]
             at == Trunc(h)
  <1>1. /\ Block(x) /\ x.type # Builder /\ x.length \in Nat /\ x.capacity \in Nat
        /\ x.length <= x.capacity
    BY HeldIs DEF SetSubscript
  <1>2. h \in Int /\ h >= 0 /\ h < 2 * x.length
    BY InputAssumption DEF SetSubscript, InRange
  <1>3. PICK cell \in Stored(x.type, v) : Update(a, Write(x, at, <<cell>>))
    BY DEF SetSubscript
  <1> DEFINE vs == <<cell>>
  <1>4. Len(vs) = 1 /\ vs[1] = cell /\ 1 \in 1 .. 1
    OBVIOUS
  <1> HIDE DEF x
  <1>5. at \in Nat /\ at < x.length
    BY <1>1, <1>2, TruncIs
  <1> HIDE DEF at, vs
  <1> DEFINE y == Write(x, at, vs)
  <1>6. at \in Nat /\ Len(vs) \in Nat /\ at + Len(vs) <= x.capacity
    BY <1>1, <1>4, <1>5
  <1>7. /\ Block(y) /\ y.type = x.type /\ y.length = x.length /\ y.capacity = x.capacity
        /\ \A i \in 1 .. Len(vs) : y.payload[at + i - 1] = vs[i]
        /\ \A i \in 0 .. x.capacity - 1 : i < at \/ at + Len(vs) <= i
             => y.payload[i] = x.payload[i]
    BY <1>1, <1>6, WriteIs
  <1>8. Update(a, y)
    BY <1>3 DEF vs
  <1> HIDE DEF y
  <1>9. Sound(y) /\ x.capacity <= y.capacity
    BY <1>1, <1>7, ArraysAreSound DEF Inside
  <1> DEFINE s == Contents(x)
             u == [s EXCEPT ![at + 1] = cell]
  <1>10. Contents(y) = u
    <2>1. /\ s = [i \in 1 .. x.length |-> x.payload[i - 1]]
          /\ Contents(y) = [i \in 1 .. x.length |-> y.payload[i - 1]]
      BY <1>7 DEF Contents
    <2>2. y.payload[at] = cell
      <3>1. at + 1 - 1 = at
        BY <1>5
      <3> QED BY <1>4, <1>7, <3>1
    <2>3. ASSUME NEW i \in 1 .. x.length
          PROVE  y.payload[i - 1] = IF i = at + 1 THEN cell ELSE x.payload[i - 1]
      <3>1. CASE i = at + 1
        <4>1. i - 1 = at
          BY <1>5, <3>1
        <4> QED BY <2>2, <3>1, <4>1
      <3>2. CASE i # at + 1
        <4>1. i - 1 \in 0 .. x.capacity - 1 /\ (i - 1 < at \/ at + Len(vs) <= i - 1)
          BY <1>1, <1>4, <1>5, <3>2
        <4> QED BY <1>7, <3>2, <4>1
      <3> QED BY <3>1, <3>2
    <2>4. u = [i \in 1 .. x.length |-> IF i = at + 1 THEN cell ELSE x.payload[i - 1]]
      BY <2>1
    <2> HIDE DEF u, s
    <2> QED BY <2>1, <2>3, <2>4
  <1> HIDE DEF u
  <1>11. Leaves(a, u)
    BY <1>7, <1>8, <1>9, <1>10 DEF Leaves, x
  <1> QED BY <1>3, <1>11 DEF u, s, at, x

\* A program lets go of an object.
LEMMA ForgetKeeps ==
  ASSUME Inductive, NEW a \in held, Forget(a)
  PROVE  Inductive'
  <1>1. array' = array /\ bytesAllocated' = bytesAllocated /\ running' = running
        /\ held' \subseteq held
    BY DEF Forget
  <1>2. Live' = Live /\ Costs' = Costs
    BY <1>1 DEF Live, Costs
  <1> QED BY <1>1, <1>2 DEF Inductive

\* gc().
LEMMA GcKeeps ==
  ASSUME Inductive, GcNative
  PROVE  Inductive'
  <1>1. /\ array' = [a \in Ids |-> IF a \in Garbage THEN Free ELSE array[a]]
        /\ bytesAllocated' = bytesAllocated - FreedBytes(Garbage)
        /\ held' = held /\ running' = running
    BY DEF GcNative
  <1> DEFINE K == Live \ Garbage
  <1>2. Live' = K
    BY <1>1 DEF Live, Garbage
  <1>3. /\ IsFiniteSet(Live) /\ Live \subseteq Ids
        /\ \A b \in Live : Costs[b] = BytesOf(array[b]) /\ Costs[b] \in Nat
    BY CostsAre DEF Inductive
  <1>4. Garbage \subseteq Live /\ K \subseteq Live /\ held \subseteq K
    BY DEF Garbage, Inductive
  <1>5. \A b \in K : array'[b] = array[b] /\ Costs'[b] = Costs[b]
    <2>1. \A b \in K : b \in Ids /\ b \notin Garbage
      BY <1>3
    <2>2. \A b \in K : array'[b] = array[b]
      BY <1>1, <2>1
    <2> QED BY <2>1, <2>2 DEF Costs
  <1>6. FreedBytes(Garbage) = Sum(Costs, Garbage)
    BY <1>3, <1>4, FreedIs
  <1>7. Sum(Costs, Live) = Sum(Costs, Garbage) + Sum(Costs, K)
    BY <1>3, <1>4, SumSplit
  <1> HIDE DEF K
  <1>8. IsFiniteSet(K) /\ IsFiniteSet(Garbage)
    BY <1>3, <1>4, FS_Subset
  <1>9. (\A b \in K : Costs[b] \in Nat) /\ (\A b \in Garbage : Costs[b] \in Nat)
    BY <1>3, <1>4
  <1>10. Sum(Costs', K) = Sum(Costs, K)
    <2> DEFINE g == Costs
               h == Costs'
    <2>1. \A b \in K : h[b] = g[b]
      BY <1>5
    <2> HIDE DEF g, h
    <2>2. Sum(h, K) = Sum(g, K)
      BY <1>8, <2>1, SumSame
    <2> QED BY <2>2 DEF g, h
  <1>11. Sum(Costs, K) \in Nat /\ Sum(Costs, Garbage) \in Nat
    BY <1>8, <1>9, SumTake
  <1>12. bytesAllocated' = Sum(Costs', Live')
    BY <1>1, <1>2, <1>6, <1>7, <1>10, <1>11 DEF Inductive
  <1>13. \A b \in Live' : Sound(array'[b])
    BY <1>2, <1>4, <1>5 DEF Inductive
  <1>14. held' \subseteq Live' /\ running' \in BOOLEAN
    BY <1>1, <1>2, <1>4 DEF Inductive
  <1> QED BY <1>12, <1>13, <1>14 DEF Inductive

\* What only looks, and what ends the program.
LEMMA UnchangedKeeps ==
  ASSUME Inductive, array' = array, held' = held, bytesAllocated' = bytesAllocated,
         running' \in BOOLEAN
  PROVE  Inductive'
  <1>1. Live' = Live /\ Costs' = Costs
    BY DEF Live, Costs
  <1> QED BY <1>1 DEF Inductive

\* A native that refuses changes nothing.
LEMMA RefusesKeeps ==
  ASSUME Inductive, NEW request, NEW what, Refuses(request, what)
  PROVE  Inductive'
  <1>1. array' = array /\ held' = held /\ bytesAllocated' = bytesAllocated
        /\ running' \in BOOLEAN
    BY DEF Refuses, Unchanged, Inductive
  <1> QED BY <1>1, UnchangedKeeps

\* A program that ends leaves its objects.
LEMMA ExitsKeeps ==
  ASSUME Inductive, NEW request, Exits(request)
  PROVE  Inductive'
  <1>1. array' = array /\ held' = held /\ bytesAllocated' = bytesAllocated
        /\ running' \in BOOLEAN
    BY DEF Exits
  <1> QED BY <1>1, UnchangedKeeps

-----------------------------------------------------------------------------
(* The invariant                                                           *)

\* Every operation on an object of the program.
LEMMA ArrayOperationKeeps ==
  ASSUME Inductive, NEW a \in held, ArrayOperation(a)
  PROVE  Inductive'
  <1>1. CASE \E vs \in Pushes : PushNative(a, vs)
    BY <1>1, PushLeaves, StepsKeep
  <1>2. CASE \E vs \in Pushes : PushOverflows(a, vs)
    BY <1>2, ExitsKeeps DEF PushOverflows
  <1>3. CASE PopNative(a)
    BY <1>3, PopLeaves, StepsKeep
  <1>4. CASE PopEmpty(a) \/ LengthNative(a)
    BY <1>4, RefusesKeeps DEF PopEmpty, LengthNative
  <1>5. CASE ArrayNativeRefuses(a)
    BY <1>5, RefusesKeeps DEF ArrayNativeRefuses
  <1>6. CASE \E size \in Sizes : ResizeNative(a, size)
    BY <1>6, ResizeLeaves, StepsKeep
  <1>7. CASE \E size \in Sizes : ResizeOverflows(a, size)
    BY <1>7, ExitsKeeps DEF ResizeOverflows
  <1>8. CASE \E b \in Ids, from, to \in Cuts \union {Absent} : SliceNative(a, b, from, to)
    BY <1>8, SliceMakes, StepsKeep
  <1>9. CASE \E h \in Indices : GetSubscript(a, h)
    BY <1>9, RefusesKeeps DEF GetSubscript
  <1>10. CASE \E h \in Indices, v \in Values : SetSubscript(a, h, v)
    BY <1>10, SubscriptLeaves, StepsKeep
  <1>11. CASE \E h \in Indices, v \in Values : SetSubscriptFails(a, h, v)
    BY <1>11, RefusesKeeps DEF SetSubscriptFails
  <1>12. CASE Forget(a)
    BY <1>12, ForgetKeeps
  <1> QED BY <1>1, <1>2, <1>3, <1>4, <1>5, <1>6, <1>7, <1>8, <1>9, <1>10, <1>11, <1>12
          DEF ArrayOperation

\* Every operation on text.
LEMMA TextOperationKeeps ==
  ASSUME Inductive, NEW src \in Texts \union held, TextOperation(src)
  PROVE  Inductive'
  <1>1. CASE \E b \in held : AppendNative(b, src)
    BY <1>1, AppendLeaves, StepsKeep
  <1>2. CASE \E b \in held : AppendOverflows(b, src)
    BY <1>2, ExitsKeeps DEF AppendOverflows
  <1>3. CASE \E b \in held : AppendRefuses(b, src) \/ EqualsNative(b, src)
    BY <1>3, RefusesKeeps DEF AppendRefuses, EqualsNative
  <1>4. CASE \E from \in Cuts : TextSliceRefuses(src, from)
    BY <1>4, RefusesKeeps DEF TextSliceRefuses
  <1>5. CASE \E b \in Ids, from \in Cuts, to \in Cuts \union {Absent} :
               IsText(src) /\ TextSliceNative(b, src, from, to)
    BY <1>5, TextSliceMakes, StepsKeep
  <1> QED BY <1>1, <1>2, <1>3, <1>4, <1>5 DEF TextOperation

\* Every constructor.
LEMMA ConstructKeeps ==
  ASSUME Inductive, LinesFit, NEW a \in Ids, Construct(a)
  PROVE  Inductive'
  <1>1. CASE \E vs \in Pushes : NewArrayLiteral(a, vs)
    BY <1>1, LiteralMakes, StepsKeep
  <1>2. CASE \E type \in Types \ {Builder}, size \in Sizes \union {Absent} :
               ArrayNative(a, type, size)
    BY <1>2, ArrayMakes, StepsKeep
  <1>3. CASE \E src \in Texts \union Ids \union {Absent} : StringBuilderNative(a, src)
    BY <1>3, BuilderMakes, StepsKeep
  <1>4. CASE \E line \in Lines : InputNative(a, line)
    BY <1>4, InputMakes, StepsKeep
  <1> QED BY <1>1, <1>2, <1>3, <1>4 DEF Construct

\* There are no objects at first.
LEMMA InitInductive == Init => Inductive
  <1> SUFFICES ASSUME Init PROVE Inductive
    OBVIOUS
  <1>1. array = [a \in Ids |-> Free] /\ held = {} /\ bytesAllocated = 0 /\ running = TRUE
    BY DEF Init
  <1>2. Live = {}
    BY <1>1 DEF Live
  <1>3. Sum(Costs, {}) = 0
    <2>1. Sums(CHOOSE f : Sums(f, Costs, {}), Costs, {})
      BY SumsExist, FS_EmptySet
    <2> QED BY <2>1, SumEach DEF Sum, Added
  <1> QED BY <1>1, <1>2, <1>3 DEF Inductive

\* And every step keeps the invariant.
LEMMA StepKeeps ==
  ASSUME Inductive, LinesFit, [Next]_vars
  PROVE  Inductive'
  <1>1. CASE \E a \in held : ArrayOperation(a)
    BY <1>1, ArrayOperationKeeps
  <1>2. CASE \E src \in Texts \union held : TextOperation(src)
    BY <1>2, TextOperationKeeps
  <1>3. CASE \E a \in Ids : Construct(a)
    BY <1>3, ConstructKeeps
  <1>4. CASE \E type \in Types \ {Builder}, size \in Sizes : ArrayOverflows(type, size)
    BY <1>4, ExitsKeeps DEF ArrayOverflows
  <1>5. CASE GcNative
    BY <1>5, GcKeeps
  <1>6. CASE UNCHANGED vars
    BY <1>6, UnchangedKeeps DEF vars, Inductive
  <1> QED BY <1>1, <1>2, <1>3, <1>4, <1>5, <1>6 DEF Next

\* Every object is sound and every block is counted, in every state that can be
\* reached: reserveArray, the natives and reallocate() keep it so together.
THEOREM ArraysInvariant ==
  ASSUME LinesFit
  PROVE  Spec => []Inductive
  <1>1. Inductive /\ [Next]_vars => Inductive'
    BY StepKeeps
  <1> QED BY <1>1, InitInductive, PTL DEF Spec

\* Every object has its fields and what a program holds has not been freed.
THEOREM ArraysTyped ==
  ASSUME LinesFit
  PROVE  Spec => []TypeOK
  <1>1. Inductive => TypeOK
    <2> SUFFICES ASSUME Inductive PROVE TypeOK
      OBVIOUS
    <2>1. \A a \in Live : /\ array[a].type \in Types /\ array[a].length \in Nat
                          /\ array[a].capacity \in 0 .. ARRAYLIKE_MAX
      BY DEF Inductive, Sound, Inside, Block
    <2>2. bytesAllocated \in Nat
      BY CostsAre, SumTake DEF Inductive
    <2> QED BY <2>1, <2>2 DEF TypeOK, Inductive
  <1> QED BY <1>1, ArraysInvariant, PTL

\* No native writes behind the block it reserved, whatever is pushed, resized, cut and
\* appended, and typed in lines that fit: nothing in the writes themselves checks it
\* (object.c:151), and a longer line does write there (nativeSystem.c:106).
THEOREM WritesStayInside ==
  ASSUME LinesFit
  PROVE  Spec => []WritesInside
  <1>1. Inductive => WritesInside
    BY DEF Inductive, Sound, Inside, Block, WritesInside
  <1> QED BY <1>1, ArraysInvariant, PTL

\* A builder with characters has its '\0' behind them, inside the block, after any
\* history of appends, slices and unescaped lines (nativeString.c:359).
THEOREM BuildersTerminated ==
  ASSUME LinesFit
  PROVE  Spec => []Terminated
  <1>1. Inductive => Terminated
    BY DEF Inductive, Sound, Terminated
  <1> QED BY <1>1, ArraysInvariant, PTL

\* bytesAllocated is the bytes of the live objects: each growth adds what the one
\* freeArray of the object takes away again (memory.c:124, object.c:160).
THEOREM BytesCounted ==
  ASSUME LinesFit
  PROVE  Spec => []BytesExact
  <1>1. ASSUME Inductive
        PROVE  BytesExact
    <2> DEFINE w(a) == HeaderSize + array[a].capacity *
                         (IF array[a].type \in {Boxed, "ARRAY_F64"} THEN 8 ELSE 1)
               Q(f, T) == IF T = {} THEN 0
                          ELSE LET a == CHOOSE a \in T : TRUE IN w(a) + f[T \ {a}]
               F(f) == f = [T \in SUBSET Live |-> Q(f, T)]
               c == CHOOSE f : F(f)
               d == CHOOSE f : Sums(f, Costs, Live)
    <2>1. /\ IsFiniteSet(Live) /\ Live \subseteq Ids
          /\ \A a \in Live : Costs[a] = BytesOf(array[a]) /\ Costs[a] \in Nat
      BY <1>1, CostsAre DEF Inductive
    <2>2. ASSUME NEW a \in Live
          PROVE  Costs[a] = w(a)
      <3>1. FreeSize(array[a].type) = IF array[a].type \in {Boxed, "ARRAY_F64"} THEN 8 ELSE 1
        BY DEF FreeSize
      <3>2. array[a].capacity \in Nat
        BY <1>1, SoundIs DEF Inductive
      <3> QED BY <2>1, <3>1, <3>2 DEF BytesOf, HeaderSize
    <2>3. (bytesAllocated = c[Live]) => BytesExact
      BY Zenon DEF BytesExact, MapThenSumSet, MapThenFoldSet
    <2> HIDE DEF w
    <2>4. \A f : F(f) <=> Sums(f, Costs, Live)
      <3>1. ASSUME NEW f, NEW T \in SUBSET Live
            PROVE  Added(f, Costs, T) = Q(f, T)
        <4>1. T # {} => OneOf(T) \in T
          BY DEF OneOf
        <4> QED BY <2>2, <4>1 DEF Added, OneOf
      <3> HIDE DEF Q
      <3> QED BY <3>1 DEF Sums
    <2>5. \E f : Sums(f, Costs, Live)
      BY <2>1, SumsExist
    <2> HIDE DEF F
    <2>6. Sums(c, Costs, Live) /\ Sums(d, Costs, Live)
      BY <2>4, <2>5
    <2> HIDE DEF c, d
    <2>7. c[Live] = d[Live]
      BY <2>1, <2>6, SumsAgree
    <2>8. bytesAllocated = d[Live]
      BY <1>1 DEF Inductive, Sum, d
    <2> QED BY <2>3, <2>7, <2>8
  <1> QED BY <1>1, ArraysInvariant, PTL

-----------------------------------------------------------------------------
(* The sequences that are implemented                                      *)

\* What the specification of sequences says of numbers, cells and types is what
\* the natives compute.
LEMMA SameMeanings ==
  /\ \A h : Abstract!Trunc(h) = Trunc(h)
  /\ \A type : Abstract!Default(type) = Default(type)
  /\ \A type, v : Abstract!Stored(type, v) = Stored(type, v)
  /\ \A type, vs : Abstract!StoredAll(type, vs) = StoredAll(type, vs)
  /\ Abstract!Types = Types /\ Abstract!Boxed = Boxed /\ Abstract!Builder = Builder
  <1>1. \A h : Abstract!Trunc(h) = Trunc(h)
    BY DEF Abstract!Trunc, Trunc
  <1>2. Abstract!Types = Types /\ Abstract!Boxed = Boxed /\ Abstract!Builder = Builder
    BY DEF Abstract!Types, Abstract!Boxed, Abstract!Builder, Types, TypedArrays, Boxed, Builder
  <1>3. \A type : Abstract!Default(type) = Default(type)
    BY <1>2 DEF Abstract!Default, Default
  <1>4. \A type, v : Abstract!Stored(type, v) = Stored(type, v)
    <2> SUFFICES ASSUME NEW type, NEW v
                 PROVE  Abstract!Stored(type, v) = Stored(type, v)
      OBVIOUS
    <2>1. Boxed # "ARRAY_F64"
      BY DEF Boxed
    <2>2. CASE type = Boxed
      BY <1>2, <2>1, <2>2 DEF Abstract!Stored, Stored
    <2>3. CASE type # Boxed /\ v = Nil
      BY <1>2, <2>3 DEF Abstract!Stored, Stored
    <2>4. CASE type = "ARRAY_F64" /\ v # Nil
      BY <1>2, <2>1, <2>4 DEF Abstract!Stored, Stored
    <2>5. CASE type # Boxed /\ type # "ARRAY_F64" /\ v # Nil
      BY <1>1, <1>2, <2>5 DEF Abstract!Stored, Stored
    <2> QED BY <2>2, <2>3, <2>4, <2>5
  <1>5. \A type, vs : Abstract!StoredAll(type, vs) = StoredAll(type, vs)
    <2> SUFFICES ASSUME NEW type, NEW vs
                 PROVE  Abstract!StoredAll(type, vs) = StoredAll(type, vs)
      OBVIOUS
    <2>1. UNION {Abstract!Stored(type, vs[i]) : i \in DOMAIN vs}
            = UNION {Stored(type, vs[i]) : i \in DOMAIN vs}
      BY <1>4
    <2> QED BY <1>4, <2>1 DEF Abstract!StoredAll, StoredAll
  <1> QED BY <1>1, <1>2, <1>3, <1>4, <1>5

\* What is shown of an object that a program holds.
LEMMA ShownIs ==
  ASSUME Inductive
  PROVE  /\ \A a \in held :
              /\ a \in Ids /\ Abstract!Lives(a) /\ Abstract!Type(a) = array[a].type
              /\ Abstract!Elements(a) = Contents(array[a])
              /\ Len(Contents(array[a])) = array[a].length /\ array[a].length \in Nat
         /\ \A a \in Ids : Abstract!Lives(a) => a \in held
  <1>1. ASSUME NEW a \in held
        PROVE  /\ a \in Ids /\ Abstract!Lives(a) /\ Abstract!Type(a) = array[a].type
               /\ Abstract!Elements(a) = Contents(array[a])
               /\ Len(Contents(array[a])) = array[a].length /\ array[a].length \in Nat
    <2> DEFINE t == array[a].type
               s == Contents(array[a])
               r == [type |-> t, seq |-> s]
    <2>1. a \in Ids /\ array[a].length \in Nat /\ t \in Types
      BY HeldIs
    <2>2. Shown[a] = r
      BY <2>1 DEF Shown
    <2>3. Len(s) = array[a].length
      BY <2>1, ContentsAre
    <2> HIDE DEF t, s
    <2>4. r.type = t /\ r.seq = s
      OBVIOUS
    <2>5. r # Free
      BY <2>1, <2>4, TypesAre
    <2> HIDE DEF r
    <2> QED BY <2>1, <2>2, <2>3, <2>4, <2>5
            DEF Abstract!Lives, Abstract!Type, Abstract!Elements, t, s
  <1>2. ASSUME NEW a \in Ids, Abstract!Lives(a)
        PROVE  a \in held
    BY <1>2 DEF Abstract!Lives, Shown
  <1> QED BY <1>1, <1>2

\* What is text, and what is in range.
LEMMA TextsAre ==
  ASSUME Inductive
  PROVE  /\ \A src : Abstract!IsText(src) <=> src # Absent /\ IsText(src)
         /\ \A src : IsText(src) => Abstract!Text(src) = Text(src)
         /\ \A a \in held : \A h : Abstract!InRange(a, h) <=> InRange(a, h)
  <1>1. \A src : Abstract!IsText(src) <=> src # Absent /\ IsText(src)
    BY ShownIs, SameMeanings DEF Abstract!IsText, IsText
  <1>2. \A src : IsText(src) => Abstract!Text(src) = Text(src)
    BY ShownIs DEF Abstract!Text, Text, IsText
  <1>3. \A a \in held : \A h : Abstract!InRange(a, h) <=> InRange(a, h)
    BY ShownIs DEF Abstract!InRange, InRange
  <1> QED BY <1>1, <1>2, <1>3

\* A step that leaves an object changed shows that and no other change.
LEMMA LeavesShows ==
  ASSUME Inductive, NEW a \in held, NEW s, Leaves(a, s)
  PROVE  Abstract!Becomes(a, array[a].type, s) /\ running' = running
  <1>1. PICK new : /\ Sound(new) /\ new.type = array[a].type /\ Contents(new) = s
                   /\ Update(a, new)
    BY DEF Leaves
  <1> DEFINE size == GrowSize(new.type) * (new.capacity - array[a].capacity)
             r == [type |-> array[a].type, seq |-> s]
  <1>2. PICK freed : freed \subseteq Garbage /\ Stores(a, new, size, freed)
    BY <1>1 DEF Update
  <1>3. held' = held /\ running' = running
    BY <1>1 DEF Update
  <1>4. array' = [b \in Ids |-> IF b = a THEN new ELSE IF b \in freed THEN Free ELSE array[b]]
    BY <1>2 DEF Stores
  <1>5. a \in Ids /\ \A b \in held : b \in Ids /\ b \notin freed
    BY <1>2, HeldIs DEF Garbage
  <1>6. array'[a] = new /\ \A b \in held : b # a => array'[b] = array[b]
    BY <1>4, <1>5
  <1>7. Shown' = [b \in Ids |-> IF b \in held
                                THEN [type |-> array'[b].type, seq |-> Contents(array'[b])]
                                ELSE Free]
    BY <1>3 DEF Shown, Contents, Free
  <1>8. ASSUME NEW b \in Ids
        PROVE  Shown'[b] = IF b = a THEN r ELSE Shown[b]
    <2>1. CASE b = a
      BY <1>1, <1>6, <1>7, <2>1
    <2>2. CASE b # a
      BY <1>6, <1>7, <2>2 DEF Shown
    <2> QED BY <2>1, <2>2
  <1>9. Shown' = [Shown EXCEPT ![a] = r]
    BY <1>5, <1>7, <1>8 DEF Shown
  <1> QED BY <1>3, <1>9 DEF Abstract!Becomes

\* A step that makes an object shows it where there was none.
LEMMA MakesShows ==
  ASSUME Inductive, NEW a \in Ids, NEW type, NEW s, Makes(a, type, s)
  PROVE  ~Abstract!Lives(a) /\ Abstract!Becomes(a, type, s) /\ running' = running
  <1>1. PICK new : Sound(new) /\ new.type = type /\ Contents(new) = s /\ Insert(a, new)
    BY DEF Makes
  <1> DEFINE size == HeaderSize + GrowSize(new.type) * new.capacity
             r == [type |-> type, seq |-> s]
  <1>2. PICK freed : freed \subseteq Garbage /\ Stores(a, new, size, freed)
    BY <1>1 DEF Insert
  <1>3. a \notin Live /\ held' = held \union {a} /\ running' = running
    BY <1>1 DEF Insert
  <1>4. array' = [b \in Ids |-> IF b = a THEN new ELSE IF b \in freed THEN Free ELSE array[b]]
    BY <1>2 DEF Stores
  <1>5. a \notin held /\ \A b \in held : b \in Ids /\ b \notin freed
    BY <1>2, <1>3, HeldIs DEF Garbage
  <1>6. array'[a] = new /\ \A b \in held : b # a => array'[b] = array[b]
    BY <1>4, <1>5
  <1>7. Shown' = [b \in Ids |-> IF b \in held \union {a}
                                THEN [type |-> array'[b].type, seq |-> Contents(array'[b])]
                                ELSE Free]
    BY <1>3 DEF Shown, Contents, Free
  <1>8. ASSUME NEW b \in Ids
        PROVE  Shown'[b] = IF b = a THEN r ELSE Shown[b]
    <2>1. CASE b = a
      BY <1>1, <1>6, <1>7, <2>1
    <2>2. CASE b # a
      BY <1>6, <1>7, <2>2 DEF Shown
    <2> QED BY <2>1, <2>2
  <1>9. Shown' = [Shown EXCEPT ![a] = r]
    BY <1>7, <1>8 DEF Shown
  <1>10. ~Abstract!Lives(a)
    BY <1>5, ShownIs
  <1> QED BY <1>3, <1>9, <1>10 DEF Abstract!Becomes

\* A step that leaves the objects shows nothing new.
LEMMA NothingChanges ==
  ASSUME array' = array, held' = held
  PROVE  Abstract!Same
  BY DEF Abstract!Same, Shown, Contents, Free

\* What is asked and answered is told.
LEMMA TellingIs ==
  ASSUME NEW request, NEW what, Told(request, what), running' = running
  PROVE  running /\ Abstract!Told(request, what)
  BY DEF Told, Asks, Abstract!Told

\* The steps a program of sequences can take.
LEMMA StepsAre ==
  ASSUME running
  PROVE  /\ \A a \in Ids : Abstract!ArrayOperation(a) => Abstract!Next
         /\ \A a \in Ids : Abstract!TextOperation(a) => Abstract!Next
         /\ \A a \in Ids : Abstract!Constructor(a) => Abstract!Next
         /\ \A a \in Ids : Abstract!Forget(a) => Abstract!Next
         /\ \A a \in Ids, src \in Texts \union Ids : Abstract!Equals(a, src) => Abstract!Next
         /\ \A a \in Ids, h \in Indices : Abstract!Lives(a) /\ Abstract!Get(a, h) => Abstract!Next
         /\ Abstract!Refuse => Abstract!Next
         /\ Abstract!Exit => Abstract!Next
  BY DEF Abstract!Next

\* A native that refuses an object it is not made for.
LEMMA RefusalShown ==
  ASSUME Inductive, NEW a \in held, NEW request, NEW what \in Abstract!Refusals,
         Refuses(request, what), request[2] = a,
         Abstract!UnsuitedArray(a, request[1], request)
  PROVE  Abstract!Next
  <1>1. /\ running /\ running' = running /\ asked' = request /\ answer' = what
        /\ Abstract!Same
    BY NothingChanges DEF Refuses, Unchanged, Told, Asks
  <1>2. a \in Ids /\ Abstract!Lives(a)
    BY ShownIs
  <1>3. asked'[2] = a /\ Abstract!UnsuitedArray(a, asked'[1], asked')
    BY <1>1
  <1>4. Abstract!Refuse
    BY <1>1, <1>2, <1>3 DEF Abstract!Refuse, Abstract!Same
  <1> QED BY <1>1, <1>4, StepsAre

\* push() in the sequences.
LEMMA PushShown ==
  ASSUME Inductive, NEW a \in held, NEW vs \in Pushes, PushNative(a, vs)
  PROVE  Abstract!Next
  <1> DEFINE s == Contents(array[a])
             type == array[a].type
  <1>1. PICK cells \in StoredAll(type, vs) : Leaves(a, s \o cells)
    BY PushLeaves
  <1>2. Abstract!Becomes(a, type, s \o cells) /\ running' = running
    BY <1>1, LeavesShows
  <1>3. /\ a \in Ids /\ Abstract!Lives(a) /\ Abstract!Type(a) = type
        /\ Abstract!Elements(a) = s /\ Len(s) = array[a].length
    BY ShownIs
  <1>4. Told(<<"push", a, vs>>, Number(2 * (array[a].length + Len(vs)))) /\ type # Builder
    BY DEF PushNative, IsArrayLike
  <1>5. running /\ Abstract!Told(<<"push", a, vs>>, Number(2 * (array[a].length + Len(vs))))
    BY <1>2, <1>4, TellingIs
  <1> HIDE DEF s, type
  <1>6. Abstract!Number(2 * (Len(s) + Len(vs))) = Number(2 * (array[a].length + Len(vs)))
    BY <1>3 DEF Abstract!Number, Number
  <1>7. cells \in Abstract!StoredAll(type, vs)
    BY <1>1, SameMeanings
  <1>8. Abstract!Push(a, vs)
    BY <1>2, <1>3, <1>5, <1>6, <1>7 DEF Abstract!Push
  <1>9. Abstract!ArrayOperation(a)
    BY <1>3, <1>4, <1>8, SameMeanings DEF Abstract!ArrayOperation
  <1> QED BY <1>3, <1>5, <1>9, StepsAre

\* pop() in the sequences, of an array with elements and of an empty one.
LEMMA PopShown ==
  ASSUME Inductive, NEW a \in held, PopNative(a) \/ PopEmpty(a)
  PROVE  Abstract!Next
  <1> DEFINE s == Contents(array[a])
             type == array[a].type
  <1>1. /\ a \in Ids /\ Abstract!Lives(a) /\ Abstract!Type(a) = type
        /\ Abstract!Elements(a) = s /\ Len(s) = array[a].length
    BY ShownIs
  <1>2. type # Builder
    BY DEF PopNative, PopEmpty, IsArrayLike
  <1>3. CASE PopNative(a)
    <2>1. /\ Leaves(a, SubSeq(s, 1, Len(s) - 1)) /\ Len(s) > 0
          /\ array[a].payload[array[a].length - 1] = s[Len(s)]
      BY <1>3, PopLeaves
    <2>2. Abstract!Becomes(a, type, SubSeq(s, 1, Len(s) - 1)) /\ running' = running
      BY <2>1, LeavesShows
    <2>3. Told(<<"pop", a>>, Value(array[a].payload[array[a].length - 1]))
      BY <1>3 DEF PopNative
    <2> HIDE DEF s, type
    <2>4. Told(<<"pop", a>>, Abstract!Value(s[Len(s)]))
      BY <2>1, <2>3 DEF Value, Abstract!Value
    <2>5. running /\ Abstract!Told(<<"pop", a>>, Abstract!Value(s[Len(s)]))
      BY <2>2, <2>4, TellingIs
    <2>6. Abstract!PopLast(a)
      BY <1>1, <2>2, <2>5 DEF Abstract!PopLast
    <2>7. s # <<>>
      BY <2>1
    <2>8. Abstract!ArrayOperation(a)
      BY <1>1, <1>2, <2>6, <2>7, SameMeanings DEF Abstract!ArrayOperation
    <2> QED BY <1>1, <2>5, <2>8, StepsAre
  <1>4. CASE PopEmpty(a)
    <2>1. /\ Told(<<"pop", a>>, Value(Nil)) /\ running' = running /\ Abstract!Same
          /\ array[a].length = 0
      BY <1>4, NothingChanges DEF PopEmpty, Refuses, Unchanged
    <2>2. running /\ Abstract!Told(<<"pop", a>>, Abstract!Value(Nil))
      BY <2>1, TellingIs DEF Value, Abstract!Value
    <2>3. s = <<>>
      BY <2>1, NothingShown
    <2> HIDE DEF s, type
    <2>4. Abstract!ArrayOperation(a)
      BY <1>1, <1>2, <2>1, <2>2, <2>3, SameMeanings DEF Abstract!ArrayOperation
    <2> QED BY <1>1, <2>2, <2>4, StepsAre
  <1> QED BY <1>3, <1>4

\* resize() in the sequences.
LEMMA ResizeShown ==
  ASSUME Inductive, NEW a \in held, NEW size \in Sizes, ResizeNative(a, size)
  PROVE  Abstract!Next
  <1> DEFINE s == Contents(array[a])
             type == array[a].type
             u == [i \in 1 .. Trunc(size) |-> IF i <= array[a].length THEN s[i] ELSE Default(type)]
  <1>1. Abstract!Becomes(a, type, u) /\ running' = running
    BY ResizeLeaves, LeavesShows
  <1>2. /\ a \in Ids /\ Abstract!Lives(a) /\ Abstract!Type(a) = type
        /\ Abstract!Elements(a) = s /\ Len(s) = array[a].length
    BY ShownIs
  <1>3. Told(<<"resize", a, size>>, Truth(TRUE)) /\ type # Builder
    BY DEF ResizeNative, IsArrayLike
  <1>4. running /\ Abstract!Told(<<"resize", a, size>>, Abstract!Truth(TRUE))
    BY <1>1, <1>3, TellingIs DEF Truth, Abstract!Truth
  <1> HIDE DEF s, type
  <1>5. u = [i \in 1 .. Abstract!Trunc(size) |->
               IF i <= Len(Abstract!Elements(a)) THEN Abstract!Elements(a)[i]
               ELSE Abstract!Default(Abstract!Type(a))]
    BY <1>2, SameMeanings
  <1> HIDE DEF u
  <1>6. Abstract!Resize(a, size)
    BY <1>1, <1>2, <1>4, <1>5 DEF Abstract!Resize
  <1>7. Abstract!ArrayOperation(a)
    BY <1>2, <1>3, <1>6, SameMeanings DEF Abstract!ArrayOperation
  <1> QED BY <1>2, <1>4, <1>7, StepsAre

\* slice() of an array in the sequences.
LEMMA SliceShown ==
  ASSUME Inductive, NEW a \in held, NEW b \in Ids, NEW from \in Cuts \union {Absent},
         NEW to \in Cuts \union {Absent}, SliceNative(a, b, from, to)
  PROVE  Abstract!Next
  <1> DEFINE s == Contents(array[a])
             type == array[a].type
             u == Abstract!Section(s, from, to)
             request == <<"slice", a, from, to>>
  <1>1. ~Abstract!Lives(b) /\ Abstract!Becomes(b, type, u) /\ running' = running
    BY SliceMakes, MakesShows
  <1>2. /\ a \in Ids /\ Abstract!Lives(a) /\ Abstract!Type(a) = type
        /\ Abstract!Elements(a) = s
    BY ShownIs
  <1>3. Told(request, Object(b)) /\ type # Builder
    BY DEF SliceNative, IsArrayLike
  <1>4. running /\ Abstract!Told(request, Abstract!Object(b))
    BY <1>1, <1>3, TellingIs DEF Object, Abstract!Object
  <1> HIDE DEF s, type
  <1>5. Abstract!Create(b, type, u, request)
    BY <1>1, <1>4 DEF Abstract!Create
  <1>6. Abstract!ArrayOperation(a)
    BY <1>2, <1>3, <1>5, SameMeanings DEF Abstract!ArrayOperation
  <1> QED BY <1>2, <1>4, <1>6, StepsAre

\* A subscript that is assigned, in the sequences.
LEMMA SubscriptShown ==
  ASSUME Inductive, NEW a \in held, NEW h \in Indices, NEW v \in Values, SetSubscript(a, h, v)
  PROVE  Abstract!Next
  <1> DEFINE s == Contents(array[a])
             type == array[a].type
  <1>1. PICK cell \in Stored(type, v) : Leaves(a, [s EXCEPT ![Trunc(h) + 1] = cell])
    BY SubscriptLeaves
  <1>2. /\ Abstract!Becomes(a, type, [s EXCEPT ![Trunc(h) + 1] = cell])
        /\ running' = running
    BY <1>1, LeavesShows
  <1>3. /\ a \in Ids /\ Abstract!Lives(a) /\ Abstract!Type(a) = type
        /\ Abstract!Elements(a) = s
    BY ShownIs
  <1>4. Told(<<"set", a, h, v>>, Value(v)) /\ type # Builder /\ InRange(a, h)
    BY DEF SetSubscript, IsArrayLike
  <1>5. running /\ Abstract!Told(<<"set", a, h, v>>, Abstract!Value(v))
    BY <1>2, <1>4, TellingIs DEF Value, Abstract!Value
  <1>6. Abstract!InRange(a, h)
    BY <1>4, TextsAre
  <1> HIDE DEF s, type
  <1>7. cell \in Abstract!Stored(type, v) /\ Abstract!Trunc(h) = Trunc(h)
    BY <1>1, SameMeanings
  <1>8. Abstract!Set(a, h, v)
    BY <1>2, <1>3, <1>5, <1>6, <1>7 DEF Abstract!Set
  <1>9. Abstract!ArrayOperation(a)
    BY <1>3, <1>4, <1>8, SameMeanings DEF Abstract!ArrayOperation
  <1> QED BY <1>3, <1>5, <1>9, StepsAre

\* What only looks at an object shows its element and its length.
LEMMA LooksShown ==
  ASSUME Inductive, NEW a \in held,
         LengthNative(a) \/ \E h \in Indices : GetSubscript(a, h)
  PROVE  Abstract!Next
  <1> DEFINE s == Contents(array[a])
             type == array[a].type
  <1>1. /\ a \in Ids /\ Abstract!Lives(a) /\ Abstract!Type(a) = type
        /\ Abstract!Elements(a) = s /\ Len(s) = array[a].length /\ array[a].length \in Nat
    BY ShownIs
  <1>2. CASE LengthNative(a)
    <2>1. /\ Told(<<"length", a>>, Number(2 * array[a].length)) /\ running' = running
          /\ Abstract!Same /\ type # Builder
      BY <1>2, NothingChanges DEF LengthNative, IsArrayLike, Refuses, Unchanged
    <2>2. running /\ Abstract!Told(<<"length", a>>, Abstract!Number(2 * array[a].length))
      BY <2>1, TellingIs DEF Number, Abstract!Number
    <2> HIDE DEF s, type
    <2>3. Abstract!Length(a)
      BY <1>1, <2>1, <2>2 DEF Abstract!Length
    <2>4. Abstract!ArrayOperation(a)
      BY <1>1, <2>1, <2>3, SameMeanings DEF Abstract!ArrayOperation
    <2> QED BY <1>1, <2>2, <2>4, StepsAre
  <1>3. CASE \E h \in Indices : GetSubscript(a, h)
    <2>1. PICK h \in Indices : GetSubscript(a, h)
      BY <1>3
    <2> DEFINE v == IF InRange(a, h) THEN array[a].payload[Trunc(h)] ELSE Nil
               w == IF Abstract!InRange(a, h) THEN Abstract!Elements(a)[Abstract!Trunc(h) + 1]
                    ELSE Nil
    <2>2. Told(<<"get", a, h>>, Value(v)) /\ running' = running /\ Abstract!Same
      BY <2>1, NothingChanges DEF GetSubscript, Refuses, Unchanged
    <2>3. v = w
      <3>1. Abstract!InRange(a, h) <=> InRange(a, h)
        BY TextsAre
      <3>2. ASSUME InRange(a, h)
            PROVE  array[a].payload[Trunc(h)] = s[Trunc(h) + 1]
        <4>1. h \in Int /\ Trunc(h) \in Nat /\ Trunc(h) < array[a].length
          BY <1>1, <3>2, InputAssumption, TruncIs DEF InRange
        <4>2. Trunc(h) + 1 \in 1 .. array[a].length /\ (Trunc(h) + 1) - 1 = Trunc(h)
          BY <1>1, <4>1
        <4> QED BY <1>1, <4>2, ContentsAre
      <3> QED BY <1>1, <3>1, <3>2, SameMeanings
    <2> HIDE DEF v, w
    <2>4. running /\ Abstract!Told(<<"get", a, h>>, Abstract!Value(w))
      BY <2>2, <2>3, TellingIs DEF Value, Abstract!Value
    <2>5. Abstract!Get(a, h)
      BY <2>2, <2>4 DEF Abstract!Get, w
    <2> QED BY <1>1, <2>4, <2>5, StepsAre
  <1> QED BY <1>2, <1>3

\* append() in the sequences.
LEMMA AppendShown ==
  ASSUME Inductive, NEW b \in held, NEW src \in Texts \union held, AppendNative(b, src)
  PROVE  Abstract!Next
  <1> DEFINE s == Contents(array[b])
             u == s \o Text(src)
             request == <<"append", b, src>>
  <1>1. /\ b \in Ids /\ Abstract!Lives(b) /\ Abstract!Type(b) = array[b].type
        /\ Abstract!Elements(b) = s /\ src \in Texts \union Ids
    BY ShownIs
  <1>2. Told(request, Object(b)) /\ array[b].type = Builder /\ IsText(src)
    BY DEF AppendNative, IsArrayLike
  <1>3. Abstract!Becomes(b, Builder, u) /\ running' = running
    BY <1>2, AppendLeaves, LeavesShows
  <1>4. running /\ Abstract!Told(request, Abstract!Object(b))
    BY <1>2, <1>3, TellingIs DEF Object, Abstract!Object
  <1>5. src # Absent
    BY <1>1, DistinctAssumption
  <1>6. Abstract!IsText(src) /\ Abstract!Text(src) = Text(src)
    BY <1>2, <1>5, TextsAre
  <1> HIDE DEF s
  <1>7. Abstract!TextOperation(b)
    BY <1>1, <1>2, <1>3, <1>4, <1>6, SameMeanings DEF Abstract!TextOperation
  <1> QED BY <1>1, <1>4, <1>7, StepsAre

\* slice() of text in the sequences.
LEMMA TextSliceShown ==
  ASSUME Inductive, NEW b \in Ids, NEW src \in Texts \union held, NEW from \in Cuts,
         NEW to \in Cuts \union {Absent}, IsText(src), TextSliceNative(b, src, from, to)
  PROVE  Abstract!Next
  <1> DEFINE u == Abstract!Section(Text(src), from, to)
             request == <<"textSlice", src, from, to>>
  <1>1. ~Abstract!Lives(b) /\ Abstract!Becomes(b, Builder, u) /\ running' = running
    BY TextSliceMakes, MakesShows
  <1>2. Told(request, Object(b))
    BY DEF TextSliceNative
  <1>3. running /\ Abstract!Told(request, Abstract!Object(b))
    BY <1>1, <1>2, TellingIs DEF Object, Abstract!Object
  <1>4. src \in Texts \union Ids /\ src # Absent
    BY ShownIs, DistinctAssumption
  <1>5. Abstract!IsText(src) /\ Abstract!Text(src) = Text(src)
    BY <1>4, TextsAre
  <1>6. Abstract!Create(b, Builder, u, request)
    BY <1>1, <1>3 DEF Abstract!Create
  <1>7. Abstract!TextOperation(b)
    BY <1>4, <1>5, <1>6, SameMeanings DEF Abstract!TextOperation
  <1> QED BY <1>3, <1>7, StepsAre

\* equals() compares the sequences.
LEMMA EqualsShown ==
  ASSUME Inductive, NEW b \in held, NEW src \in Texts \union held, EqualsNative(b, src)
  PROVE  Abstract!Next
  <1> DEFINE x == array[b]
             s == Contents(x)
             same == /\ ~IsArrayLike(b) /\ IsText(src)
                     /\ x.length = Len(Text(src))
                     /\ \A i \in 1 .. x.length : x.payload[i - 1] = Text(src)[i]
             alike == /\ Abstract!Type(b) = Abstract!Builder /\ Abstract!IsText(src)
                      /\ Abstract!Elements(b) = Abstract!Text(src)
             request == <<"equals", b, src>>
  <1>1. /\ b \in Ids /\ Abstract!Lives(b) /\ Abstract!Type(b) = x.type
        /\ Abstract!Elements(b) = s /\ src \in Texts \union Ids /\ x.length \in Nat
    BY ShownIs
  <1>2. src # Absent
    BY <1>1, DistinctAssumption
  <1>3. Told(request, Truth(same)) /\ running' = running /\ Abstract!Same
    BY NothingChanges DEF EqualsNative, Refuses, Unchanged
  <1>4. Listing(s) /\ Len(s) = x.length /\ \A i \in 1 .. x.length : s[i] = x.payload[i - 1]
    BY <1>1, ContentsAre
  <1>5. ASSUME IsText(src)
        PROVE  (s = Text(src)) <=> /\ x.length = Len(Text(src))
                                   /\ \A i \in 1 .. x.length : x.payload[i - 1] = Text(src)[i]
    <2> DEFINE u == Text(src)
    <2>1. Listing(u)
      BY <1>1, <1>5, TextIs
    <2> HIDE DEF s, u, x
    <2>2. ASSUME x.length = Len(u), \A i \in 1 .. x.length : x.payload[i - 1] = u[i]
          PROVE  s = u
      BY <1>4, <2>1, <2>2, SameListing
    <2>3. s = u => x.length = Len(u) /\ \A i \in 1 .. x.length : x.payload[i - 1] = u[i]
      BY <1>4
    <2> QED BY <2>2, <2>3 DEF u
  <1>6. same <=> alike
    <2>1. Abstract!IsText(src) <=> IsText(src)
      BY <1>2, TextsAre
    <2>2. IsText(src) => Abstract!Text(src) = Text(src)
      BY TextsAre
    <2>3. ~IsArrayLike(b) <=> Abstract!Type(b) = Abstract!Builder
      BY <1>1, SameMeanings DEF IsArrayLike
    <2> HIDE DEF s, x
    <2> QED BY <1>1, <1>5, <2>1, <2>2, <2>3
  <1>7. Truth(same) = Abstract!Truth(alike)
    <2>1. same = alike
      BY <1>6
    <2> HIDE DEF same, alike
    <2> QED BY <2>1 DEF Truth, Abstract!Truth
  <1> HIDE DEF same, alike
  <1>8. running /\ Abstract!Told(request, Abstract!Truth(alike))
    BY <1>3, <1>7, TellingIs
  <1>9. Abstract!Equals(b, src)
    BY <1>1, <1>3, <1>8 DEF Abstract!Equals, alike
  <1> QED BY <1>1, <1>8, <1>9, StepsAre

\* The constructors in the sequences.
LEMMA ConstructShown ==
  ASSUME Inductive, LinesFit, NEW a \in Ids, Construct(a)
  PROVE  Abstract!Next
  <1>1. CASE \E vs \in Pushes : NewArrayLiteral(a, vs)
    <2>1. PICK vs \in Pushes : NewArrayLiteral(a, vs)
      BY <1>1
    <2>2. ~Abstract!Lives(a) /\ Abstract!Becomes(a, Boxed, vs) /\ running' = running
      BY <2>1, LiteralMakes, MakesShows
    <2>3. running /\ Abstract!Told(<<"literal", vs>>, Abstract!Object(a))
      BY <2>1, <2>2, TellingIs DEF NewArrayLiteral, Object, Abstract!Object
    <2>4. Abstract!Create(a, Boxed, vs, <<"literal", vs>>)
      BY <2>2, <2>3 DEF Abstract!Create
    <2>5. Abstract!Constructor(a)
      BY <2>4, SameMeanings DEF Abstract!Constructor
    <2> QED BY <2>3, <2>5, StepsAre
  <1>2. CASE \E type \in Types \ {Builder}, size \in Sizes \union {Absent} :
               ArrayNative(a, type, size)
    <2>1. PICK type \in Types \ {Builder}, size \in Sizes \union {Absent} :
               ArrayNative(a, type, size)
      BY <1>2
    <2> DEFINE n == IF size = Absent THEN 0 ELSE Trunc(size)
               s == [i \in 1 .. n |-> Default(type)]
               request == <<"create", type, size>>
    <2>2. ~Abstract!Lives(a) /\ Abstract!Becomes(a, type, s) /\ running' = running
      BY <2>1, ArrayMakes, MakesShows
    <2>3. running /\ Abstract!Told(request, Abstract!Object(a))
      BY <2>1, <2>2, TellingIs DEF ArrayNative, Object, Abstract!Object
    <2>4. Abstract!Create(a, type, s, request)
      BY <2>2, <2>3 DEF Abstract!Create
    <2>5. CASE size = Absent
      <3>1. s = <<>>
        BY <2>5
      <3>2. Abstract!Create(a, type, <<>>, <<"create", type, Absent>>)
        BY <2>4, <2>5, <3>1
      <3>3. Abstract!Constructor(a)
        BY <3>2, SameMeanings DEF Abstract!Constructor
      <3> QED BY <2>3, <3>3, StepsAre
    <2>6. CASE size # Absent
      <3>1. s = [i \in 1 .. Abstract!Trunc(size) |-> Abstract!Default(type)]
        BY <2>6, SameMeanings
      <3>2. size \in Sizes
        BY <2>6
      <3> HIDE DEF s
      <3>3. Abstract!Constructor(a)
        BY <2>4, <3>1, <3>2, SameMeanings DEF Abstract!Constructor
      <3> QED BY <2>3, <3>3, StepsAre
    <2> QED BY <2>5, <2>6
  <1>3. CASE \E src \in Texts \union Ids \union {Absent} : StringBuilderNative(a, src)
    <2>1. PICK src \in Texts \union Ids \union {Absent} : StringBuilderNative(a, src)
      BY <1>3
    <2> DEFINE s == IF src # Absent /\ IsText(src) THEN Text(src) ELSE <<>>
               request == <<"builder", src>>
    <2>2. ~Abstract!Lives(a) /\ Abstract!Becomes(a, Builder, s) /\ running' = running
      BY <2>1, BuilderMakes, MakesShows
    <2>3. running /\ Abstract!Told(request, Abstract!Object(a))
      BY <2>1, <2>2, TellingIs DEF StringBuilderNative, Object, Abstract!Object
    <2>4. Abstract!Create(a, Builder, s, request)
      BY <2>2, <2>3 DEF Abstract!Create
    <2>5. CASE src # Absent /\ IsText(src)
      <3>1. src \in Texts \union Ids /\ Abstract!IsText(src) /\ Abstract!Text(src) = s
        BY <2>5, TextsAre
      <3> HIDE DEF s
      <3>2. Abstract!TextOperation(a)
        BY <2>4, <3>1, SameMeanings DEF Abstract!TextOperation
      <3> QED BY <2>3, <3>2, StepsAre
    <2>6. CASE ~(src # Absent /\ IsText(src))
      <3>1. s = <<>> /\ ~Abstract!IsText(src)
        BY <2>6, TextsAre
      <3>2. src \in Ids \union {Absent}
        BY <2>6 DEF IsText
      <3> HIDE DEF s
      <3>3. Abstract!Constructor(a)
        BY <2>4, <3>1, <3>2, SameMeanings DEF Abstract!Constructor
      <3> QED BY <2>3, <3>3, StepsAre
    <2> QED BY <2>5, <2>6
  <1>4. CASE \E line \in Lines : InputNative(a, line)
    <2>1. PICK line \in Lines : InputNative(a, line)
      BY <1>4
    <2> DEFINE s == Abstract!Unescaped(line)
    <2>2. ~Abstract!Lives(a) /\ Abstract!Becomes(a, Builder, s) /\ running' = running
      BY <2>1, InputMakes, MakesShows
    <2>3. running /\ Abstract!Told(<<"input", line>>, Abstract!Object(a))
      BY <2>1, <2>2, TellingIs DEF InputNative, Object, Abstract!Object
    <2>4. Abstract!Create(a, Builder, s, <<"input", line>>)
      BY <2>2, <2>3 DEF Abstract!Create
    <2>5. Abstract!Constructor(a)
      BY <2>4, SameMeanings DEF Abstract!Constructor
    <2> QED BY <2>3, <2>5, StepsAre
  <1> QED BY <1>1, <1>2, <1>3, <1>4 DEF Construct

\* What an array or a builder is not made for, in the sequences.
LEMMA RefusalsShown ==
  ASSUME Inductive, NEW a \in held
  PROVE  /\ ArrayNativeRefuses(a) => Abstract!Next
         /\ \A h \in Indices, v \in Values : SetSubscriptFails(a, h, v) => Abstract!Next
         /\ \A src \in Texts \union held : AppendRefuses(a, src) => Abstract!Next
  <1>1. NaN \in Abstract!Refusals /\ Value(Nil) \in Abstract!Refusals /\ Error \in Abstract!Refusals
    BY DEF Abstract!Refusals, Abstract!Value, Value, NaN, Error
  <1>2. Abstract!Type(a) = array[a].type
    BY ShownIs
  <1>3. IsArrayLike(a) <=> Abstract!Type(a) # Abstract!Builder
    BY <1>2, SameMeanings DEF IsArrayLike
  <1>4. ASSUME NEW request, request[2] = a, ~IsArrayLike(a),
               request[1] \in {"push", "pop", "resize", "length", "slice", "set"},
               NEW what \in Abstract!Refusals, Refuses(request, what)
        PROVE  Abstract!Next
    <2>1. Abstract!UnsuitedArray(a, request[1], request)
      BY <1>3, <1>4 DEF Abstract!UnsuitedArray
    <2> QED BY <1>4, <2>1, RefusalShown
  <1>5. ASSUME ArrayNativeRefuses(a)
        PROVE  Abstract!Next
    <2>1. ~IsArrayLike(a)
      BY <1>5 DEF ArrayNativeRefuses
    <2>2. ASSUME NEW vs \in Pushes, Refuses(<<"push", a, vs>>, NaN)
          PROVE  Abstract!Next
      BY <1>1, <1>4, <2>1, <2>2
    <2>3. ASSUME Refuses(<<"pop", a>>, NaN) \/ Refuses(<<"length", a>>, NaN)
          PROVE  Abstract!Next
      BY <1>1, <1>4, <2>1, <2>3
    <2>4. ASSUME NEW size \in Sizes, Refuses(<<"resize", a, size>>, NaN)
          PROVE  Abstract!Next
      BY <1>1, <1>4, <2>1, <2>4
    <2>5. ASSUME Refuses(<<"slice", a, Absent, Absent>>, Value(Nil))
          PROVE  Abstract!Next
      BY <1>1, <1>4, <2>1, <2>5
    <2> QED BY <1>5, <2>2, <2>3, <2>4, <2>5 DEF ArrayNativeRefuses
  <1>6. ASSUME NEW h \in Indices, NEW v \in Values, SetSubscriptFails(a, h, v)
        PROVE  Abstract!Next
    <2> DEFINE request == <<"set", a, h, v>>
    <2>1. Refuses(request, Error) /\ ~(IsArrayLike(a) /\ InRange(a, h))
      BY <1>6 DEF SetSubscriptFails
    <2>2. request[1] = "set" /\ request[2] = a /\ request[3] = h
      OBVIOUS
    <2>3. Abstract!InRange(a, h) <=> InRange(a, h)
      BY TextsAre
    <2> HIDE DEF request
    <2>4. Abstract!UnsuitedArray(a, request[1], request)
      BY <1>3, <2>1, <2>2, <2>3 DEF Abstract!UnsuitedArray
    <2> QED BY <1>1, <2>1, <2>2, <2>4, RefusalShown
  <1>7. ASSUME NEW src \in Texts \union held, AppendRefuses(a, src)
        PROVE  Abstract!Next
    <2> DEFINE request == <<"append", a, src>>
    <2>1. Refuses(request, Value(Nil)) /\ (IsArrayLike(a) \/ ~IsText(src))
      BY <1>7 DEF AppendRefuses
    <2>2. request[1] = "append" /\ request[2] = a /\ request[3] = src
      OBVIOUS
    <2>3. Abstract!IsText(src) => IsText(src)
      BY TextsAre
    <2> HIDE DEF request
    <2>4. Abstract!UnsuitedArray(a, request[1], request)
      BY <1>3, <2>1, <2>2, <2>3 DEF Abstract!UnsuitedArray
    <2> QED BY <1>1, <2>1, <2>2, <2>4, RefusalShown
  <1> QED BY <1>5, <1>6, <1>7

\* slice() of what is no text, in the sequences.
LEMMA TextSliceRefusesShown ==
  ASSUME Inductive, NEW src \in Texts \union held, NEW from \in Cuts, TextSliceRefuses(src, from)
  PROVE  Abstract!Next
  <1> DEFINE request == <<"textSlice", src, from, Absent>>
  <1>1. Refuses(request, Value(Nil)) /\ ~IsText(src)
    BY DEF TextSliceRefuses
  <1>2. src \in held
    BY <1>1, DistinctAssumption DEF IsText
  <1>3. ~Abstract!IsText(src)
    BY <1>1, TextsAre
  <1>4. request[1] = "textSlice" /\ request[2] = src
    OBVIOUS
  <1>5. Value(Nil) \in Abstract!Refusals
    BY DEF Abstract!Refusals, Abstract!Value, Value
  <1> HIDE DEF request
  <1>6. Abstract!UnsuitedArray(src, request[1], request)
    BY <1>3, <1>4 DEF Abstract!UnsuitedArray
  <1> QED BY <1>1, <1>2, <1>4, <1>5, <1>6, RefusalShown

\* A program that asks for too much ends, with its sequences as they were.
LEMMA ExitShown ==
  ASSUME Inductive, NEW request, Exits(request),
         \/ request[1] = "create" /\ Abstract!NoSize(request[3])
         \/ \E a \in held :
              /\ request[2] = a
              /\ \/ request[1] = "resize" /\ Abstract!NoSize(request[3])
                 \/ /\ request[1] = "push"
                    /\ array[a].length + Len(request[3]) > ARRAYLIKE_MAX
                 \/ /\ request[1] = "append" /\ IsText(request[3])
                    /\ array[a].length + Len(Text(request[3])) + 1 > ARRAYLIKE_MAX
  PROVE  Abstract!Next
  <1>1. /\ running /\ asked' = request /\ running' = FALSE /\ answer' = answer
        /\ Abstract!Same
    BY NothingChanges DEF Exits, Asks
  <1>2. \A a \in held : a \in Ids /\ Abstract!Lives(a)
                        /\ Len(Abstract!Elements(a)) = array[a].length
    BY ShownIs
  <1>3. \A src : IsText(src) => Abstract!Text(src) = Text(src)
    BY TextsAre
  <1>4. Abstract!Exit
    BY <1>1, <1>2, <1>3 DEF Abstract!Exit, Abstract!Same
  <1> QED BY <1>1, <1>4, StepsAre

\* The requests that end a program.
LEMMA OverflowsShown ==
  ASSUME Inductive, 0 \notin Sizes
  PROVE  /\ \A type : \A size \in Sizes : ArrayOverflows(type, size) => Abstract!Next
         /\ \A a \in held : \A size \in Sizes : ResizeOverflows(a, size) => Abstract!Next
         /\ \A a \in held : \A vs : PushOverflows(a, vs) => Abstract!Next
         /\ \A b \in held : \A src : AppendOverflows(b, src) => Abstract!Next
  <1>1. ASSUME NEW type, NEW size \in Sizes, ArrayOverflows(type, size)
        PROVE  Abstract!Next
    <2> DEFINE request == <<"create", type, size>>
    <2>1. request[1] = "create" /\ request[3] = size
      OBVIOUS
    <2>2. Exits(request) /\ Abstract!NoSize(size)
      BY <1>1, InputAssumption DEF ArrayOverflows, Abstract!NoSize
    <2> HIDE DEF request
    <2> QED BY <2>1, <2>2, ExitShown
  <1>2. ASSUME NEW a \in held, NEW size \in Sizes, ResizeOverflows(a, size)
        PROVE  Abstract!Next
    <2> DEFINE request == <<"resize", a, size>>
    <2>1. request[1] = "resize" /\ request[2] = a /\ request[3] = size
      OBVIOUS
    <2>2. Exits(request) /\ Abstract!NoSize(size)
      BY <1>2, InputAssumption DEF ResizeOverflows, Abstract!NoSize
    <2> HIDE DEF request
    <2> QED BY <2>1, <2>2, ExitShown
  <1>3. ASSUME NEW a \in held, NEW vs, PushOverflows(a, vs)
        PROVE  Abstract!Next
    <2> DEFINE request == <<"push", a, vs>>
    <2>1. request[1] = "push" /\ request[2] = a /\ request[3] = vs
      OBVIOUS
    <2>2. Exits(request) /\ array[a].length + Len(vs) > ARRAYLIKE_MAX
      BY <1>3 DEF PushOverflows
    <2> HIDE DEF request
    <2> QED BY <2>1, <2>2, ExitShown
  <1>4. ASSUME NEW b \in held, NEW src, AppendOverflows(b, src)
        PROVE  Abstract!Next
    <2> DEFINE request == <<"append", b, src>>
    <2>1. request[1] = "append" /\ request[2] = b /\ request[3] = src
      OBVIOUS
    <2>2. /\ Exits(request) /\ IsText(src)
          /\ array[b].length + Len(Text(src)) + 1 > ARRAYLIKE_MAX
      BY <1>4 DEF AppendOverflows
    <2> HIDE DEF request
    <2> QED BY <2>1, <2>2, ExitShown
  <1> QED BY <1>1, <1>2, <1>3, <1>4

\* A program that lets go of an object has no sequence of that name.
LEMMA ForgetShown ==
  ASSUME Inductive, NEW a \in held, Forget(a)
  PROVE  Abstract!Next
  <1>1. /\ running /\ asked' = <<"forget", a>> /\ held' = held \ {a} /\ array' = array
        /\ running' = running /\ answer' = answer
    BY DEF Forget, Asks
  <1>2. a \in Ids /\ Abstract!Lives(a)
    BY ShownIs
  <1>3. Shown' = [b \in Ids |-> IF b \in held \ {a}
                                THEN [type |-> array[b].type, seq |-> Contents(array[b])]
                                ELSE Free]
    BY <1>1 DEF Shown, Contents, Free
  <1>4. \A b \in Ids : Shown'[b] = IF b = a THEN Free ELSE Shown[b]
    BY <1>3 DEF Shown
  <1>5. Shown' = [Shown EXCEPT ![a] = Free]
    BY <1>2, <1>3, <1>4 DEF Shown
  <1>6. Abstract!Forget(a)
    BY <1>1, <1>2, <1>5 DEF Abstract!Forget
  <1> QED BY <1>1, <1>2, <1>6, StepsAre

\* gc() frees nothing that is shown.
LEMMA GcShown ==
  ASSUME Inductive, GcNative
  PROVE  UNCHANGED Abstract!vars
  <1>1. /\ array' = [a \in Ids |-> IF a \in Garbage THEN Free ELSE array[a]]
        /\ held' = held /\ running' = running /\ asked' = asked /\ answer' = answer
    BY DEF GcNative
  <1>2. \A a \in held : a \in Ids /\ a \notin Garbage
    BY HeldIs DEF Garbage
  <1>3. \A a \in held : array'[a] = array[a]
    BY <1>1, <1>2
  <1>4. Shown' = [b \in Ids |-> IF b \in held
                                THEN [type |-> array'[b].type, seq |-> Contents(array'[b])]
                                ELSE Free]
    BY <1>1 DEF Shown, Contents, Free
  <1>5. Shown' = Shown
    BY <1>3, <1>4 DEF Shown
  <1> QED BY <1>1, <1>5 DEF Abstract!vars

\* Every step does to the sequences what one of their operations does, or nothing.
LEMMA StepShown ==
  ASSUME Inductive, LinesFit, 0 \notin Sizes, [Next]_vars
  PROVE  [Abstract!Next]_(Abstract!vars)
  <1>1. ASSUME NEW a \in held, ArrayOperation(a)
        PROVE  Abstract!Next
    <2>1. CASE \E vs \in Pushes : PushNative(a, vs)
      BY <2>1, PushShown
    <2>2. CASE \E vs \in Pushes : PushOverflows(a, vs)
      BY <2>2, OverflowsShown
    <2>3. CASE PopNative(a) \/ PopEmpty(a)
      BY <2>3, PopShown
    <2>4. CASE LengthNative(a) \/ \E h \in Indices : GetSubscript(a, h)
      BY <2>4, LooksShown
    <2>5. CASE ArrayNativeRefuses(a)
      BY <2>5, RefusalsShown
    <2>6. CASE \E size \in Sizes : ResizeNative(a, size)
      BY <2>6, ResizeShown
    <2>7. CASE \E size \in Sizes : ResizeOverflows(a, size)
      BY <2>7, OverflowsShown
    <2>8. CASE \E b \in Ids, from, to \in Cuts \union {Absent} : SliceNative(a, b, from, to)
      BY <2>8, SliceShown
    <2>9. CASE \E h \in Indices, v \in Values : SetSubscript(a, h, v)
      BY <2>9, SubscriptShown
    <2>10. CASE \E h \in Indices, v \in Values : SetSubscriptFails(a, h, v)
      BY <2>10, RefusalsShown
    <2>11. CASE Forget(a)
      BY <2>11, ForgetShown
    <2> QED BY <1>1, <2>1, <2>2, <2>3, <2>4, <2>5, <2>6, <2>7, <2>8, <2>9, <2>10, <2>11
            DEF ArrayOperation
  <1>2. ASSUME NEW src \in Texts \union held, TextOperation(src)
        PROVE  Abstract!Next
    <2>1. CASE \E b \in held : AppendNative(b, src)
      BY <2>1, AppendShown
    <2>2. CASE \E b \in held : AppendOverflows(b, src)
      BY <2>2, OverflowsShown
    <2>3. CASE \E b \in held : AppendRefuses(b, src)
      BY <2>3, RefusalsShown
    <2>4. CASE \E b \in held : EqualsNative(b, src)
      BY <2>4, EqualsShown
    <2>5. CASE \E from \in Cuts : TextSliceRefuses(src, from)
      BY <2>5, TextSliceRefusesShown
    <2>6. CASE \E b \in Ids, from \in Cuts, to \in Cuts \union {Absent} :
                 IsText(src) /\ TextSliceNative(b, src, from, to)
      BY <2>6, TextSliceShown
    <2> QED BY <1>2, <2>1, <2>2, <2>3, <2>4, <2>5, <2>6 DEF TextOperation
  <1>3. CASE \E a \in Ids : Construct(a)
    BY <1>3, ConstructShown
  <1>4. CASE \E type \in Types \ {Builder}, size \in Sizes : ArrayOverflows(type, size)
    BY <1>4, OverflowsShown
  <1>5. CASE GcNative
    BY <1>5, GcShown
  <1>6. CASE UNCHANGED vars
    BY <1>6, NothingChanges DEF vars, Abstract!vars, Abstract!Same
  <1> QED BY <1>1, <1>2, <1>3, <1>4, <1>5, <1>6 DEF Next

\* No sequence has a name at first.
LEMMA InitShown == Init => Abstract!Init
  <1> SUFFICES ASSUME Init PROVE Abstract!Init
    OBVIOUS
  <1>1. held = {} /\ running = TRUE /\ asked = <<>> /\ answer = Value(Nil)
    BY DEF Init
  <1>2. Shown = [a \in Ids |-> Free]
    BY <1>1 DEF Shown
  <1> QED BY <1>1, <1>2 DEF Abstract!Init, Value, Abstract!Value

\* Arrays, typed arrays and builders are the sequences a program takes them for:
\* each native does to its object what is asked for, and to no other, with the answer
\* of the sequence, whatever growth, collection and unescaping in place do below.
THEOREM SequencesImplemented ==
  ASSUME LinesFit, 0 \notin Sizes
  PROVE  Spec => ImplementsSequences
  <1>1. Init => Abstract!Init
    BY InitShown
  <1>2. Inductive /\ [Next]_vars => [Abstract!Next]_(Abstract!vars)
    BY StepShown
  <1> QED BY <1>1, <1>2, ArraysInvariant, PTL DEF Spec, ImplementsSequences, Abstract!Spec
===============================================================================
