---------------------------- MODULE SetInduction -----------------------------
(***************************************************************************)
(* Induction over the naturals stated for a set instead of a predicate: the *)
(* set of the numbers a fact holds of, with which the other proof modules   *)
(* show what the recursive functions of the models compute; and what        *)
(* remainders are, from which the searches of the hash tables start.        *)
(***************************************************************************)
EXTENDS Integers, WellFoundedInduction, TLAPS

\* The order of the naturals, as a set of pairs.
Less == {p \in Nat \X Nat : p[1] < p[2]}

\* It is well founded: there is no infinite descent in Nat.
LEMMA LessIsWellFounded == IsWellFoundedOn(Less, Nat)
  BY NatLessThanWellFounded DEF OpToRel, Less

\* A set that has 0, and with each number the next one, has all of them.
LEMMA NatBySteps ==
  ASSUME NEW S, 0 \in S, \A n \in Nat : n \in S => n + 1 \in S
  PROVE  Nat \subseteq S
  <1> DEFINE Rest == Nat \ S
  <1>1. SUFFICES ASSUME Rest # {} PROVE FALSE
    OBVIOUS
  <1>2. PICK x \in Rest : \A y \in Rest : ~(<<y, x>> \in Less)
    <2> HIDE DEF Rest
    <2>1. Rest \subseteq Nat
      BY DEF Rest
    <2> QED BY <1>1, <2>1, LessIsWellFounded, WFMin
  <1>3. x \in Nat /\ x # 0 /\ x - 1 \in Nat
    OBVIOUS
  <1>4. <<x - 1, x>> \in Less
    BY <1>3 DEF Less
  <1>5. x - 1 \notin Rest
    BY <1>2, <1>4
  <1> QED BY <1>3, <1>5

\* A set of naturals that is not empty has a least element.
LEMMA LeastNat ==
  ASSUME NEW D, D \subseteq Nat, D # {}
  PROVE  \E d \in D : \A c \in D : d <= c
  <1>1. PICK d \in D : \A c \in D : ~(<<c, d>> \in Less)
    BY LessIsWellFounded, WFMin
  <1>2. ASSUME NEW c \in D, ~(d <= c)
        PROVE  FALSE
    <2>1. c \in Nat /\ d \in Nat /\ c < d
      BY <1>2
    <2>2. <<c, d>> \in Less
      BY <2>1 DEF Less
    <2> QED BY <1>1, <2>2
  <1> QED BY <1>2

-----------------------------------------------------------------------------
(* Remainders: where a search of a hash table looks.                        *)

\* A remainder lies below the divisor, and every number below it is one.
LEMMA Remainder ==
  ASSUME NEW a \in Nat, NEW n \in Nat \ {0}
  PROVE  a % n \in 0 .. n - 1
  OBVIOUS

\* A number becomes any given remainder when what is missing is added.
LEMMA RemainderReached ==
  ASSUME NEW a \in Nat, NEW n \in Nat \ {0}, NEW h \in 0 .. n - 1
  PROVE  \E d \in 0 .. n - 1 : (a + d) % n = h
  <1> DEFINE q == a \div n
             r == a % n
  <1>1. q \in Nat
    OBVIOUS
  <1>2. r \in 0 .. n - 1
    OBVIOUS
  <1>3. a = n * q + r
    OBVIOUS
  <1>4. \A p \in Nat : (n * p + h) % n = h
    OBVIOUS
  <1> HIDE DEF q, r
  <1>5. CASE r <= h
    <2>1. h - r \in 0 .. n - 1 /\ a + (h - r) = n * q + h
      BY <1>1, <1>2, <1>3, <1>5
    <2> QED BY <1>1, <1>4, <2>1
  <1>6. CASE h < r
    <2>1. h - r + n \in 0 .. n - 1
      BY <1>2, <1>6
    <2>2. a + (h - r + n) = n * (q + 1) + h
      <3>1. n * (q + 1) = n * q + n
        BY <1>1
      <3>2. n * q \in Int
        BY <1>1
      <3> QED BY <1>2, <1>3, <3>1, <3>2
    <2>3. q + 1 \in Nat
      BY <1>1
    <2> QED BY <1>4, <2>1, <2>2, <2>3
  <1> QED BY <1>2, <1>5, <1>6
=============================================================================
