---------------------------- MODULE ScannerProofs -----------------------------
(***************************************************************************)
(* Proofs about Scanner, for every text of any length, with a last newline *)
(* or without, and any keywords: the scanner stays in the text but at two  *)
(* ends of it, its lines are right, a token is the longest lexeme at its   *)
(* place, and nothing but blanks and comments lies between two tokens.     *)
(*                                                                         *)
(* The functions of the scanner jump forward, some by more than one        *)
(* character: what a loop answers is proved by induction on the distance   *)
(* to the end of the text.                                                 *)
(***************************************************************************)
EXTENDS Scanner, SetInduction, FiniteSetTheorems, SequenceTheorems

-----------------------------------------------------------------------------
(* The text                                                                *)

\* A text, of characters only, and its '\0'.
LEMMA TextIs ==
  ASSUME source \in Sources
  PROVE  /\ End \in Nat /\ 1 <= End /\ At(End) = Nul /\ At(End + 1) = Outside
         /\ \A i \in 1 .. End - 1 : At(i) \in Characters
  <1>1. source \in Seq(Characters)
    BY SourceAssumption
  <1>2. Len(source) \in Nat
    BY <1>1, LenProperties
  <1>3. \A i \in 1 .. Len(source) : source[i] \in Characters
    BY <1>1, ElementOfSeq
  <1> DEFINE n == Len(source)
  <1> HIDE DEF n
  <1>4. End = n + 1 /\ n \in Nat
    BY <1>1, <1>2 DEF End, n
  <1>5. \A i \in 1 .. n : At(i) = source[i]
    BY <1>4 DEF At
  <1>6. At(End) = Nul /\ At(End + 1) = Outside
    BY <1>4 DEF At
  <1> QED BY <1>3, <1>4, <1>5, <1>6 DEF n

\* Which characters are of which kind.
LEMMA KindsAre ==
  /\ Nul \notin Characters /\ Nul # Quote /\ Nul # Newline /\ Outside # Nul
  /\ Outside \notin Characters /\ Outside # Quote /\ Outside # Newline
  /\ Newline \in Blanks /\ Newline \notin AlphaNum /\ Newline # Quote /\ Newline # Backslash
  /\ Nul \notin AlphaNum /\ Nul \notin Digits /\ Nul \notin BinDigits /\ Nul \notin HexDigits
  /\ Alpha \subseteq AlphaNum /\ Digits \subseteq AlphaNum /\ BinDigits \subseteq Digits
  /\ HexDigits \subseteq AlphaNum
  /\ Newline \notin HexDigits /\ Newline \notin Digits /\ Newline \notin BinDigits
  /\ Outside \notin HexDigits /\ Outside \notin BinDigits
  BY DEF Nul, Outside, Characters, Quote, Newline, Backslash, AlphaNum, Alpha, Digits, BinDigits,
         HexDigits, Blanks, Punctuation, Signs

\* Only the end of the text shows its '\0'.
LEMMA NulIs ==
  ASSUME source \in Sources, NEW i \in 1 .. End
  PROVE  /\ At(i) = Nul <=> i = End
         /\ At(i) # Nul => At(i) \in Characters /\ i + 1 \in 1 .. End
  BY TextIs, KindsAre

\* The least of a set of positions.
LEMMA MinIs ==
  ASSUME NEW S, S \subseteq Nat, S # {}
  PROVE  Min(S) \in S /\ \A j \in S : Min(S) <= j
  <1>1. \E d \in S : \A c \in S : d <= c
    BY LeastNat
  <1> QED BY <1>1 DEF Min

\* A loop over characters that are not '\0' ends where it sees another one.
LEMMA AfterIs ==
  ASSUME source \in Sources, NEW chars, Nul \notin chars, NEW i \in 1 .. End
  PROVE  /\ After(chars, i) \in i .. End /\ At(After(chars, i)) \notin chars
         /\ \A k \in i .. After(chars, i) - 1 : At(k) \in chars
  <1> DEFINE S == {j \in i .. End : At(j) \notin chars}
             T == S \union {End + 1}
             m == After(chars, i)
  <1>1. End \in Nat /\ At(End) = Nul
    BY TextIs
  <1>2. End \in S
    BY <1>1
  <1>3. T \subseteq Nat /\ T # {}
    BY <1>1
  <1>4. m = Min(T)
    BY DEF After
  <1> HIDE DEF T, m
  <1>5. m \in T /\ \A j \in T : m <= j
    BY <1>3, <1>4, MinIs
  <1>6. m <= End
    BY <1>2, <1>5 DEF T
  <1>7. m \in S
    BY <1>1, <1>5, <1>6 DEF T
  <1>8. ASSUME NEW k \in i .. m - 1
        PROVE  At(k) \in chars
    <2>1. k \in i .. End /\ ~(m <= k)
      BY <1>1, <1>7
    <2>2. k \notin S
      BY <1>5, <2>1 DEF T
    <2> QED BY <2>1, <2>2
  <1> QED BY <1>7, <1>8 DEF m

\* And one that looks for the end of the line finds it, or the '\0'.
LEMMA FirstIs ==
  ASSUME source \in Sources, NEW i \in 1 .. End
  PROVE  LET j == First({Newline, Nul}, i) IN
         /\ j \in i .. End /\ At(j) \in {Newline, Nul}
         /\ \A k \in i .. j - 1 : At(k) \notin {Newline, Nul}
  <1> DEFINE chars == {Newline, Nul}
             S == {j \in i .. End : At(j) \in chars}
             T == S \union {End + 1}
             m == First(chars, i)
  <1>1. End \in Nat /\ At(End) = Nul
    BY TextIs
  <1>2. End \in S
    BY <1>1
  <1>3. T \subseteq Nat /\ T # {}
    BY <1>1
  <1>4. m = Min(T)
    BY DEF First
  <1> HIDE DEF T, m, chars
  <1>5. m \in T /\ \A j \in T : m <= j
    BY <1>3, <1>4, MinIs
  <1>6. m <= End
    BY <1>2, <1>5 DEF T
  <1>7. m \in S
    BY <1>1, <1>5, <1>6 DEF T
  <1>8. ASSUME NEW k \in i .. m - 1
        PROVE  At(k) \notin chars
    <2>1. k \in i .. End /\ ~(m <= k)
      BY <1>1, <1>7
    <2>2. k \notin S
      BY <1>5, <2>1 DEF T
    <2> QED BY <2>1, <2>2
  <1> QED BY <1>7, <1>8 DEF m, chars

-----------------------------------------------------------------------------
(* Newlines                                                                *)

\* Where there is no newline none is counted.
LEMMA NewlinesIs ==
  ASSUME NEW i \in Int, NEW j \in Int
  PROVE  /\ Newlines(i, j) \in Nat
         /\ (\A k \in i .. j - 1 : At(k) # Newline) => Newlines(i, j) = 0
  <1> DEFINE S == {k \in i .. j - 1 : At(k) = Newline}
  <1>1. Newlines(i, j) = Cardinality(S)
    BY DEF Newlines
  <1>2. IsFiniteSet(S)
    <2>1. IsFiniteSet(i .. j - 1) /\ S \subseteq i .. j - 1
      BY FS_Interval
    <2> QED BY <2>1, FS_Subset
  <1>3. (\A k \in i .. j - 1 : At(k) # Newline) => S = {}
    OBVIOUS
  <1> HIDE DEF S
  <1> QED BY <1>1, <1>2, <1>3, FS_CardinalityType, FS_EmptySet

\* The newlines of two stretches that follow each other.
LEMMA NewlinesAdd ==
  ASSUME NEW i \in Int, NEW j \in Int, NEW k \in Int, i <= j, j <= k
  PROVE  Newlines(i, k) = Newlines(i, j) + Newlines(j, k)
  <1> DEFINE N(a, b) == {x \in a .. b - 1 : At(x) = Newline}
             A == N(i, j)
             B == N(j, k)
             C == N(i, k)
  <1>1. \A a, b \in Int : IsFiniteSet(N(a, b))
    <2> SUFFICES ASSUME NEW a \in Int, NEW b \in Int PROVE IsFiniteSet(N(a, b))
      OBVIOUS
    <2>1. IsFiniteSet(a .. b - 1) /\ N(a, b) \subseteq a .. b - 1
      BY FS_Interval
    <2> QED BY <2>1, FS_Subset
  <1>2. C = A \union B /\ A \cap B = {}
    OBVIOUS
  <1>3. IsFiniteSet(A) /\ IsFiniteSet(B)
    BY <1>1
  <1>4. Newlines(i, k) = Cardinality(C) /\ Newlines(i, j) = Cardinality(A)
        /\ Newlines(j, k) = Cardinality(B)
    BY DEF Newlines
  <1> HIDE DEF A, B, C, N
  <1>5. Cardinality(A \union B) = Cardinality(A) + Cardinality(B) - Cardinality(A \cap B)
    BY <1>3, FS_Union
  <1>6. Cardinality(A) \in Nat /\ Cardinality(B) \in Nat /\ Cardinality(A \cap B) = 0
    BY <1>2, <1>3, FS_CardinalityType, FS_EmptySet
  <1> QED BY <1>2, <1>4, <1>5, <1>6

-----------------------------------------------------------------------------
(* Blanks and comments                                                     *)

\* A blank, a comment, or nothing; and where it ends.
LEMMA BlankEndIs ==
  ASSUME source \in Sources, NEW i \in 1 .. End
  PROVE  /\ BlankEnd(i) \in i .. End
         /\ BlankEnd(i) = i => At(i) \notin Blanks /\ ~LineComment(i)
                               /\ (BlockComment(i) => CommentEnds(i) = {})
         /\ BlankEnd(i) # i => \/ BlankEnd(i) = i + 1 /\ At(i) \in Blanks
                               \/ LineComment(i) /\ BlankEnd(i) = First({Newline, Nul}, i)
                               \/ /\ BlockComment(i) /\ CommentEnds(i) # {}
                                  /\ BlankEnd(i) = Min(CommentEnds(i)) + 2
  <1>0. End \in Nat /\ i \in Nat
    BY TextIs
  <1>1. CASE At(i) \in Blanks
    <2>1. At(i) # Nul
      BY <1>1 DEF Blanks, Nul, Newline
    <2>2. BlankEnd(i) = i + 1 /\ i + 1 \in 1 .. End
      BY <1>1, <2>1, NulIs DEF BlankEnd
    <2> QED BY <1>0, <1>1, <2>2
  <1>2. CASE At(i) \notin Blanks /\ LineComment(i)
    <2> DEFINE j == First({Newline, Nul}, i)
    <2>1. BlankEnd(i) = j
      BY <1>2 DEF BlankEnd
    <2>2. j \in i .. End /\ At(j) \in {Newline, Nul}
      BY FirstIs
    <2>3. At(i) \notin {Newline, Nul}
      BY <1>2 DEF LineComment, Newline, Nul
    <2>4. j # i
      BY <2>2, <2>3
    <2> QED BY <1>2, <2>1, <2>2, <2>4
  <1>3. CASE At(i) \notin Blanks /\ ~LineComment(i) /\ BlockComment(i) /\ CommentEnds(i) # {}
    <2> DEFINE S == CommentEnds(i)
               j == Min(S)
    <2>1. BlankEnd(i) = j + 2
      BY <1>3 DEF BlankEnd
    <2>2. S \subseteq Nat /\ S # {}
      BY <1>0, <1>3 DEF CommentEnds
    <2>3. j \in S
      BY <2>2, MinIs
    <2>4. j \in i + 1 .. End /\ At(j) = "*" /\ At(j + 1) = "/"
      BY <2>3 DEF CommentEnds
    <2>5. At(j) # Nul /\ At(j) # Newline
      BY <2>4 DEF Nul, Newline
    <2>6. j \in 1 .. End
      BY <1>0, <2>4
    <2>7. j + 2 \in 1 .. End
      <3>1. At(j + 1) # Nul /\ j + 1 \in 1 .. End
        BY <2>4, <2>5, <2>6, NulIs DEF Nul
      <3>2. (j + 1) + 1 \in 1 .. End
        BY <3>1, NulIs
      <3> QED BY <1>0, <2>4, <3>2
    <2> QED BY <1>0, <1>3, <2>1, <2>4, <2>7
  <1>4. CASE At(i) \notin Blanks /\ ~LineComment(i) /\ ~(BlockComment(i) /\ CommentEnds(i) # {})
    <2>1. BlankEnd(i) = i
      BY <1>4 DEF BlankEnd
    <2> QED BY <1>0, <1>4, <2>1
  <1> QED BY <1>1, <1>2, <1>3, <1>4

\* Behind the '\0' nothing is skipped.
LEMMA BehindIs ==
  ASSUME source \in Sources
  PROVE  At(End + 1) = Outside /\ BlankEnd(End + 1) = End + 1
  <1>1. At(End + 1) = Outside
    BY TextIs
  <1>2. Outside \notin Blanks /\ Outside # "/"
    BY DEF Outside, Blanks, Newline
  <1> QED BY <1>1, <1>2 DEF BlankEnd, LineComment, BlockComment

\* The recursions over positions, from the last one down: what turn i answers when f
\* has the answers behind it.
SkipLoop == [kind |-> "skip", from |-> 1, upto |-> End + 1]
LookLoop == [kind |-> "look", from |-> 1, upto |-> End + 2]
BlankLoop(i, j) == [kind |-> "blank", from |-> i, upto |-> j + 1]

\* Whether what is behind k is blank up to j, when f says so of the later positions.
BlankOn(f, k, j) ==
  \E m \in k .. j : f[m + 1] /\ (IsComment(k, m) \/ (m = k /\ At(k) \in Blanks))

Turn(loop, f, i) ==
  CASE loop.kind = "skip" -> IF BlankEnd(i) = i THEN i ELSE f[BlankEnd(i)]
    [] loop.kind = "look" ->
         IF i > End \/ At(i) \in {Quote, Nul} THEN {i}
         ELSE {i} \union f[IF At(i) = Backslash THEN i + 2 ELSE i + 1]
    [] loop.kind = "blank" ->
         i = loop.upto \/ BlankOn(f, i, loop.upto - 1)

Runs(f, loop) == f = [i \in loop.from .. loop.upto |-> Turn(loop, f, i)]

Loops ==
  {SkipLoop, LookLoop} \union {BlankLoop(i, j) : i \in Nat, j \in Nat}

\* A turn depends on what is behind it.
LEMMA TurnSame ==
  ASSUME source \in Sources, NEW loop \in Loops, NEW f, NEW h,
         NEW i \in loop.from .. loop.upto, \A k \in i + 1 .. loop.upto : f[k] = h[k]
  PROVE  Turn(loop, f, i) = Turn(loop, h, i)
  <1>0. End \in Nat
    BY TextIs
  <1>1. CASE loop = SkipLoop
    <2>0. loop.kind = "skip" /\ loop.from = 1 /\ loop.upto = End + 1
      BY <1>1 DEF SkipLoop
    <2>1. i \in 1 .. End \/ i = End + 1
      BY <1>0, <2>0
    <2>2. BlankEnd(i) \in i .. End + 1
      BY <1>0, <2>1, BlankEndIs, BehindIs
    <2>3. BlankEnd(i) # i => BlankEnd(i) \in i + 1 .. loop.upto
      BY <1>0, <2>0, <2>2
    <2> QED BY <2>0, <2>3 DEF Turn
  <1>2. CASE loop = LookLoop
    <2> DEFINE k == IF At(i) = Backslash THEN i + 2 ELSE i + 1
    <2>0. loop.kind = "look" /\ loop.from = 1 /\ loop.upto = End + 2
      BY <1>2 DEF LookLoop
    <2>1. ~(i > End) => k \in i + 1 .. loop.upto
      BY <1>0, <2>0
    <2> HIDE DEF k
    <2>2. ~(i > End) => f[k] = h[k]
      BY <2>1
    <2> QED BY <2>0, <2>2 DEF Turn, k
  <1>3. ASSUME NEW a \in Nat, NEW b \in Nat, loop = BlankLoop(a, b)
        PROVE  Turn(loop, f, i) = Turn(loop, h, i)
    <2>0. loop.kind = "blank" /\ loop.from = a /\ loop.upto = b + 1
      BY <1>3 DEF BlankLoop
    <2>1. \A m \in i .. loop.upto - 1 : m + 1 \in i + 1 .. loop.upto
      BY <2>0
    <2>2. \A m \in i .. loop.upto - 1 : f[m + 1] = h[m + 1]
      BY <2>1
    <2> DEFINE T(g) == i = loop.upto \/ BlankOn(g, i, loop.upto - 1)
    <2>3. \A g : Turn(loop, g, i) = T(g)
      BY <2>0 DEF Turn
    <2>4. T(f) = T(h)
      BY <2>2, Zenon DEF BlankOn
    <2> HIDE DEF T
    <2> QED BY <2>3, <2>4
  <1> QED BY <1>1, <1>2, <1>3 DEF Loops

\* They end.
LEMMA RunsExist ==
  ASSUME source \in Sources, NEW loop \in Loops
  PROVE  \E f : Runs(f, loop)
  <1> DEFINE o == loop.from
             n == loop.upto
             Above(f, k) == /\ f = [i \in o .. n |-> f[i]]
                            /\ \A i \in o .. n : n - i < k => f[i] = Turn(loop, f, i)
             Defined == {k \in Nat : \E f : Above(f, k)}
  <1>0. n \in Nat /\ o \in Nat
    BY TextIs DEF Loops, SkipLoop, LookLoop, BlankLoop
  <1> HIDE DEF n, o
  <1>1. 0 \in Defined
    <2> DEFINE f == [i \in o .. n |-> i]
    <2>1. f = [i \in o .. n |-> f[i]]
      OBVIOUS
    <2>2. \A i \in o .. n : ~(n - i < 0)
      BY <1>0
    <2> HIDE DEF f
    <2>3. Above(f, 0)
      BY <2>1, <2>2
    <2> QED BY <2>3
  <1>2. ASSUME NEW k \in Nat, k \in Defined
        PROVE  k + 1 \in Defined
    <2>1. PICK f : Above(f, k)
      BY <1>2
    <2> DEFINE h == [i \in o .. n |-> Turn(loop, f, i)]
    <2>2. h = [i \in o .. n |-> h[i]] /\ \A i \in o .. n : h[i] = Turn(loop, f, i)
      OBVIOUS
    <2> HIDE DEF h
    <2>3. ASSUME NEW i \in o .. n, n - i < k + 1
          PROVE  h[i] = Turn(loop, h, i)
      <3>1. \A j \in i + 1 .. n : f[j] = h[j]
        <4>1. \A j \in i + 1 .. n : j \in o .. n /\ n - j < k
          BY <1>0, <2>3
        <4>2. \A j \in i + 1 .. n : f[j] = Turn(loop, f, j)
          BY <2>1, <4>1
        <4> QED BY <2>2, <4>1, <4>2
      <3>2. Turn(loop, f, i) = Turn(loop, h, i)
        BY <3>1, TurnSame DEF n, o
      <3> QED BY <2>2, <3>2
    <2>4. Above(h, k + 1)
      <3>1. \A i \in o .. n : n - i < k + 1 => h[i] = Turn(loop, h, i)
        BY <2>3
      <3> QED BY <2>2, <3>1, Zenon
    <2>5. \E g : Above(g, k + 1)
      BY <2>4, Zenon
    <2> HIDE DEF Above
    <2> QED BY <2>5
  <1>3. n + 1 \in Defined
    <2>1. n + 1 \in Nat
      BY <1>0
    <2> HIDE DEF Defined
    <2> QED BY <1>1, <1>2, <2>1, NatBySteps
  <1>4. PICK f : Above(f, n + 1)
    BY <1>3
  <1>5. \A i \in o .. n : f[i] = Turn(loop, f, i)
    BY <1>0, <1>4
  <1>6. f = [i \in o .. n |-> Turn(loop, f, i)]
    BY <1>4, <1>5
  <1> QED BY <1>6 DEF Runs, n, o

\* skipWhitespace, from a position of the text, ends at one that no blank and no
\* comment begins.
LEMMA SkipRuns ==
  ASSUME source \in Sources
  PROVE  \E f : Runs(f, SkipLoop) /\ \A from : SkipWhitespace(from) = f[from]
  <1> DEFINE R(f) == f = [i \in 1 .. End + 1 |-> IF BlankEnd(i) = i THEN i ELSE f[BlankEnd(i)]]
             g == CHOOSE f : R(f)
  <1>1. \A f : Runs(f, SkipLoop) <=> R(f)
    BY DEF Runs, Turn, SkipLoop
  <1>2. \E f : R(f)
    <2> HIDE DEF R
    <2> QED BY <1>1, RunsExist DEF Loops
  <1>3. R(g)
    <2> HIDE DEF R
    <2> QED BY <1>2
  <1>4. \A from : SkipWhitespace(from) = g[from]
    BY Zenon DEF SkipWhitespace
  <1> HIDE DEF R, g
  <1> QED BY <1>1, <1>3, <1>4

\* It stays in the text.
LEMMA SkipIs ==
  ASSUME source \in Sources, NEW from \in 1 .. End
  PROVE  /\ SkipWhitespace(from) \in from .. End
         /\ BlankEnd(SkipWhitespace(from)) = SkipWhitespace(from)
  <1>0. End \in Nat
    BY TextIs
  <1>1. PICK f : Runs(f, SkipLoop) /\ \A i : SkipWhitespace(i) = f[i]
    BY SkipRuns
  <1>2. \A i \in 1 .. End + 1 : f[i] = IF BlankEnd(i) = i THEN i ELSE f[BlankEnd(i)]
    BY <1>1 DEF Runs, Turn, SkipLoop
  <1> DEFINE Right(i) == f[i] \in i .. End /\ BlankEnd(f[i]) = f[i]
             Good == {k \in Nat : \A i \in 1 .. End : End - i < k => Right(i)}
  <1>3. 0 \in Good
    BY <1>0
  <1>4. ASSUME NEW k \in Nat, k \in Good
        PROVE  k + 1 \in Good
    <2> SUFFICES ASSUME NEW i \in 1 .. End, End - i < k + 1
                 PROVE  Right(i)
      OBVIOUS
    <2> DEFINE e == BlankEnd(i)
    <2>1. e \in i .. End /\ i \in 1 .. End + 1
      BY <1>0, BlankEndIs
    <2>2. f[i] = IF e = i THEN i ELSE f[e]
      BY <1>2, <2>1
    <2>3. CASE e = i
      BY <1>0, <2>2, <2>3
    <2>4. CASE e # i
      <3>1. e \in 1 .. End /\ End - e < k
        BY <1>0, <2>1, <2>4
      <3>2. Right(e)
        BY <1>4, <3>1
      <3> HIDE DEF e
      <3>3. f[i] \in i .. End
        BY <1>0, <2>1, <2>2, <2>4, <3>2
      <3> QED BY <2>2, <2>4, <3>2, <3>3
    <2> QED BY <2>3, <2>4
  <1>5. End \in Good
    <2> HIDE DEF Good
    <2> QED BY <1>0, <1>3, <1>4, NatBySteps
  <1>6. Right(from)
    <2>1. End - from < End
      BY <1>0
    <2> QED BY <1>5, <2>1
  <1> QED BY <1>1, <1>6

-----------------------------------------------------------------------------
(* Strings                                                                 *)

\* The positions the loop of string() looks at, from i on: the last one shows a quote
\* or ends the text, or lies behind the '\0' that a backslash took; and only one behind
\* a backslash it looked at is left out.
Looked(L, i, e) ==
  /\ i \in L /\ e \in L /\ L \subseteq i .. e /\ e \in i .. End + 1
  /\ At(e) \in {Quote, Nul, Outside}
  /\ e = End + 1 /\ i # e => At(End - 1) = Backslash
  /\ \A k \in L : k < e => At(k) \notin {Quote, Nul}
  /\ \A k \in i + 1 .. e : k \in L <=> ~(k - 1 \in L /\ At(k - 1) = Backslash)

\* The switch of string() turns as LookLoop does.
LEMMA LookRuns ==
  ASSUME source \in Sources
  PROVE  \E f : Runs(f, LookLoop) /\ \A from : Looks(from) = f[from]
  <1> DEFINE R(f) == f = [i \in 1 .. End + 2 |->
                           IF i > End \/ At(i) \in {Quote, Nul} THEN {i}
                           ELSE {i} \union f[IF At(i) = Backslash THEN i + 2 ELSE i + 1]]
             g == CHOOSE f : R(f)
  <1>1. \A f : Runs(f, LookLoop) <=> R(f)
    BY DEF Runs, Turn, LookLoop
  <1>2. \E f : R(f)
    <2> HIDE DEF R
    <2> QED BY <1>1, RunsExist DEF Loops
  <1>3. R(g)
    <2> HIDE DEF R
    <2> QED BY <1>2
  <1>4. \A from : Looks(from) = g[from]
    BY Zenon DEF Looks
  <1> HIDE DEF R, g
  <1> QED BY <1>1, <1>3, <1>4

\* It ends at a quote or at the '\0', or behind it.
LEMMA LooksIs ==
  ASSUME source \in Sources, NEW from \in 1 .. End + 1
  PROVE  \E e : Looked(Looks(from), from, e)
  <1>0. End \in Nat
    BY TextIs
  <1>1. PICK f : Runs(f, LookLoop) /\ \A i : Looks(i) = f[i]
    BY LookRuns
  <1>2. \A i \in 1 .. End + 1 :
          f[i] = IF i > End \/ At(i) \in {Quote, Nul} THEN {i}
                 ELSE {i} \union f[IF At(i) = Backslash THEN i + 2 ELSE i + 1]
    <2>1. \A i \in 1 .. End + 1 : i \in 1 .. End + 2
      BY <1>0
    <2>2. \A i \in 1 .. End + 2 : f[i] = Turn(LookLoop, f, i)
      BY <1>1 DEF Runs, LookLoop
    <2>3. LookLoop.kind = "look"
      BY DEF LookLoop
    <2> QED BY <2>1, <2>2, <2>3 DEF Turn
  <1> DEFINE Right(i) == \E e : Looked(f[i], i, e)
             Good == {k \in Nat : \A i \in 1 .. End + 1 : End + 1 - i < k => Right(i)}
  <1>3. 0 \in Good
    BY <1>0
  <1>4. ASSUME NEW k \in Nat, k \in Good
        PROVE  k + 1 \in Good
    <2> SUFFICES ASSUME NEW i \in 1 .. End + 1, End + 1 - i < k + 1
                 PROVE  Right(i)
      OBVIOUS
    <2>1. CASE i > End \/ At(i) \in {Quote, Nul}
      <3>1. f[i] = {i}
        BY <1>2, <2>1
      <3>2. i > End => At(i) = Outside
        <4>1. i > End => i = End + 1
          BY <1>0
        <4> QED BY <4>1, TextIs
      <3>3. Looked({i}, i, i)
        BY <1>0, <2>1, <3>2 DEF Looked
      <3> QED BY <3>1, <3>3
    <2>2. CASE ~(i > End) /\ At(i) \notin {Quote, Nul}
      <3> DEFINE j == IF At(i) = Backslash THEN i + 2 ELSE i + 1
                 L == f[j]
      <3>1. f[i] = {i} \union L
        BY <1>2, <2>2
      <3>2. i \in 1 .. End /\ i + 1 \in 1 .. End
        BY <1>0, <2>2, NulIs
      <3>3. j \in 1 .. End + 1 /\ End + 1 - j < k
        BY <1>0, <2>2, <3>2
      <3>4. PICK e : Looked(L, j, e)
        <4> HIDE DEF j
        <4> QED BY <1>4, <3>3
      <3> HIDE DEF L
      <3>5. /\ j \in L /\ e \in L /\ L \subseteq j .. e /\ e \in j .. End + 1
            /\ At(e) \in {Quote, Nul, Outside}
            /\ e = End + 1 /\ j # e => At(End - 1) = Backslash
            /\ \A q \in L : q < e => At(q) \notin {Quote, Nul}
            /\ \A q \in j + 1 .. e : q \in L <=> ~(q - 1 \in L /\ At(q - 1) = Backslash)
        BY <3>4 DEF Looked
      <3> DEFINE M == {i} \union L
      <3>6. i \in M /\ e \in M /\ M \subseteq i .. e /\ e \in i .. End + 1
        BY <1>0, <3>5
      <3>10. e = End + 1 => At(End - 1) = Backslash
        <4>1. j = End + 1 => At(i) = Backslash /\ i = End - 1
          BY <1>0, <3>2
        <4> QED BY <3>5, <4>1
      <3>7. \A q \in M : q < e => At(q) \notin {Quote, Nul}
        BY <2>2, <3>5
      <3>8. ASSUME NEW q \in i + 1 .. e
            PROVE  q \in M <=> ~(q - 1 \in M /\ At(q - 1) = Backslash)
        <4>1. CASE q \in j + 1 .. e
          <5>1. q # i /\ q - 1 # i
            BY <1>0, <4>1
          <5> QED BY <3>5, <4>1, <5>1
        <4>2. CASE q = j
          <5>1. q \in M
            BY <3>5, <4>2
          <5>2. q - 1 \notin L
            BY <1>0, <3>5, <4>2
          <5>3. At(i) = Backslash => q - 1 # i
            BY <1>0, <4>2
          <5> QED BY <4>2, <5>1, <5>2, <5>3
        <4>3. CASE q < j
          <5>1. At(i) = Backslash /\ q = i + 1 /\ q - 1 = i
            BY <1>0, <3>8, <4>3
          <5>2. q \notin M
            BY <1>0, <3>5, <4>3, <5>1
          <5> QED BY <5>1, <5>2
        <4> QED BY <1>0, <3>5, <3>8, <4>1, <4>2, <4>3
      <3> HIDE DEF M, j
      <3>9. Looked(M, i, e)
        BY <3>5, <3>6, <3>7, <3>8, <3>10 DEF Looked
      <3> QED BY <3>1, <3>9 DEF M
    <2> QED BY <2>1, <2>2
  <1>5. End + 1 \in Good
    <2>1. End + 1 \in Nat
      BY <1>0
    <2> HIDE DEF Good
    <2> QED BY <1>3, <1>4, <2>1, NatBySteps
  <1>6. Right(from)
    <2>1. End + 1 - from < End + 1
      BY <1>0
    <2> QED BY <1>5, <2>1
  <1> QED BY <1>1, <1>6

\* The last of them is the largest.
LEMMA LastLook ==
  ASSUME source \in Sources, NEW L, NEW i \in 1 .. End, NEW e, Looked(L, i, e)
  PROVE  Max(L) = e
  <1>1. e \in L /\ L \subseteq i .. e /\ e \in Nat
    BY TextIs DEF Looked
  <1>2. \A y \in L : e >= y
    BY <1>1
  <1>3. \E x \in L : \A y \in L : x >= y
    BY <1>1, <1>2
  <1> DEFINE m == CHOOSE x \in L : \A y \in L : x >= y
  <1>4. Max(L) = m
    BY DEF Max
  <1>5. m \in L /\ \A y \in L : m >= y
    BY <1>3
  <1> HIDE DEF m
  <1>6. m \in i .. e /\ m >= e
    BY <1>1, <1>5
  <1> QED BY <1>1, <1>4, <1>6

-----------------------------------------------------------------------------
(* Lexemes: where they end, and the newlines they take                     *)

Plain == ~\E k \in 2 .. End - 1 : At(k) = Newline /\ Hidden(k)

\* Where a token that begins at i stops: in the text, or in error behind it.
Stops(i, x) ==
  \/ x.end \in i .. End
  \/ x.end = End + 1 /\ x.type = "ERROR" /\ (LastEscape(i) \/ LastPrefix(i))

Counted(i, x) ==
  /\ Stops(i, x) /\ x.lines \in Nat
  /\ Plain => x.lines = Newlines(i, x.end)

\* A lexeme of characters that are no newlines has none to count.
LEMMA OneLine ==
  ASSUME source \in Sources, NEW i \in 1 .. End, NEW type, NEW e \in Int,
         Stops(i, Lexeme(type, e)),
         Plain => \A k \in i .. e - 1 : At(k) # Newline
  PROVE  Counted(i, Lexeme(type, e))
  <1>1. i \in Int
    BY TextIs
  <1>2. Plain => Newlines(i, e) = 0
    BY <1>1, NewlinesIs
  <1> QED BY <1>2 DEF Counted, Lexeme

\* One that ends in the text.
LEMMA OneLineInside ==
  ASSUME source \in Sources, NEW i \in 1 .. End, NEW type, NEW e \in i .. End,
         Plain => \A k \in i .. e - 1 : At(k) # Newline
  PROVE  Counted(i, Lexeme(type, e))
  <1>1. e \in Int /\ Stops(i, Lexeme(type, e))
    BY TextIs DEF Stops, Lexeme
  <1> QED BY <1>1, OneLine

\* Each of the scanner's functions counts the newlines it takes.
LEMMA IdentifierCounted ==
  ASSUME source \in Sources, NEW i \in 1 .. End
  PROVE  Counted(i, Identifier(i))
  <1> DEFINE e == After(AlphaNum, i)
             type == IF Text(i, e) \in DOMAIN Keywords THEN Keywords[Text(i, e)] ELSE "IDENTIFIER"
  <1>1. Identifier(i) = Lexeme(type, e)
    BY DEF Identifier
  <1> HIDE DEF type
  <1>2. e \in i .. End /\ \A k \in i .. e - 1 : At(k) # Newline
    BY AfterIs, KindsAre
  <1> HIDE DEF e
  <1> QED BY <1>1, <1>2, OneLineInside

\* The name behind an '@', or the '@' alone.
LEMMA MentionCounted ==
  ASSUME source \in Sources, NEW i \in 1 .. End, At(i) = "@"
  PROVE  Counted(i, Mention(i))
  <1>0. End \in Nat
    BY TextIs
  <1>1. At(i) # Nul /\ At(i) # Newline
    BY DEF Nul, Newline
  <1>2. i + 1 \in 1 .. End
    BY <1>1, NulIs
  <1>3. CASE At(i + 1) \notin Alpha
    <2>1. Mention(i) = Lexeme("ERROR", i + 1)
      BY <1>3 DEF Mention
    <2>2. \A k \in i .. (i + 1) - 1 : At(k) # Newline
      BY <1>0, <1>1
    <2>3. i + 1 \in i .. End
      BY <1>0, <1>2
    <2> QED BY <2>1, <2>2, <2>3, OneLineInside
  <1>4. CASE At(i + 1) \in Alpha
    <2> DEFINE e == After(AlphaNum, i + 1)
               text == Text(i + 1, e)
               type == IF text \in DOMAIN Modules THEN Modules[text] ELSE "ERROR"
    <2>1. Mention(i) = Lexeme(type, e)
      BY <1>4 DEF Mention
    <2> HIDE DEF type
    <2>2. e \in i + 1 .. End /\ \A k \in i + 1 .. e - 1 : At(k) \in AlphaNum
      BY <1>2, AfterIs, KindsAre
    <2> HIDE DEF e
    <2>3. e \in i .. End /\ \A k \in i .. e - 1 : k = i \/ k \in i + 1 .. e - 1
      BY <1>0, <2>2
    <2>4. \A k \in i .. e - 1 : At(k) # Newline
      BY <1>1, <2>2, <2>3, KindsAre
    <2> QED BY <2>1, <2>3, <2>4, OneLineInside
  <1> QED BY <1>3, <1>4

\* A prefix, the character behind it, and digits: that character is a hidden one.
LEMMA BasedCounted ==
  ASSUME source \in Sources, NEW i \in 1 .. End, At(i) \in Digits,
         At(i + 1) \in {"b", "x"}, NEW type, NEW digits, Nul \notin digits,
         Newline \notin digits, Outside \notin digits
  PROVE  Counted(i, Based(type, digits, i))
  <1>0. End \in Nat
    BY TextIs
  <1>1. At(i) # Nul /\ At(i) # Newline /\ At(i + 1) # Nul /\ At(i + 1) # Newline
    BY KindsAre DEF Nul, Newline
  <1>2. i + 2 \in 1 .. End
    <2>1. i + 1 \in 1 .. End
      BY <1>1, NulIs
    <2>2. (i + 1) + 1 \in 1 .. End
      BY <1>1, <2>1, NulIs
    <2> QED BY <1>0, <2>2
  <1>3. i + 3 \in i .. End + 1 /\ Min({i + 3, End + 1}) = i + 3
    <2>1. {i + 3, End + 1} \subseteq Nat /\ {i + 3, End + 1} # {}
      BY <1>0
    <2>2. Min({i + 3, End + 1}) \in {i + 3, End + 1} /\ Min({i + 3, End + 1}) <= i + 3
      BY <2>1, MinIs
    <2> QED BY <1>0, <1>2, <2>2
  <1>4. Plain => At(i + 2) # Newline
    <2>1. CASE i + 2 = End
      BY <2>1, TextIs, KindsAre
    <2>2. CASE i + 2 # End
      <3>1. i + 2 \in 2 .. End - 1 /\ i + 2 > 2 /\ (i + 2) - 1 = i + 1 /\ (i + 2) - 2 = i
        BY <1>0, <1>2, <2>2
      <3>2. Hidden(i + 2)
        BY <3>1 DEF Hidden
      <3> QED BY <3>1, <3>2 DEF Plain
    <2> QED BY <2>1, <2>2
  <1>5. CASE At(i + 3) \in digits
    <2> DEFINE e == After(digits, i + 3)
    <2>1. Based(type, digits, i) = Lexeme(type, e)
      BY <1>3, <1>5 DEF Based
    <2>0. i + 3 \in 1 .. End
      <3>1. i + 3 # End + 1
        BY <1>5, TextIs
      <3> QED BY <1>0, <1>3, <3>1
    <2>2. e \in i + 3 .. End /\ \A k \in i + 3 .. e - 1 : At(k) \in digits
      BY <2>0, AfterIs
    <2> HIDE DEF e
    <2>3. e \in i .. End /\ \A k \in i .. e - 1 : k \in {i, i + 1, i + 2} \/ k \in i + 3 .. e - 1
      BY <1>0, <2>2
    <2>4. Plain => \A k \in i .. e - 1 : At(k) # Newline
      BY <1>1, <1>4, <2>2, <2>3
    <2> QED BY <2>1, <2>3, <2>4, OneLineInside
  <1>6. CASE At(i + 3) \notin digits
    <2>1. Based(type, digits, i) = Lexeme("ERROR", i + 3)
      BY <1>3, <1>6 DEF Based
    <2>2. \A k \in i .. (i + 3) - 1 : k \in {i, i + 1, i + 2}
      BY <1>0
    <2>3. Plain => \A k \in i .. (i + 3) - 1 : At(k) # Newline
      BY <1>1, <1>4, <2>2
    <2>4. i + 3 = End + 1 => LastPrefix(i)
      BY <1>0 DEF LastPrefix
    <2>5. Stops(i, Lexeme("ERROR", i + 3)) /\ i + 3 \in Int
      BY <1>0, <1>3, <2>4 DEF Stops, Lexeme
    <2> QED BY <2>1, <2>3, <2>5, OneLine
  <1> QED BY <1>5, <1>6

\* A run of digits that begins here or one position on.
LEMMA DigitsRun ==
  ASSUME source \in Sources, NEW i \in 1 .. End
  PROVE  /\ After(Digits, i) \in i .. End
         /\ \A k \in i .. After(Digits, i) - 1 : At(k) # Newline
  BY AfterIs, KindsAre

\* Where a number has come to when its whole part is read, its fraction, its 'e' and
\* the sign behind it: no newline is behind it.
Reached(i, e) == e \in i .. End /\ \A k \in i .. e - 1 : At(k) # Newline

\* One character more, and the digits that follow.
LEMMA ReachMore ==
  ASSUME source \in Sources, NEW i \in 1 .. End, NEW e, Reached(i, e)
  PROVE  /\ At(e) # Nul /\ At(e) # Newline => Reached(i, e + 1)
         /\ Reached(i, After(Digits, e))
  <1>0. End \in Nat /\ e \in 1 .. End
    BY TextIs DEF Reached
  <1>1. ASSUME At(e) # Nul, At(e) # Newline
        PROVE  Reached(i, e + 1)
    <2>1. e + 1 \in 1 .. End
      BY <1>0, <1>1, NulIs
    <2>2. \A k \in i .. (e + 1) - 1 : k = e \/ k \in i .. e - 1
      BY <1>0
    <2>3. e + 1 \in i .. End
      BY <1>0, <2>1 DEF Reached
    <2> QED BY <1>1, <2>2, <2>3 DEF Reached
  <1> DEFINE a == After(Digits, e)
  <1>2. a \in e .. End /\ \A k \in e .. a - 1 : At(k) # Newline
    BY <1>0, DigitsRun
  <1> HIDE DEF a
  <1>3. \A k \in i .. a - 1 : k \in i .. e - 1 \/ k \in e .. a - 1
    BY <1>0, <1>2 DEF Reached
  <1>4. a \in i .. End
    BY <1>0, <1>2 DEF Reached
  <1>5. Reached(i, a)
    BY <1>2, <1>3, <1>4 DEF Reached
  <1> QED BY <1>1, <1>5 DEF a

\* Digits, a fraction, an exponent.
LEMMA DecimalCounted ==
  ASSUME source \in Sources, NEW i \in 1 .. End, At(i) \in Digits
  PROVE  Counted(i, Decimal(i))
  <1> DEFINE whole == After(Digits, i + 1)
             fraction == IF At(whole) = "." /\ At(whole + 1) \in Digits
                         THEN After(Digits, whole + 1) ELSE whole
             exponent == IF At(fraction + 1) \in Signs THEN fraction + 2 ELSE fraction + 1
  <1>0. End \in Nat
    BY TextIs
  <1>1. Decimal(i) = IF At(fraction) # "e" THEN Lexeme("NUMBER", fraction)
                     ELSE IF At(exponent) \in Digits THEN Lexeme("NUMBER", After(Digits, exponent))
                     ELSE Lexeme("ERROR", exponent)
    BY DEF Decimal
  <1>2. \A c : c \in Digits \union Signs \union {".", "e"} => c # Nul /\ c # Newline
    BY DEF Digits, BinDigits, Signs, Nul, Newline
  <1>3. Reached(i, i)
    BY <1>0 DEF Reached
  <1>4. Reached(i, i + 1)
    BY <1>2, <1>3, ReachMore
  <1>5. Reached(i, whole)
    BY <1>4, ReachMore
  <1> HIDE DEF whole
  <1>6. Reached(i, fraction)
    <2>1. At(whole) = "." => Reached(i, whole + 1)
      BY <1>2, <1>5, ReachMore
    <2>2. At(whole) = "." => Reached(i, After(Digits, whole + 1))
      BY <2>1, ReachMore
    <2> QED BY <1>5, <2>2
  <1> HIDE DEF fraction
  <1>7. At(fraction) = "e" => Reached(i, exponent) /\ Reached(i, After(Digits, exponent))
    <2> SUFFICES ASSUME At(fraction) = "e"
                 PROVE  Reached(i, exponent) /\ Reached(i, After(Digits, exponent))
      OBVIOUS
    <2>1. Reached(i, fraction + 1)
      BY <1>2, <1>6, ReachMore
    <2>2. At(fraction + 1) \in Signs => Reached(i, (fraction + 1) + 1)
      BY <1>2, <2>1, ReachMore
    <2>3. (fraction + 1) + 1 = fraction + 2
      BY <1>0, <1>6 DEF Reached
    <2>4. Reached(i, exponent)
      BY <2>1, <2>2, <2>3
    <2> HIDE DEF exponent
    <2> QED BY <2>4, ReachMore
  <1> HIDE DEF exponent
  <1>8. \A type, e : Reached(i, e) => Counted(i, Lexeme(type, e))
    BY OneLineInside DEF Reached
  <1> QED BY <1>1, <1>6, <1>7, <1>8

\* All numbers.
LEMMA NumberCounted ==
  ASSUME source \in Sources, NEW i \in 1 .. End, At(i) \in Digits
  PROVE  Counted(i, Number(i))
  <1>1. CASE At(i + 1) = "b"
    <2>1. Number(i) = Based("NUMBER_BIN", BinDigits, i)
      BY <1>1 DEF Number
    <2> QED BY <1>1, <2>1, BasedCounted, KindsAre
  <1>2. CASE At(i + 1) = "x"
    <2>1. Number(i) = Based("NUMBER_HEX", HexDigits, i)
      BY <1>2 DEF Number
    <2> QED BY <1>2, <2>1, BasedCounted, KindsAre
  <1>3. CASE At(i + 1) # "b" /\ At(i + 1) # "x"
    <2>1. Number(i) = Decimal(i)
      BY <1>3 DEF Number
    <2> QED BY <2>1, DecimalCounted
  <1> QED BY <1>1, <1>2, <1>3

\* A newline the switch does not look at stands behind a backslash.
LEMMA StringCounted ==
  ASSUME source \in Sources, NEW i \in 1 .. End, At(i) = Quote
  PROVE  Counted(i, String(i))
  <1> DEFINE L == Looks(i + 1)
             N == {k \in L : At(k) = Newline}
             c == Cardinality(N)
             stop(e) == IF At(e) # Quote THEN e ELSE e + 1
  <1>0. End \in Nat
    BY TextIs
  <1>1. At(i) # Nul /\ At(i) # Newline
    BY KindsAre
  <1>2. i + 1 \in 1 .. End
    BY <1>1, NulIs
  <1>3. PICK e : Looked(L, i + 1, e)
    BY <1>0, <1>2, LooksIs
  <1>4. Max(L) = e
    <2> HIDE DEF L
    <2> QED BY <1>2, <1>3, LastLook
  <1>5. /\ String(i).end = stop(e) /\ String(i).lines = c
        /\ At(e) # Quote => String(i).type = "ERROR"
    BY <1>4 DEF String
  <1> HIDE DEF L
  <1>6. /\ e \in i + 1 .. End + 1 /\ L \subseteq i + 1 .. e /\ i + 1 \in L
        /\ At(e) \in {Quote, Nul, Outside}
        /\ e = End + 1 /\ i + 1 # e => At(End - 1) = Backslash
    BY <1>3 DEF Looked
  <1>7. /\ stop(e) \in i .. End + 1 /\ stop(e) \in {e, e + 1}
        /\ stop(e) = End + 1 => LastEscape(i) /\ String(i).type = "ERROR"
    <2>1. At(e) = Quote => e # End /\ e # End + 1
      BY TextIs, KindsAre
    <2>2. e = End + 1 => At(End - 1) = Backslash
      BY <1>0, <1>2, <1>6
    <2> QED BY <1>0, <1>5, <1>6, <2>1, <2>2 DEF LastEscape
  <1>8. c \in Nat
    <2>1. IsFiniteSet(i + 1 .. e)
      BY <1>0, <1>6, FS_Interval
    <2>2. N \subseteq i + 1 .. e
      BY <1>6
    <2> HIDE DEF N
    <2> QED BY <2>1, <2>2, FS_Subset, FS_CardinalityType
  <1>9. ASSUME Plain
        PROVE  c = Newlines(i, stop(e))
    <2> DEFINE M == {k \in i .. stop(e) - 1 : At(k) = Newline}
    <2>1. N \subseteq M
      <3>1. \A k \in N : k \in i + 1 .. e /\ At(k) = Newline
        BY <1>6
      <3>2. At(e) # Newline
        BY <1>6, KindsAre
      <3>3. \A k \in N : k \in i .. stop(e) - 1
        BY <1>0, <1>6, <1>7, <3>1, <3>2
      <3> QED BY <3>1, <3>3
    <2>2. M \subseteq N
      <3> SUFFICES ASSUME NEW k \in i .. stop(e) - 1, At(k) = Newline
                   PROVE  k \in L
        OBVIOUS
      <3>1. k # i /\ k # e /\ k # End
        BY <1>1, <1>6, KindsAre, TextIs
      <3>2. k \in i + 1 .. e
        BY <1>0, <1>6, <1>7, <3>1
      <3>3. CASE k = i + 1
        BY <1>6, <3>3
      <3>4. CASE k \in (i + 1) + 1 .. e
        <4>1. At(k - 1) # Backslash
          <5>1. k \in 2 .. End - 1
            BY <1>0, <1>6, <3>1, <3>4
          <5>2. ~Hidden(k)
            BY <1>9, <5>1 DEF Plain
          <5> QED BY <5>2 DEF Hidden
        <4> QED BY <1>3, <3>4, <4>1 DEF Looked
      <3> QED BY <1>0, <1>6, <3>2, <3>3, <3>4
    <2>3. Newlines(i, stop(e)) = Cardinality(M)
      BY DEF Newlines
    <2>4. M = N
      BY <2>1, <2>2
    <2> HIDE DEF M, N
    <2> QED BY <2>3, <2>4
  <1> HIDE DEF c
  <1>10. Stops(i, String(i))
    <2> HIDE DEF stop
    <2> QED BY <1>0, <1>5, <1>7 DEF Stops
  <1> HIDE DEF stop
  <1> QED BY <1>5, <1>8, <1>9, <1>10 DEF Counted

\* match() takes a character only after it saw it.
LEMMA OperatorCounted ==
  ASSUME source \in Sources, NEW i \in 1 .. End,
         At(i) \in Punctuation \union {"!", "=", "<", ">"}
  PROVE  Counted(i, Operator(i))
  <1>0. End \in Nat
    BY TextIs
  <1>1. \A c \in Punctuation \union {"!", "=", "<", ">"} : c # Nul /\ c # Newline
    BY DEF Punctuation, Signs, Nul, Newline
  <1>2. \A type, e : Reached(i, e) => Counted(i, Lexeme(type, e))
    BY OneLineInside DEF Reached
  <1>3. Reached(i, i + 1)
    <2>1. Reached(i, i)
      BY <1>0 DEF Reached
    <2> QED BY <1>1, <2>1, ReachMore
  <1>4. At(i + 1) \in {"=", "<", ">"} => Reached(i, i + 2)
    <2>1. (i + 1) + 1 = i + 2
      BY <1>0
    <2> QED BY <1>1, <1>3, <2>1, ReachMore
  <1>5. At(i + 1) = ">" /\ At(i + 2) = ">" => Reached(i, i + 3)
    <2>1. (i + 2) + 1 = i + 3
      BY <1>0
    <2> QED BY <1>1, <1>4, <2>1, ReachMore
  <1>6. \E type, e : Reached(i, e) /\ Operator(i) = Lexeme(type, e)
    <2>1. CASE At(i) = "!"
      <3>1. \/ At(i + 1) = "=" /\ Operator(i) = Lexeme("BANG_EQUAL", i + 2)
            \/ Operator(i) = Lexeme("BANG", i + 1)
        BY <2>1 DEF Operator
      <3> QED BY <1>3, <1>4, <3>1
    <2>2. CASE At(i) = "="
      <3>1. \/ At(i + 1) = "=" /\ Operator(i) = Lexeme("EQUAL_EQUAL", i + 2)
            \/ At(i + 1) = ">" /\ Operator(i) = Lexeme("RIGHT_ARROW", i + 2)
            \/ Operator(i) = Lexeme("EQUAL", i + 1)
        BY <2>2 DEF Operator
      <3> QED BY <1>3, <1>4, <3>1
    <2>3. CASE At(i) = "<"
      <3>1. \/ At(i + 1) = "<" /\ Operator(i) = Lexeme("BIT_SHL", i + 2)
            \/ At(i + 1) = "=" /\ Operator(i) = Lexeme("LESS_EQUAL", i + 2)
            \/ Operator(i) = Lexeme("LESS", i + 1)
        BY <2>3 DEF Operator
      <3> QED BY <1>3, <1>4, <3>1
    <2>4. CASE At(i) = ">"
      <3>1. \/ At(i + 1) = ">" /\ At(i + 2) = ">" /\ Operator(i) = Lexeme("BIT_SHR", i + 3)
            \/ At(i + 1) = ">" /\ Operator(i) = Lexeme("BIT_SAR", i + 2)
            \/ At(i + 1) = "=" /\ Operator(i) = Lexeme("GREATER_EQUAL", i + 2)
            \/ Operator(i) = Lexeme("GREATER", i + 1)
        BY <2>4 DEF Operator
      <3> QED BY <1>3, <1>4, <1>5, <3>1
    <2>5. CASE At(i) \notin {"!", "=", "<", ">"}
      <3>1. Operator(i) = Lexeme(At(i), i + 1)
        BY <2>5 DEF Operator
      <3> QED BY <1>3, <3>1
    <2> QED BY <2>1, <2>2, <2>3, <2>4, <2>5
  <1> QED BY <1>2, <1>6

\* Behind a character that begins no token one more is taken, a hidden one.
LEMMA UnexpectedCounted ==
  ASSUME source \in Sources, NEW i \in 1 .. End, At(i) \in {"#", Backslash}
  PROVE  Counted(i, Unexpected(i))
  <1>0. End \in Nat
    BY TextIs
  <1>1. At(i) # Nul /\ At(i) # Newline
    BY DEF Nul, Newline, Backslash
  <1>2. i + 1 \in 1 .. End
    BY <1>1, NulIs
  <1>3. CASE At(i + 1) = Nul
    <2>1. Unexpected(i) = Lexeme("EOF", i + 1)
      BY <1>3 DEF Unexpected
    <2>2. i + 1 \in i .. End /\ \A k \in i .. (i + 1) - 1 : At(k) # Newline
      BY <1>0, <1>1, <1>2
    <2> QED BY <2>1, <2>2, OneLineInside
  <1>4. CASE At(i + 1) # Nul
    <2>1. Unexpected(i) = Lexeme("ERROR", i + 2)
      BY <1>4 DEF Unexpected
    <2>2. (i + 1) + 1 \in 1 .. End
      BY <1>2, <1>4, NulIs
    <2>3. Plain => At(i + 1) # Newline
      <3>1. i + 1 \in 2 .. End - 1 /\ (i + 1) - 1 = i
        BY <1>0, <1>2, <2>2
      <3>2. Hidden(i + 1)
        BY <3>1 DEF Hidden
      <3> QED BY <3>1, <3>2 DEF Plain
    <2>4. i + 2 \in i .. End /\ \A k \in i .. (i + 2) - 1 : k = i \/ k = i + 1
      BY <1>0, <1>2, <2>2
    <2> HIDE DEF Plain
    <2>5. Plain => \A k \in i .. (i + 2) - 1 : At(k) # Newline
      BY <1>1, <2>3, <2>4
    <2> QED BY <2>1, <2>4, <2>5, OneLineInside
  <1> QED BY <1>3, <1>4

\* What a token begins with, when no blank and no comment begins there.
LEMMA BeginsIs ==
  ASSUME source \in Sources, NEW i \in 1 .. End, BlankEnd(i) = i
  PROVE  \/ At(i) = Nul /\ TokenAt(i) = Lexeme("EOF", i)
         \/ /\ BlockComment(i) /\ At(i) # Nul
            /\ TokenAt(i) = [type |-> "ERROR", end |-> End, lines |-> Newlines(i, End)]
         \/ At(i) \in Alpha /\ TokenAt(i) = Identifier(i)
         \/ At(i) \in Digits /\ TokenAt(i) = Number(i)
         \/ At(i) = "@" /\ TokenAt(i) = Mention(i)
         \/ At(i) = Quote /\ TokenAt(i) = String(i)
         \/ /\ At(i) \in Punctuation \union {"!", "=", "<", ">"} /\ TokenAt(i) = Operator(i)
            /\ ~BlockComment(i)
         \/ At(i) \in {"#", Backslash} /\ TokenAt(i) = Unexpected(i)
  <1> DEFINE Op == Punctuation \union {"!", "=", "<", ">"}
  <1>1. At(i) \notin Blanks /\ (BlockComment(i) => At(i) = "/")
    BY BlankEndIs DEF BlockComment
  <1>2. At(i) # Nul => At(i) \in Characters
    BY NulIs
  <1>3. TokenAt(i) = CASE At(i) = Nul -> Lexeme("EOF", i)
          [] BlockComment(i) -> [type |-> "ERROR", end |-> End, lines |-> Newlines(i, End)]
          [] At(i) \in Alpha -> Identifier(i)
          [] At(i) \in Digits -> Number(i)
          [] At(i) = "@" -> Mention(i)
          [] At(i) = Quote -> String(i)
          [] ~BlockComment(i) /\ At(i) \in Op -> Operator(i)
          [] OTHER -> Unexpected(i)
    BY DEF TokenAt
  <1>4. Characters = Alpha \union Digits \union Blanks \union Op \union {"@", "#", Quote, Backslash}
    BY DEF Characters, AlphaNum
  <1>5. /\ \A c \in Alpha : c \notin Digits \union Op \union {"@", "#", "/", Quote, Backslash, Nul}
        /\ \A c \in Digits : c \notin Op \union {"@", "#", "/", Quote, Backslash, Nul}
        /\ \A c \in Op : c \notin {"@", "#", Quote, Backslash, Nul}
        /\ "/" \in Op /\ "@" \notin {"#", Quote, Backslash, Nul}
        /\ Quote \notin {"#", Backslash, Nul} /\ Nul # "#" /\ Nul # Backslash
    BY DEF Alpha, Digits, BinDigits, Punctuation, Signs, Quote, Backslash, Nul
  <1> HIDE DEF Op
  <1>6. CASE At(i) = Nul
    BY <1>1, <1>3, <1>5, <1>6
  <1>7. CASE BlockComment(i)
    BY <1>1, <1>3, <1>5, <1>7
  <1>8. CASE At(i) \in Alpha
    BY <1>1, <1>3, <1>5, <1>8
  <1>9. CASE At(i) \in Digits
    BY <1>1, <1>3, <1>5, <1>9
  <1>10. CASE At(i) = "@"
    BY <1>1, <1>3, <1>5, <1>10
  <1>11. CASE At(i) = Quote
    BY <1>1, <1>3, <1>5, <1>11
  <1>12. CASE At(i) \in Op /\ ~BlockComment(i)
    BY <1>1, <1>3, <1>5, <1>12 DEF Op
  <1>13. CASE At(i) \in {"#", Backslash}
    BY <1>1, <1>3, <1>5, <1>13
  <1> QED BY <1>1, <1>2, <1>4, <1>6, <1>7, <1>8, <1>9, <1>10, <1>11, <1>12, <1>13

\* A token ends where Stops says and its newlines are counted.
LEMMA TokenCounted ==
  ASSUME source \in Sources, NEW i \in 1 .. End, BlankEnd(i) = i
  PROVE  Counted(i, TokenAt(i))
  <1>0. End \in Nat
    BY TextIs
  <1>1. Counted(i, Lexeme("EOF", i))
    <2>1. \A k \in i .. i - 1 : At(k) # Newline
      BY <1>0
    <2> QED BY <1>0, <2>1, OneLineInside
  <1>2. Counted(i, [type |-> "ERROR", end |-> End, lines |-> Newlines(i, End)])
    <2>1. \A a, b \in Int : Newlines(a, b) \in Nat
      BY NewlinesIs
    <2>2. End \in Int /\ i \in Int /\ End \in i .. End
      BY <1>0
    <2>3. Newlines(i, End) \in Nat
      BY <2>1, <2>2
    <2> QED BY <2>2, <2>3 DEF Counted, Stops
  <1> QED BY <1>1, <1>2, BeginsIs, IdentifierCounted, NumberCounted, MentionCounted,
             StringCounted, OperatorCounted, UnexpectedCounted

-----------------------------------------------------------------------------
(* The scanner                                                             *)

\* A step moves from the position the scanner stands at to the end of the next token,
\* with the line of the last character it took.
Inductive ==
  /\ source \in Sources /\ line \in Nat
  /\ InsideText /\ token.line = line
  /\ Plain => line = 1 + Newlines(1, current)

\* At the start nothing is read.
LEMMA InductiveInit ==
  ASSUME Init
  PROVE  Inductive
  <1>0. source \in Sources /\ current = 1 /\ line = 1 /\ token.end = 1 /\ token.line = 1
    BY DEF Init
  <1>1. InsideText
    BY <1>0, TextIs DEF InsideText
  <1>2. Newlines(1, 1) = 0
    <2>1. \A k \in 1 .. 1 - 1 : At(k) # Newline
      OBVIOUS
    <2> QED BY <2>1, NewlinesIs
  <1> QED BY <1>0, <1>1, <1>2 DEF Inductive

\* The text stays, and so does all that is said of it.
LEMMA SameText ==
  ASSUME UNCHANGED source
  PROVE  End' = End /\ Plain' = Plain /\ \A i, j : Newlines(i, j)' = Newlines(i, j)
  <1>1. End' = End /\ \A i : At(i)' = At(i)
    BY DEF End, At
  <1>2. \A k : Hidden(k)' = Hidden(k)
    BY <1>1 DEF Hidden
  <1>3. Plain' = Plain
    BY <1>1, <1>2 DEF Plain
  <1>4. \A i, j : Newlines(i, j)' = Newlines(i, j)
    BY <1>1 DEF Newlines
  <1> QED BY <1>1, <1>3, <1>4

\* A step reads on from where the last one stopped.
LEMMA InductiveStep ==
  ASSUME Inductive, [Next]_vars
  PROVE  Inductive'
  <1>0. /\ source \in Sources
        /\ current \in 1 .. End + 1 /\ line \in Nat
        /\ token.end = current /\ token.line = line
        /\ Plain => line = 1 + Newlines(1, current)
        /\ End \in Nat
    BY TextIs DEF Inductive, InsideText
  <1>1. CASE ScanToken
    <2>0. current \in 1 .. End
      BY <1>0, <1>1 DEF ScanToken
    <2> DEFINE i == SkipWhitespace(current)
               x == TokenAt(i)
               before == line + Newlines(current, i)
    <2>1. UNCHANGED source /\ Answer(i, x, before)
      BY <1>1 DEF ScanToken
    <2>2. i \in current .. End /\ BlankEnd(i) = i
      BY <1>0, <2>0, SkipIs
    <2> HIDE DEF i
    <2>3. i \in 1 .. End
      BY <1>0, <2>0, <2>2
    <2>4. Counted(i, x)
      BY <1>0, <2>2, <2>3, TokenCounted
    <2> HIDE DEF x
    <2>5. Stops(i, x) /\ x.lines \in Nat /\ (Plain => x.lines = Newlines(i, x.end))
      BY <2>4 DEF Counted
    <2>9. x.end \in i .. End + 1 /\ x.end \in Int
      BY <1>0, <2>3, <2>5 DEF Stops
    <2>6. /\ Newlines(current, i) \in Nat /\ Newlines(1, current) \in Nat
          /\ Newlines(i, x.end) \in Nat
      <3>1. \A a, b \in Int : Newlines(a, b) \in Nat
        BY NewlinesIs
      <3>2. 1 \in Int /\ current \in Int /\ i \in Int /\ x.end \in Int
        BY <1>0, <2>3, <2>9
      <3> QED BY <3>1, <3>2
    <2>7. Newlines(1, x.end) = Newlines(1, i) + Newlines(i, x.end)
      <3>1. 1 \in Int /\ i \in Int /\ x.end \in Int /\ 1 <= i /\ i <= x.end
        BY <1>0, <2>3, <2>9
      <3> QED BY <3>1, NewlinesAdd
    <2>8. Newlines(1, i) = Newlines(1, current) + Newlines(current, i)
      <3>1. 1 \in Int /\ current \in Int /\ i \in Int /\ 1 <= current /\ current <= i
        BY <1>0, <2>2, <2>3
      <3> QED BY <3>1, NewlinesAdd
    <2>10. /\ current' = x.end /\ line' = before + x.lines
           /\ token'.start = i /\ token'.end = x.end /\ token'.type = x.type
           /\ token'.line = before + x.lines
      BY <2>1 DEF Answer
    <2>11. current' \in 1 .. End + 1 /\ line' \in Nat
      BY <1>0, <2>3, <2>5, <2>6, <2>9, <2>10
    <2>12. Plain => line' = 1 + Newlines(1, current')
      BY <1>0, <2>5, <2>6, <2>7, <2>8, <2>10
    <2>13. End' = End /\ Plain' = Plain /\ Newlines(1, current)' = Newlines(1, current')
      <3>1. End' = End /\ Plain' = Plain
        BY <2>1, SameText
      <3>2. \A k : At(k)' = At(k)
        BY <2>1 DEF At, End
      <3>3. Newlines(1, current)' = Newlines(1, current')
        BY <3>2 DEF Newlines
      <3> QED BY <3>1, <3>3
    <2>14. source' \in Sources /\ token'.line = line'
      BY <1>0, <2>1, <2>10
    <2>15. InsideText'
      <3>1. End' = End /\ \A k : At(k)' = At(k)
        BY <2>1 DEF At, End
      <3>2. current' > End => /\ token'.type = "ERROR"
                              /\ LastEscape(token'.start) \/ LastPrefix(token'.start)
        BY <1>0, <2>3, <2>5, <2>10 DEF Stops
      <3>3. token'.end = current' /\ current' \in 1 .. End + 1
        BY <2>10, <2>11
      <3> QED BY <3>1, <3>2, <3>3 DEF InsideText, LastEscape, LastPrefix
    <2> QED BY <2>11, <2>12, <2>13, <2>14, <2>15 DEF Inductive
  <1>2. CASE UNCHANGED vars
    BY <1>2 DEF vars, Inductive, InsideText, LastEscape, LastPrefix, Plain, Hidden, Newlines, At, End
  <1> QED BY <1>1, <1>2 DEF Next

\* The scanner stands at the end of its last token, with the line of it, in the text
\* or in error behind it, whatever the text: scanToken after scanToken (scanner.c).
THEOREM ScannerInvariant == Spec => []Inductive
  <1>1. Init => Inductive
    BY InductiveInit
  <1>2. Inductive /\ [Next]_vars => Inductive'
    BY InductiveStep
  <1> QED BY <1>1, <1>2, PTL DEF Spec

\* Whatever the text, with a last newline or without, the scanner moves behind the
\* '\0' at two ends only, a backslash in an open string (scanner.c:382) and the prefix
\* of a number with a base (scanner.c:301 and 315), and it answers an error there.
THEOREM StaysInText == Spec => []InsideText
  <1>1. Inductive => InsideText
    BY DEF Inductive
  <1> QED BY <1>1, ScannerInvariant, PTL

\* A token carries the line it ends on, where no newline is taken with the character
\* in front of it (scanner.line, which errors and lineArray report).
THEOREM TokensHaveLines == Spec => []LinesCounted
  <1>1. Inductive => LinesCounted
    BY DEF Inductive, InsideText, LinesCounted, Plain
  <1> QED BY <1>1, ScannerInvariant, PTL

-----------------------------------------------------------------------------
(* Maximal munch                                                           *)

Longest(i, e, type) ==
  /\ IsLexeme(i, e - 1)
  /\ Kind(i, e - 1) # {} => type \in Kind(i, e - 1)
  /\ \A j \in e .. End - 1 : ~IsLexeme(i, j)

OperatorFirsts == Punctuation \union {"!", "=", "<", ">"}
OperatorPairs ==
  {<<"!", "=">>, <<"=", "=">>, <<"=", ">">>, <<"<", "<">>, <<"<", "=">>,
   <<">", "=">>, <<">", ">">>}

\* No two kinds of lexemes begin alike.
LEMMA FirstsDiffer ==
  /\ \A c \in Alpha : c \notin Digits /\ c \notin OperatorFirsts /\ c # Quote
  /\ \A c \in Digits : c \notin OperatorFirsts /\ c # Quote
  /\ Quote \notin OperatorFirsts
  BY DEF Alpha, Digits, BinDigits, OperatorFirsts, Punctuation, Signs, Quote

\* An operator is one, two or three characters.
LEMMA OperatorsAre ==
  ASSUME NEW i \in Int, NEW j \in Int
  PROVE  Text(i, j + 1) \in Operators <=>
           \/ j = i /\ At(i) \in OperatorFirsts
           \/ j = i + 1 /\ <<At(i), At(i + 1)>> \in OperatorPairs
           \/ j = i + 2 /\ At(i) = ">" /\ At(i + 1) = ">" /\ At(i + 2) = ">"
  <1> DEFINE t == Text(i, j + 1)
             n == (j + 1) - i
  <1>1. t = [k \in 1 .. n |-> At(i + k - 1)] /\ n \in Int
    BY DEF Text
  <1>2. /\ \A c : t = <<c>> <=> n = 1 /\ At(i) = c
        /\ \A c, d : t = <<c, d>> <=> n = 2 /\ At(i) = c /\ At(i + 1) = d
        /\ \A c, d, e : t = <<c, d, e>> <=> n = 3 /\ At(i) = c /\ At(i + 1) = d /\ At(i + 2) = e
    <2> HIDE DEF t, n
    <2>0. i + 1 - 1 = i /\ i + 2 - 1 = i + 1 /\ i + 3 - 1 = i + 2
      OBVIOUS
    <2>1. /\ \A c : <<c>> = [k \in 1 .. 1 |-> c]
          /\ \A c, d : <<c, d>> = [k \in 1 .. 2 |-> IF k = 1 THEN c ELSE d]
          /\ \A c, d, e :
               <<c, d, e>> = [k \in 1 .. 3 |-> IF k = 1 THEN c ELSE IF k = 2 THEN d ELSE e]
      OBVIOUS
    <2>2. DOMAIN t = 1 .. n /\ \A k \in 1 .. n : t[k] = At(i + k - 1)
      BY <1>1
    <2>3. n \in Int
      BY <1>1
    <2>4. ASSUME NEW c
          PROVE  t = <<c>> <=> n = 1 /\ At(i) = c
      <3>1. ASSUME t = <<c>> PROVE n = 1 /\ At(i) = c
        <4>0. DOMAIN <<c>> = 1 .. 1
          OBVIOUS
        <4>1. n = 1
          <5>1. 1 .. n = 1 .. 1
            BY <2>2, <3>1, <4>0
          <5>2. 1 \in 1 .. n
            BY <5>1
          <5>3. n \in 1 .. 1
            BY <2>3, <5>1, <5>2
          <5> QED BY <2>3, <5>2, <5>3
        <4> QED BY <2>0, <2>1, <2>2, <3>1, <4>1
      <3>2. ASSUME n = 1, At(i) = c PROVE t = <<c>>
        <4>1. \A k \in 1 .. 1 : At(i + k - 1) = c
          BY <2>0, <3>2
        <4> QED BY <1>1, <2>1, <3>2, <4>1
      <3> QED BY <3>1, <3>2
    <2>5. ASSUME NEW c, NEW d
          PROVE  t = <<c, d>> <=> n = 2 /\ At(i) = c /\ At(i + 1) = d
      <3>1. ASSUME t = <<c, d>> PROVE n = 2 /\ At(i) = c /\ At(i + 1) = d
        <4>0. DOMAIN <<c, d>> = 1 .. 2
          OBVIOUS
        <4>1. n = 2
          <5>1. 1 .. n = 1 .. 2
            BY <2>2, <3>1, <4>0
          <5>2. 2 \in 1 .. n
            BY <5>1
          <5>3. n \in 1 .. 2
            BY <2>3, <5>1, <5>2
          <5> QED BY <2>3, <5>2, <5>3
        <4> QED BY <2>0, <2>1, <2>2, <3>1, <4>1
      <3>2. ASSUME n = 2, At(i) = c, At(i + 1) = d PROVE t = <<c, d>>
        <4>1. \A k \in 1 .. 2 : At(i + k - 1) = IF k = 1 THEN c ELSE d
          BY <2>0, <3>2
        <4> QED BY <1>1, <2>1, <3>2, <4>1
      <3> QED BY <3>1, <3>2
    <2>6. ASSUME NEW c, NEW d, NEW e
          PROVE  t = <<c, d, e>> <=> n = 3 /\ At(i) = c /\ At(i + 1) = d /\ At(i + 2) = e
      <3>1. ASSUME t = <<c, d, e>> PROVE n = 3 /\ At(i) = c /\ At(i + 1) = d /\ At(i + 2) = e
        <4>0. DOMAIN <<c, d, e>> = 1 .. 3
          OBVIOUS
        <4>1. n = 3
          <5>1. 1 .. n = 1 .. 3
            BY <2>2, <3>1, <4>0
          <5>2. 3 \in 1 .. n
            BY <5>1
          <5>3. n \in 1 .. 3
            BY <2>3, <5>1, <5>2
          <5> QED BY <2>3, <5>2, <5>3
        <4> QED BY <2>0, <2>1, <2>2, <3>1, <4>1
      <3>2. ASSUME n = 3, At(i) = c, At(i + 1) = d, At(i + 2) = e PROVE t = <<c, d, e>>
        <4>1. \A k \in 1 .. 3 : At(i + k - 1) = IF k = 1 THEN c ELSE IF k = 2 THEN d ELSE e
          BY <2>0, <3>2
        <4> QED BY <1>1, <2>1, <3>2, <4>1
      <3> QED BY <3>1, <3>2
    <2> QED BY <2>4, <2>5, <2>6
  <1>3. t \in Operators <=> \/ \E c \in OperatorFirsts : t = <<c>>
                            \/ \E p \in OperatorPairs : t = p
                            \/ t = <<">", ">", ">">>
    <2> HIDE DEF t
    <2> QED BY DEF Operators, OperatorFirsts, OperatorPairs
  <1>4. (n = 1 <=> j = i) /\ (n = 2 <=> j = i + 1) /\ (n = 3 <=> j = i + 2)
    OBVIOUS
  <1>5. (\E c \in OperatorFirsts : t = <<c>>) <=> n = 1 /\ At(i) \in OperatorFirsts
    <2> HIDE DEF t, n
    <2> QED BY <1>2, Zenon
  <1>6. (\E p \in OperatorPairs : t = p) <=> n = 2 /\ <<At(i), At(i + 1)>> \in OperatorPairs
    <2> HIDE DEF t, n
    <2>1. \A p \in OperatorPairs : \E c, d : p = <<c, d>>
      BY DEF OperatorPairs
    <2>2. \A c, d : t = <<c, d>> => n = 2 /\ <<At(i), At(i + 1)>> = <<c, d>>
      BY <1>2
    <2>3. n = 2 => t = <<At(i), At(i + 1)>>
      BY <1>2
    <2> QED BY <2>1, <2>2, <2>3
  <1>7. t = <<">", ">", ">">> <=> n = 3 /\ At(i) = ">" /\ At(i + 1) = ">" /\ At(i + 2) = ">"
    BY <1>2
  <1> HIDE DEF t, n
  <1> QED BY <1>3, <1>4, <1>5, <1>6, <1>7 DEF t

\* What a lexeme begins with says what it is.
LEMMA BeginningTells ==
  ASSUME NEW i \in Int, NEW j \in Int
  PROVE  /\ IsIdentifier(i, j) => At(i) \in Alpha
         /\ IsNumber(i, j) => At(i) \in Digits
         /\ IsString(i, j) => At(i) = Quote
         /\ Text(i, j + 1) \in Operators => At(i) \in OperatorFirsts
  <1>1. \A k \in Int : IsInteger(i, k) => At(i) \in Digits
    BY DEF IsInteger, Some, Span
  <1>2. \A k \in Int : IsFraction(i, k) => At(i) \in Digits
    <2>1. \A k \in Int : k - 1 \in Int
      OBVIOUS
    <2>2. \A k, m \in Int : m \in i .. k => m - 1 \in Int
      OBVIOUS
    <2> QED BY <1>1, <2>2 DEF IsFraction
  <1>3. IsNumber(i, j) => At(i) \in Digits
    <2>1. \A m \in i .. j : m - 1 \in Int
      OBVIOUS
    <2> QED BY <1>2, <2>1 DEF IsNumber
  <1>4. Text(i, j + 1) \in Operators => At(i) \in OperatorFirsts
    <2>1. <<At(i), At(i + 1)>> \in OperatorPairs => At(i) \in {"!", "=", "<", ">"}
      BY DEF OperatorPairs
    <2> QED BY <2>1, OperatorsAre DEF OperatorFirsts
  <1> QED BY <1>3, <1>4 DEF IsIdentifier, IsString

\* identifier() takes all it can.
LEMMA IdentifierLongest ==
  ASSUME source \in Sources, NEW i \in 1 .. End, At(i) \in Alpha
  PROVE  Longest(i, Identifier(i).end, Identifier(i).type)
  <1> DEFINE e == After(AlphaNum, i)
             text == Text(i, e)
             type == IF text \in DOMAIN Keywords THEN Keywords[text] ELSE "IDENTIFIER"
  <1>0. End \in Nat
    BY TextIs
  <1>1. Identifier(i).end = e /\ Identifier(i).type = type
    BY DEF Identifier, Lexeme
  <1>2. type \in {"IDENTIFIER"} \union Range(Keywords)
    BY DEF Range
  <1> HIDE DEF type
  <1>3. e \in i .. End /\ At(e) \notin AlphaNum /\ \A k \in i .. e - 1 : At(k) \in AlphaNum
    BY AfterIs, KindsAre
  <1> HIDE DEF e
  <1>4. IsIdentifier(i, e - 1)
    BY <1>3 DEF IsIdentifier, Span
  <1>5. \A j \in Int : ~IsNumber(i, j) /\ ~IsString(i, j) /\ Text(i, j + 1) \notin Operators
    <2>1. i \in Int
      BY <1>0
    <2> QED BY <2>1, BeginningTells, FirstsDiffer
  <1>6. \A j \in e .. End - 1 : ~IsLexeme(i, j)
    <2> SUFFICES ASSUME NEW j \in e .. End - 1 PROVE ~IsLexeme(i, j)
      OBVIOUS
    <2>1. j \in Int /\ e \in i .. j
      BY <1>0, <1>3
    <2>2. ~IsIdentifier(i, j)
      BY <1>3, <2>1 DEF IsIdentifier, Span
    <2> QED BY <1>5, <2>1, <2>2 DEF IsLexeme
  <1>7. e - 1 \in Int
    BY <1>0, <1>3
  <1>8. Kind(i, e - 1) = {"IDENTIFIER"} \union Range(Keywords)
    BY <1>4, <1>5, <1>7 DEF Kind
  <1> QED BY <1>1, <1>2, <1>4, <1>6, <1>8 DEF Longest, IsLexeme

\* Every longer operator is looked for before the shorter one.
LEMMA OperatorLongest ==
  ASSUME source \in Sources, NEW i \in 1 .. End, At(i) \in OperatorFirsts
  PROVE  Longest(i, Operator(i).end, Operator(i).type)
  <1> DEFINE e == Operator(i).end
  <1>0. End \in Nat /\ i \in Int
    BY TextIs
  <1>1. \A j \in Int : ~IsIdentifier(i, j) /\ ~IsNumber(i, j) /\ ~IsString(i, j)
    BY <1>0, BeginningTells, FirstsDiffer
  <1>2. \/ e = i + 1 /\ <<At(i), At(i + 1)>> \notin OperatorPairs
        \/ /\ e = i + 2 /\ <<At(i), At(i + 1)>> \in OperatorPairs
           /\ ~(At(i) = ">" /\ At(i + 1) = ">" /\ At(i + 2) = ">")
        \/ e = i + 3 /\ At(i) = ">" /\ At(i + 1) = ">" /\ At(i + 2) = ">"
    <2>1. CASE At(i) = "!"
      <3>1. e = IF At(i + 1) = "=" THEN i + 2 ELSE i + 1
        BY <2>1 DEF Operator, Lexeme
      <3> QED BY <2>1, <3>1 DEF OperatorPairs
    <2>2. CASE At(i) = "="
      <3>1. e = IF At(i + 1) \in {"=", ">"} THEN i + 2 ELSE i + 1
        BY <2>2 DEF Operator, Lexeme
      <3> QED BY <2>2, <3>1 DEF OperatorPairs
    <2>3. CASE At(i) = "<"
      <3>1. e = IF At(i + 1) \in {"<", "="} THEN i + 2 ELSE i + 1
        BY <2>3 DEF Operator, Lexeme
      <3> QED BY <2>3, <3>1 DEF OperatorPairs
    <2>4. CASE At(i) = ">"
      <3>1. e = IF At(i + 1) = ">" /\ At(i + 2) = ">" THEN i + 3
                ELSE IF At(i + 1) \in {">", "="} THEN i + 2 ELSE i + 1
        BY <2>4 DEF Operator, Lexeme
      <3> HIDE DEF e
      <3>2. <<At(i), At(i + 1)>> \in OperatorPairs <=> At(i + 1) \in {">", "="}
        BY <2>4 DEF OperatorPairs
      <3> QED BY <2>4, <3>1, <3>2
    <2>5. CASE At(i) \notin {"!", "=", "<", ">"}
      <3>1. e = i + 1
        BY <2>5 DEF Operator, Lexeme
      <3> QED BY <2>5, <3>1 DEF OperatorPairs
    <2> QED BY <2>1, <2>2, <2>3, <2>4, <2>5
  <1> HIDE DEF e
  <1>3. e - 1 \in Int /\ e \in Int
    BY <1>0, <1>2
  <1>4. Text(i, (e - 1) + 1) \in Operators
    BY <1>0, <1>2, <1>3, OperatorsAre
  <1>5. \A j \in e .. End - 1 : Text(i, j + 1) \notin Operators
    <2> SUFFICES ASSUME NEW j \in e .. End - 1 PROVE Text(i, j + 1) \notin Operators
      OBVIOUS
    <2>1. j \in Int
      BY <1>0, <1>3
    <2>2. ASSUME Text(i, j + 1) \in Operators PROVE FALSE
      <3>1. \/ j = i + 1 /\ <<At(i), At(i + 1)>> \in OperatorPairs
            \/ j = i /\ At(i) \in OperatorFirsts
            \/ j = i + 2 /\ At(i) = ">" /\ At(i + 1) = ">" /\ At(i + 2) = ">"
        BY <1>0, <2>1, <2>2, OperatorsAre
      <3>2. e # i + 3 => e <= i + 2
        BY <1>0, <1>2, <1>3
      <3>3. j >= e
        BY <1>0, <1>3, <2>1
      <3>4. CASE e = i + 1 /\ <<At(i), At(i + 1)>> \notin OperatorPairs
        <4>1. ~(At(i) = ">" /\ At(i + 1) = ">")
          BY <3>4 DEF OperatorPairs
        <4> QED BY <1>0, <2>1, <3>1, <3>3, <3>4, <4>1
      <3>5. CASE e = i + 2 /\ ~(At(i) = ">" /\ At(i + 1) = ">" /\ At(i + 2) = ">")
        BY <1>0, <2>1, <3>1, <3>3, <3>5
      <3>6. CASE e = i + 3
        BY <1>0, <2>1, <3>1, <3>3, <3>6
      <3> QED BY <1>2, <3>4, <3>5, <3>6
    <2> QED BY <2>2
  <1>6. \A j \in e .. End - 1 : ~IsLexeme(i, j)
    <2>1. \A j \in e .. End - 1 : j \in Int
      BY <1>0, <1>3
    <2> QED BY <1>1, <1>5, <2>1 DEF IsLexeme
  <1>7. Kind(i, e - 1) = {}
    BY <1>1, <1>3 DEF Kind
  <1> QED BY <1>4, <1>6, <1>7 DEF Longest, IsLexeme, e

\* Of two numbers that follow each other one is even.
LEMMA EvenOdd ==
  ASSUME NEW n \in Int
  PROVE  n % 2 = 0 <=> ~((n + 1) % 2 = 0)
  OBVIOUS

\* The backslashes in front of k, back to s: m is the first of them, or k itself.
RunOf(s, k, m) == m \in s .. k /\ Span(m, k - 1, {Backslash}) /\ (m = s \/ At(m - 1) # Backslash)

\* There is one such run.
LEMMA OneRun ==
  ASSUME NEW s \in Nat, NEW k \in Int, s <= k
  PROVE  /\ \E m : RunOf(s, k, m)
         /\ \A m, n : RunOf(s, k, m) /\ RunOf(s, k, n) => m = n
  <1> DEFINE S == {m \in s .. k : Span(m, k - 1, {Backslash})}
  <1>1. k \in S
    BY DEF Span
  <1>2. PICK m : m \in S /\ \A n \in S : m <= n
    <2>1. S \subseteq Nat /\ S # {}
      BY <1>1
    <2> HIDE DEF S
    <2> QED BY <2>1, MinIs
  <1>3. ASSUME m # s, At(m - 1) = Backslash
        PROVE  FALSE
    <2>1. m - 1 \in s .. k /\ m \in Int
      BY <1>2, <1>3
    <2>2. \A q \in m - 1 .. k - 1 : q = m - 1 \/ q \in m .. k - 1
      BY <2>1
    <2>3. Span(m - 1, k - 1, {Backslash})
      BY <1>2, <1>3, <2>2 DEF Span
    <2> QED BY <1>2, <2>1, <2>3
  <1>4. RunOf(s, k, m)
    BY <1>2, <1>3 DEF RunOf
  <1>5. ASSUME NEW a, NEW b, RunOf(s, k, a), RunOf(s, k, b), a < b
        PROVE  FALSE
    <2>1. a \in s .. k /\ b \in s .. k
      BY <1>5 DEF RunOf
    <2>2. b # s /\ b - 1 \in a .. k - 1
      BY <1>5, <2>1
    <2>3. At(b - 1) = Backslash
      BY <1>5, <2>2 DEF RunOf, Span
    <2> QED BY <1>5, <2>2, <2>3 DEF RunOf
  <1>6. ASSUME NEW a, NEW b, RunOf(s, k, a), RunOf(s, k, b)
        PROVE  a = b
    <2>1. a \in Int /\ b \in Int
      BY <1>6 DEF RunOf
    <2> QED BY <1>5, <1>6, <2>1
  <1> QED BY <1>4, <1>6

\* A character is bare unless a bare backslash is in front of it.
LEMMA BareStep ==
  ASSUME NEW s \in Nat, NEW k \in Int, s <= k
  PROVE  Bare(s, k + 1) <=> ~(At(k) = Backslash /\ Bare(s, k))
  <1>0. (k + 1) - 1 = k /\ k + 1 \in Int /\ s <= k + 1
    OBVIOUS
  <1>1. /\ Bare(s, k) <=> \E m : RunOf(s, k, m) /\ (k - m) % 2 = 0
        /\ Bare(s, k + 1) <=> \E m : RunOf(s, k + 1, m) /\ ((k + 1) - m) % 2 = 0
    BY <1>0, Zenon DEF Bare, RunOf
  <1>2. CASE At(k) # Backslash
    <2>1. RunOf(s, k + 1, k + 1)
      BY <1>0, <1>2 DEF RunOf, Span
    <2>2. ((k + 1) - (k + 1)) % 2 = 0
      OBVIOUS
    <2> QED BY <1>1, <1>2, <2>1, <2>2
  <1>3. CASE At(k) = Backslash
    <2>1. PICK m : RunOf(s, k, m)
      BY OneRun
    <2>2. m \in s .. k /\ m \in Int
      BY <2>1 DEF RunOf
    <2>3. RunOf(s, k + 1, m)
      <3>1. \A q \in m .. k : q = k \/ q \in m .. k - 1
        BY <2>2
      <3>2. Span(m, k, {Backslash})
        BY <1>3, <2>1, <3>1 DEF RunOf, Span
      <3> QED BY <1>0, <2>1, <2>2, <3>2 DEF RunOf
    <2>4. \A n : RunOf(s, k, n) => n = m
      BY <2>1, OneRun
    <2>5. \A n : RunOf(s, k + 1, n) => n = m
      BY <1>0, <2>3, OneRun
    <2>6. Bare(s, k) <=> (k - m) % 2 = 0
      BY <1>1, <2>1, <2>4
    <2>7. Bare(s, k + 1) <=> ((k + 1) - m) % 2 = 0
      BY <1>1, <2>3, <2>5
    <2>8. k - m \in Int /\ (k + 1) - m = (k - m) + 1
      BY <2>2
    <2>9. (k - m) % 2 = 0 <=> ~(((k - m) + 1) % 2 = 0)
      BY <2>8, EvenOdd
    <2> QED BY <1>3, <2>6, <2>7, <2>8, <2>9
  <1> QED BY <1>2, <1>3

\* The switch of string() looks at the bare characters.
LEMMA LookedBare ==
  ASSUME NEW L, NEW s \in Nat, NEW e, e \in Nat, Looked(L, s, e)
  PROVE  \A k \in s .. e : k \in L <=> Bare(s, k)
  <1> DEFINE Good == {n \in Nat : s + n <= e => (s + n \in L <=> Bare(s, s + n))}
  <1>0. /\ s \in L
        /\ \A k \in s + 1 .. e : k \in L <=> ~(k - 1 \in L /\ At(k - 1) = Backslash)
    BY DEF Looked
  <1>1. 0 \in Good
    <2>1. RunOf(s, s, s) /\ (s - s) % 2 = 0
      BY DEF RunOf, Span
    <2>2. Bare(s, s)
      BY <2>1 DEF Bare, RunOf
    <2>3. s + 0 = s
      OBVIOUS
    <2> QED BY <1>0, <2>2, <2>3
  <1>2. ASSUME NEW n \in Nat, n \in Good
        PROVE  n + 1 \in Good
    <2> SUFFICES ASSUME s + (n + 1) <= e
                 PROVE  s + (n + 1) \in L <=> Bare(s, s + (n + 1))
      OBVIOUS
    <2> DEFINE k == s + n
    <2>1. k \in Int /\ s <= k /\ k <= e /\ s + (n + 1) = k + 1 /\ (k + 1) - 1 = k
          /\ k + 1 \in s + 1 .. e
      OBVIOUS
    <2>2. k \in L <=> Bare(s, k)
      BY <1>2, <2>1
    <2> HIDE DEF k
    <2>3. k + 1 \in L <=> ~(k \in L /\ At(k) = Backslash)
      BY <1>0, <2>1
    <2>4. Bare(s, k + 1) <=> ~(At(k) = Backslash /\ Bare(s, k))
      BY <2>1, BareStep
    <2> QED BY <2>1, <2>2, <2>3, <2>4
  <1>3. \A n \in Nat : n \in Good
    <2> HIDE DEF Good
    <2> QED BY <1>1, <1>2, NatBySteps
  <1>4. ASSUME NEW k \in s .. e
        PROVE  k \in L <=> Bare(s, k)
    <2>1. k - s \in Nat /\ s + (k - s) = k /\ k <= e
      OBVIOUS
    <2>2. k - s \in Good
      BY <1>3, <2>1
    <2> QED BY <2>1, <2>2
  <1> QED BY <1>4

\* string() ends at the first bare quote.
LEMMA StringLongest ==
  ASSUME source \in Sources, NEW i \in 1 .. End, At(i) = Quote, String(i).type # "ERROR"
  PROVE  Longest(i, String(i).end, String(i).type)
  <1> DEFINE L == Looks(i + 1)
             type == String(i).type
  <1>0. End \in Nat /\ i \in Int
    BY TextIs
  <1>1. i + 1 \in 1 .. End
    BY NulIs, KindsAre
  <1>2. PICK e : Looked(L, i + 1, e)
    BY <1>0, <1>1, LooksIs
  <1>3. Max(L) = e
    <2> HIDE DEF L
    <2> QED BY <1>1, <1>2, LastLook
  <1>4. At(e) = Quote /\ String(i).end = e + 1 /\ type \in {"STRING", "STRING_ESCAPE"}
    BY <1>3 DEF String
  <1> HIDE DEF L, type
  <1>5. /\ e \in i + 1 .. End /\ e \in L
        /\ \A k \in L : k < e => At(k) # Quote
    <2>1. e # End + 1
      BY <1>4, TextIs, KindsAre
    <2> QED BY <1>0, <1>2, <2>1 DEF Looked
  <1>6. \A k \in i + 1 .. e : k \in L <=> Bare(i + 1, k)
    <2>1. i + 1 \in Nat /\ e \in Nat
      BY <1>0, <1>1, <1>5
    <2> QED BY <1>2, <2>1, LookedBare
  <1>7. \A k \in i + 1 .. e : At(k) = Quote /\ Bare(i + 1, k) <=> k = e
    BY <1>0, <1>4, <1>5, <1>6
  <1>8. IsString(i, e)
    <2>1. {k \in i + 1 .. e : At(k) = Quote /\ Bare(i + 1, k)} = {e}
      BY <1>5, <1>7
    <2> QED BY <1>0, <1>5, <2>1 DEF IsString
  <1>9. \A j \in Int : ~IsIdentifier(i, j) /\ ~IsNumber(i, j) /\ Text(i, j + 1) \notin Operators
    BY <1>0, BeginningTells, FirstsDiffer
  <1>10. ASSUME NEW j \in e + 1 .. End - 1, IsString(i, j)
         PROVE  FALSE
    <2>1. e \in i + 1 .. j /\ e # j
      BY <1>0, <1>5
    <2>2. e \in {k \in i + 1 .. j : At(k) = Quote /\ Bare(i + 1, k)}
      BY <1>5, <1>7, <2>1
    <2> QED BY <1>10, <2>1, <2>2 DEF IsString
  <1>11. (e + 1) - 1 = e /\ e \in Int
    BY <1>0, <1>5
  <1>12. \A j \in e + 1 .. End - 1 : ~IsLexeme(i, j)
    BY <1>0, <1>9, <1>10, <1>11 DEF IsLexeme
  <1>13. Kind(i, e) = {"STRING", "STRING_ESCAPE"}
    BY <1>8, <1>9, <1>11 DEF Kind
  <1> QED BY <1>4, <1>8, <1>11, <1>12, <1>13 DEF Longest, IsLexeme, type

\* The digits from i on end in front of w, and no digit is behind them.
Digited(i, w) ==
  w \in i + 1 .. End /\ At(w) \notin Digits /\ \A k \in i .. w - 1 : At(k) \in Digits

\* Both ways to read digits stop there.
LEMMA DigitedIs ==
  ASSUME source \in Sources, NEW i \in 1 .. End, At(i) \in Digits
  PROVE  Digited(i, After(Digits, i + 1)) /\ Digited(i, After(Digits, i))
  <1>0. End \in Nat
    BY TextIs
  <1>1. i + 1 \in 1 .. End
    BY NulIs, KindsAre
  <1> DEFINE w == After(Digits, i + 1)
             v == After(Digits, i)
  <1>2. w \in i + 1 .. End /\ At(w) \notin Digits /\ \A k \in i + 1 .. w - 1 : At(k) \in Digits
    BY <1>1, AfterIs, KindsAre
  <1>3. v \in i .. End /\ At(v) \notin Digits /\ \A k \in i .. v - 1 : At(k) \in Digits
    BY AfterIs, KindsAre
  <1> HIDE DEF w, v
  <1>4. \A k \in i .. w - 1 : k = i \/ k \in i + 1 .. w - 1
    BY <1>0, <1>2
  <1>5. Digited(i, w)
    BY <1>2, <1>4 DEF Digited
  <1>6. v # i
    BY <1>3
  <1>7. v \in i + 1 .. End
    BY <1>0, <1>3, <1>6
  <1>8. Digited(i, v)
    BY <1>3, <1>7 DEF Digited
  <1> QED BY <1>5, <1>8 DEF w, v

\* An integer from i on is a part of them.
LEMMA IntegerIs ==
  ASSUME source \in Sources, NEW i \in 1 .. End, NEW w, Digited(i, w), NEW j \in Int
  PROVE  IsInteger(i, j) <=> j \in i .. w - 1
  <1>0. End \in Nat /\ w \in i + 1 .. End /\ i \in Int /\ w \in Int
    BY TextIs DEF Digited
  <1>1. ASSUME IsInteger(i, j) PROVE j \in i .. w - 1
    <2>1. i <= j /\ \A k \in i .. j : At(k) \in Digits
      BY <1>1 DEF IsInteger, Some, Span
    <2>2. w \notin i .. j
      BY <2>1 DEF Digited
    <2> QED BY <1>0, <2>1, <2>2
  <1>2. ASSUME j \in i .. w - 1 PROVE IsInteger(i, j)
    <2>1. \A k \in i .. j : k \in i .. w - 1
      BY <1>0, <1>2
    <2> QED BY <1>0, <1>2, <2>1 DEF Digited, IsInteger, Some, Span
  <1> QED BY <1>1, <1>2

\* Without a digit there is no integer.
LEMMA NoInteger ==
  ASSUME NEW i \in Int, At(i) \notin Digits, NEW j \in Int
  PROVE  ~IsInteger(i, j)
  BY DEF IsInteger, Some, Span

\* The whole part ends in front of w, the fraction in front of f.
Fractioned(i, w, f) ==
  /\ Digited(i, w)
  /\ \/ At(w) = "." /\ w + 1 \in 1 .. End /\ Digited(w + 1, f)
     \/ ~(At(w) = "." /\ At(w + 1) \in Digits) /\ f = w

\* A fraction that begins at i ends in front of f at the latest.
LEMMA FractionIs ==
  ASSUME source \in Sources, NEW i \in 1 .. End, NEW w, NEW f, Fractioned(i, w, f)
  PROVE  /\ f \in i + 1 .. End
         /\ IsFraction(i, f - 1)
         /\ \A j \in Int : IsFraction(i, j) => j < f
         /\ \A k \in i .. f - 1 : At(k) # "e"
         /\ At(f) \notin Digits
  <1>0. End \in Nat /\ w \in i + 1 .. End /\ i \in Int /\ w \in Int /\ Digited(i, w)
    BY TextIs DEF Digited, Fractioned
  <1>1. \A j \in Int : IsInteger(i, j) <=> j \in i .. w - 1
    BY <1>0, IntegerIs
  <1>2. "e" \notin Digits /\ "." \notin Digits /\ "." # "e"
    BY DEF Digits, BinDigits
  <1>3. At(w) \notin Digits /\ \A k \in i .. w - 1 : At(k) \in Digits
    BY <1>0 DEF Digited
  <1>4. ASSUME NEW j \in Int, NEW k \in i .. j, At(k) = ".", IsInteger(i, k - 1)
        PROVE  k = w
    <2>1. k - 1 \in Int /\ k \in Int
      OBVIOUS
    <2>2. k - 1 \in i .. w - 1
      BY <1>1, <1>4, <2>1
    <2>3. k \notin i .. w - 1
      BY <1>2, <1>3, <1>4
    <2> QED BY <1>0, <2>1, <2>2, <2>3
  <1>5. CASE At(w) = "." /\ w + 1 \in 1 .. End /\ Digited(w + 1, f)
    <2>1. f \in w + 2 .. End /\ At(f) \notin Digits /\ \A k \in w + 1 .. f - 1 : At(k) \in Digits
      <3>1. (w + 1) + 1 = w + 2
        BY <1>0
      <3> QED BY <1>5, <3>1 DEF Digited
    <2>2. \A j \in Int : IsInteger(w + 1, j) <=> j \in w + 1 .. f - 1
      BY <1>5, IntegerIs
    <2>3. f \in i + 1 .. End /\ f \in Int /\ f - 1 \in Int
      BY <1>0, <2>1
    <2>4. IsFraction(i, f - 1)
      <3>1. w \in i .. f - 1 /\ f - 1 \in w + 1 .. f - 1 /\ w - 1 \in i .. w - 1 /\ w - 1 \in Int
        BY <1>0, <2>1
      <3>2. IsInteger(i, w - 1) /\ IsInteger(w + 1, f - 1)
        BY <1>1, <2>2, <2>3, <3>1
      <3> QED BY <1>5, <3>1, <3>2 DEF IsFraction
    <2>5. ASSUME NEW j \in Int, IsFraction(i, j)
          PROVE  j < f
      <3>1. CASE IsInteger(i, j)
        BY <1>0, <1>1, <2>1, <3>1
      <3>2. CASE ~IsInteger(i, j)
        <4>1. PICK k \in i .. j : At(k) = "." /\ IsInteger(i, k - 1) /\ IsInteger(k + 1, j)
          BY <2>5, <3>2 DEF IsFraction
        <4>2. IsInteger(w + 1, j)
          BY <1>4, <4>1
        <4> QED BY <1>0, <2>1, <2>2, <4>2
      <3> QED BY <3>1, <3>2
    <2>6. \A k \in i .. f - 1 : k \in i .. w - 1 \/ k = w \/ k \in w + 1 .. f - 1
      BY <1>0, <2>3
    <2> QED BY <1>2, <1>3, <1>5, <2>1, <2>3, <2>4, <2>5, <2>6
  <1>6. CASE ~(At(w) = "." /\ At(w + 1) \in Digits) /\ f = w
    <2>1. IsFraction(i, f - 1)
      <3>1. w - 1 \in Int /\ w - 1 \in i .. w - 1
        BY <1>0
      <3> QED BY <1>1, <1>6, <3>1 DEF IsFraction
    <2>2. ASSUME NEW j \in Int, IsFraction(i, j)
          PROVE  j < f
      <3>1. CASE IsInteger(i, j)
        BY <1>0, <1>1, <1>6, <3>1
      <3>2. CASE ~IsInteger(i, j)
        <4>1. PICK k \in i .. j : At(k) = "." /\ IsInteger(i, k - 1) /\ IsInteger(k + 1, j)
          BY <2>2, <3>2 DEF IsFraction
        <4>2. IsInteger(w + 1, j) /\ At(w) = "."
          BY <1>4, <4>1
        <4>3. w + 1 \in Int
          BY <1>0
        <4> QED BY <1>6, <4>2, <4>3, NoInteger
      <3> QED BY <3>1, <3>2
    <2> QED BY <1>0, <1>2, <1>3, <1>6, <2>1, <2>2
  <1> QED BY <1>5, <1>6 DEF Fractioned

\* number() takes the longest number without a base.
LEMMA NumberLongest ==
  ASSUME source \in Sources, NEW i \in 1 .. End, At(i) \in Digits,
         Number(i).type \notin {"ERROR", "NUMBER_BIN", "NUMBER_HEX"}
  PROVE  Longest(i, Number(i).end, Number(i).type)
  <1> DEFINE w == After(Digits, i + 1)
             f == IF At(w) = "." /\ At(w + 1) \in Digits THEN After(Digits, w + 1) ELSE w
             p == IF At(f + 1) \in Signs THEN f + 2 ELSE f + 1
  <1>0. End \in Nat /\ i \in Int
    BY TextIs
  <1>1. Number(i) = Decimal(i)
    <2>1. \A type, digits : Based(type, digits, i).type \in {type, "ERROR"}
      BY DEF Based, Lexeme
    <2>2. At(i + 1) = "b" => Number(i) = Based("NUMBER_BIN", BinDigits, i)
      BY DEF Number
    <2>3. At(i + 1) = "x" => Number(i) = Based("NUMBER_HEX", HexDigits, i)
      BY DEF Number
    <2>4. At(i + 1) # "b" /\ At(i + 1) # "x"
      BY <2>1, <2>2, <2>3
    <2> QED BY <2>4 DEF Number
  <1>2. Decimal(i) = IF At(f) # "e" THEN Lexeme("NUMBER", f)
                     ELSE IF At(p) \in Digits THEN Lexeme("NUMBER", After(Digits, p))
                     ELSE Lexeme("ERROR", p)
    BY DEF Decimal
  <1>3. Digited(i, w)
    BY DigitedIs
  <1> HIDE DEF w
  <1>4. Fractioned(i, w, f)
    <2>1. CASE At(w) = "." /\ At(w + 1) \in Digits
      <3>1. w \in 1 .. End /\ At(w) # Nul
        BY <1>0, <1>3, <2>1 DEF Digited, Nul
      <3>2. w + 1 \in 1 .. End
        BY <3>1, NulIs
      <3>3. Digited(w + 1, f)
        BY <2>1, <3>2, DigitedIs
      <3> QED BY <1>3, <2>1, <3>2, <3>3 DEF Fractioned
    <2>2. CASE ~(At(w) = "." /\ At(w + 1) \in Digits)
      BY <1>3, <2>2 DEF Fractioned
    <2> QED BY <2>1, <2>2
  <1> HIDE DEF f
  <1>5. /\ f \in i + 1 .. End /\ IsFraction(i, f - 1) /\ At(f) \notin Digits
        /\ \A j \in Int : IsFraction(i, j) => j < f
        /\ \A k \in i .. f - 1 : At(k) # "e"
    BY <1>4, FractionIs
  <1>6. f \in Int /\ f \in 1 .. End
    BY <1>0, <1>5
  \* The exponent of a number is behind f.
  <1>7. ASSUME NEW j \in Int, NEW k \in i .. j, At(k) = "e", IsFraction(i, k - 1)
        PROVE  k = f
    <2>1. k - 1 \in Int /\ k \in Int
      BY <1>0
    <2>2. k - 1 < f /\ k \notin i .. f - 1
      BY <1>5, <1>7, <2>1
    <2> QED BY <1>0, <1>6, <2>1, <2>2
  <1>8. \A j \in Int : ~IsIdentifier(i, j) /\ ~IsString(i, j) /\ Text(i, j + 1) \notin Operators
    BY <1>0, BeginningTells, FirstsDiffer
  <1>9. ASSUME NEW e \in Int, IsNumber(i, e - 1), \A j \in Int : IsNumber(i, j) => j < e
        PROVE  Longest(i, e, "NUMBER")
    <2>1. \A j \in e .. End - 1 : j \in Int /\ ~(j < e)
      BY <1>0, <1>9
    <2>2. \A j \in e .. End - 1 : ~IsLexeme(i, j)
      BY <1>8, <1>9, <2>1 DEF IsLexeme
    <2>3. Kind(i, e - 1) = {"NUMBER"}
      <3>1. e - 1 \in Int
        BY <1>9
      <3> QED BY <1>8, <1>9, <3>1 DEF Kind
    <2> QED BY <1>9, <2>2, <2>3 DEF Longest, IsLexeme
  <1>10. CASE At(f) # "e"
    <2>1. Number(i).end = f /\ Number(i).type = "NUMBER"
      BY <1>1, <1>2, <1>10 DEF Lexeme
    <2>2. IsNumber(i, f - 1)
      BY <1>5 DEF IsNumber
    <2>3. ASSUME NEW j \in Int, IsNumber(i, j)
          PROVE  j < f
      <3>1. CASE IsFraction(i, j)
        BY <1>5, <3>1
      <3>2. CASE ~IsFraction(i, j)
        <4>1. PICK k \in i .. j : At(k) = "e" /\ IsFraction(i, k - 1)
          BY <2>3, <3>2 DEF IsNumber
        <4> QED BY <1>7, <1>10, <4>1
      <3> QED BY <3>1, <3>2
    <2> QED BY <1>6, <1>9, <2>1, <2>2, <2>3
  <1>11. CASE At(f) = "e"
    <2> DEFINE e == After(Digits, p)
    <2>1. At(p) \in Digits /\ Number(i).end = e /\ Number(i).type = "NUMBER"
      BY <1>1, <1>2, <1>11 DEF Lexeme
    <2>2. f + 1 \in 1 .. End
      BY <1>6, <1>11, NulIs DEF Nul
    <2>3. At(f + 1) \in Signs => (f + 1) + 1 \in 1 .. End /\ At(f + 1) \notin Digits
      <3>1. \A c \in Signs : c # Nul /\ c \notin Digits
        BY DEF Signs, Nul, Digits, BinDigits
      <3> QED BY <2>2, <3>1, NulIs
    <2>4. p \in 1 .. End /\ p \in Int /\ p \in {f + 1, f + 2}
      BY <1>6, <2>2, <2>3
    <2>5. (At(f + 1) \notin Signs => p = f + 1) /\ (At(f + 1) \in Signs => p = f + 2)
      BY <1>6
    <2> HIDE DEF p
    <2>6. Digited(p, e)
      BY <2>1, <2>4, DigitedIs
    <2> HIDE DEF e
    <2>7. \A j \in Int : IsInteger(p, j) <=> j \in p .. e - 1
      BY <2>4, <2>6, IntegerIs
    <2>8. e \in p + 1 .. End /\ e \in Int /\ e - 1 \in Int
      BY <1>0, <2>4, <2>6 DEF Digited
    <2>9. IsNumber(i, e - 1)
      <3>1. f \in i .. e - 1 /\ e - 1 \in p .. e - 1
        BY <1>0, <1>5, <1>6, <2>4, <2>8
      <3>2. IsInteger(p, e - 1)
        BY <2>7, <2>8, <3>1
      <3> QED BY <1>5, <1>11, <2>5, <3>1, <3>2 DEF IsNumber
    <2>10. ASSUME NEW j \in Int, IsNumber(i, j)
           PROVE  j < e
      <3>1. CASE IsFraction(i, j)
        BY <1>5, <1>6, <2>4, <2>8, <3>1
      <3>2. CASE ~IsFraction(i, j)
        <4>1. PICK k \in i .. j : /\ At(k) = "e" /\ IsFraction(i, k - 1)
                                  /\ \/ IsInteger(k + 1, j)
                                     \/ At(k + 1) \in Signs /\ IsInteger(k + 2, j)
          BY <2>10, <3>2 DEF IsNumber
        <4>2. k = f
          BY <1>7, <4>1
        <4>3. CASE IsInteger(f + 1, j)
          <5>1. At(f + 1) \notin Signs
            BY <1>6, <2>3, <4>3, NoInteger
          <5>2. p = f + 1
            BY <2>5, <5>1
          <5> QED BY <2>4, <2>7, <2>8, <4>3, <5>2
        <4>4. CASE At(f + 1) \in Signs /\ IsInteger(f + 2, j)
          BY <2>4, <2>5, <2>7, <2>8, <4>4
        <4> QED BY <4>1, <4>2, <4>3, <4>4
      <3> QED BY <3>1, <3>2
    <2> QED BY <1>9, <2>1, <2>8, <2>9, <2>10
  <1> QED BY <1>10, <1>11

\* A token that is no error is the longest lexeme at its place.
Munched(i, e, type) ==
  type \notin {"NONE", "EOF", "ERROR", "NUMBER_BIN", "NUMBER_HEX"} /\ At(i) # "@"
    => Longest(i, e, type)

\* A token is the longest lexeme at its place, whatever function made it.
LEMMA TokenMunched ==
  ASSUME source \in Sources, NEW i \in 1 .. End, BlankEnd(i) = i
  PROVE  Munched(i, TokenAt(i).end, TokenAt(i).type)
  <1> DEFINE x == TokenAt(i)
  <1> SUFFICES ASSUME x.type \notin {"NONE", "EOF", "ERROR", "NUMBER_BIN", "NUMBER_HEX"},
                      At(i) # "@"
               PROVE  Longest(i, x.end, x.type)
    BY DEF Munched
  <1>1. CASE x = Lexeme("EOF", i)
    BY <1>1 DEF Lexeme
  <1>2. CASE x = [type |-> "ERROR", end |-> End, lines |-> Newlines(i, End)]
    BY <1>2
  <1>3. CASE At(i) \in Alpha /\ x = Identifier(i)
    BY <1>3, IdentifierLongest
  <1>4. CASE At(i) \in Digits /\ x = Number(i)
    BY <1>4, NumberLongest
  <1>5. CASE At(i) = Quote /\ x = String(i)
    BY <1>5, StringLongest
  <1>6. CASE At(i) \in OperatorFirsts /\ x = Operator(i)
    BY <1>6, OperatorLongest
  <1>7. CASE x = Unexpected(i)
    BY <1>7 DEF Unexpected, Lexeme
  <1> HIDE DEF x
  <1> QED BY <1>1, <1>2, <1>3, <1>4, <1>5, <1>6, <1>7, BeginsIs DEF x, OperatorFirsts

\* What is a lexeme is one as long as the text stays.
LEMMA SameLexemes ==
  ASSUME UNCHANGED source
  PROVE  \A i, e, type : Munched(i, e, type)' = Munched(i, e, type)
  <1>1. End' = End /\ \A i : At(i)' = At(i)
    BY DEF End, At
  <1>2. \A i, j, chars : Span(i, j, chars)' = Span(i, j, chars)
    BY <1>1 DEF Span
  <1>3. \A i, j : IsIdentifier(i, j)' = IsIdentifier(i, j)
    BY <1>1, <1>2 DEF IsIdentifier
  <1>4. \A i, j : IsInteger(i, j)' = IsInteger(i, j)
    BY <1>2 DEF IsInteger, Some
  <1>5. \A i, j : IsFraction(i, j)' = IsFraction(i, j)
    BY <1>1, <1>4 DEF IsFraction
  <1>6. \A i, j : IsNumber(i, j)' = IsNumber(i, j)
    BY <1>1, <1>4, <1>5 DEF IsNumber
  <1>7. \A i, k : Bare(i, k)' = Bare(i, k)
    BY <1>1, <1>2 DEF Bare
  <1>8. \A i, j : IsString(i, j)' = IsString(i, j)
    BY <1>1, <1>7 DEF IsString
  <1>9. \A i, j : Text(i, j)' = Text(i, j)
    BY <1>1 DEF Text
  <1>10. \A i, j : IsLexeme(i, j)' = IsLexeme(i, j)
    BY <1>3, <1>6, <1>8, <1>9 DEF IsLexeme
  <1>11. \A i, j : Kind(i, j)' = Kind(i, j)
    BY <1>3, <1>6, <1>8 DEF Kind
  <1>12. \A i, e, type : Longest(i, e, type)' = Longest(i, e, type)
    BY <1>1, <1>10, <1>11 DEF Longest
  <1> QED BY <1>1, <1>12 DEF Munched

\* The property of the run is that of the token.
LEMMA LongestIs == LongestLexeme <=> Munched(token.start, token.end, token.type)
  BY DEF LongestLexeme, Munched, Longest

\* What a step answers.
LEMMA StepIs ==
  ASSUME Inductive, ScanToken
  PROVE  \E i \in current .. End :
           /\ BlankEnd(i) = i /\ i = SkipWhitespace(current) /\ i \in 1 .. End
           /\ UNCHANGED source
           /\ token'.start = i /\ token'.end = TokenAt(i).end /\ token'.type = TokenAt(i).type
           /\ Counted(i, TokenAt(i))
  <1>0. source \in Sources /\ current \in 1 .. End /\ End \in Nat
    BY TextIs DEF Inductive, InsideText, ScanToken
  <1> DEFINE i == SkipWhitespace(current)
             x == TokenAt(i)
  <1>1. UNCHANGED source /\ Answer(i, x, line + Newlines(current, i))
    BY DEF ScanToken
  <1>2. i \in current .. End /\ BlankEnd(i) = i
    BY <1>0, SkipIs
  <1> HIDE DEF i
  <1>3. i \in 1 .. End
    BY <1>0, <1>2
  <1>4. Counted(i, x)
    BY <1>0, <1>2, <1>3, TokenCounted
  <1> HIDE DEF x
  <1>5. token'.start = i /\ token'.end = x.end /\ token'.type = x.type
    BY <1>1 DEF Answer
  <1> QED BY <1>1, <1>2, <1>3, <1>4, <1>5 DEF i, x

\* It holds of each next token.
LEMMA MunchedStep ==
  ASSUME Inductive, LongestLexeme, [Next]_vars
  PROVE  LongestLexeme'
  <1>1. CASE ScanToken
    <2>1. PICK i \in current .. End :
           /\ BlankEnd(i) = i /\ i \in 1 .. End /\ UNCHANGED source
           /\ token'.start = i /\ token'.end = TokenAt(i).end /\ token'.type = TokenAt(i).type
      BY <1>1, StepIs
    <2>2. source \in Sources
      BY DEF Inductive
    <2>3. Munched(i, TokenAt(i).end, TokenAt(i).type)
      BY <2>1, <2>2, TokenMunched
    <2>4. PICK e, type : e = TokenAt(i).end /\ type = TokenAt(i).type
      OBVIOUS
    <2>5. Munched(i, e, type)'
      BY <2>1, <2>3, <2>4, SameLexemes
    <2>6. token'.start = i /\ token'.end = e /\ token'.type = type
      BY <2>1, <2>4
    <2> QED BY <2>5, <2>6 DEF LongestLexeme, Munched, Longest
  <1>2. CASE UNCHANGED vars
    <2>1. PICK s, e, type : s = token.start /\ e = token.end /\ type = token.type
      OBVIOUS
    <2>2. Munched(s, e, type)
      BY <2>1, LongestIs
    <2>3. Munched(s, e, type)'
      BY <1>2, <2>2, SameLexemes DEF vars
    <2>4. token'.start = s /\ token'.end = e /\ token'.type = type
      BY <1>2, <2>1 DEF vars
    <2> QED BY <2>3, <2>4 DEF LongestLexeme, Munched, Longest
  <1> QED BY <1>1, <1>2 DEF Next

\* Maximal munch: a token that is no error is the longest lexeme at its place, and of
\* its kind (identifier, number, string and the switch of scanToken).
THEOREM TokensAreLongest == Spec => []LongestLexeme
  <1>1. Init => LongestLexeme
    BY DEF Init, LongestLexeme
  <1>2. Inductive /\ LongestLexeme /\ [Next]_vars => LongestLexeme'
    BY MunchedStep
  <1>3. Spec => []Inductive
    BY ScannerInvariant
  <1> QED BY <1>1, <1>2, <1>3, PTL DEF Spec

-----------------------------------------------------------------------------
(* What lies between two tokens                                            *)

\* What skipWhitespace takes in one turn is a blank or a comment.
LEMMA BlankIs ==
  ASSUME source \in Sources, NEW i \in 1 .. End, BlankEnd(i) # i
  PROVE  LET m == BlankEnd(i) - 1 IN
         m \in i .. End /\ (IsComment(i, m) \/ (m = i /\ At(i) \in Blanks))
  <1> DEFINE e == BlankEnd(i)
             m == e - 1
  <1>0. End \in Nat /\ i \in Int
    BY TextIs
  <1>1. e \in i + 1 .. End
    <2>1. e \in i .. End
      BY BlankEndIs
    <2> QED BY <1>0, <2>1
  <1>2. CASE e = i + 1 /\ At(i) \in Blanks
    BY <1>0, <1>1, <1>2
  <1>3. CASE LineComment(i) /\ e = First({Newline, Nul}, i)
    <2>1. At(e) \in {Newline, Nul} /\ \A k \in i .. e - 1 : At(k) \notin {Newline, Nul}
      BY <1>3, FirstIs
    <2> HIDE DEF e
    <2>2. m + 1 = e /\ m \in i .. End
      BY <1>0, <1>1
    <2>3. Span(i, m, {At(k) : k \in i .. m} \ {Newline})
      BY <2>1 DEF Span
    <2>4. IsComment(i, m)
      BY <1>3, <2>1, <2>2, <2>3 DEF IsComment
    <2> QED BY <2>2, <2>4 DEF e
  <1>4. CASE BlockComment(i) /\ CommentEnds(i) # {} /\ e = Min(CommentEnds(i)) + 2
    <2> DEFINE S == CommentEnds(i)
               c == Min(S)
    <2>1. S \subseteq Nat /\ S # {}
      BY <1>0, <1>4 DEF CommentEnds
    <2>2. c \in S /\ \A j \in S : c <= j
      BY <2>1, MinIs
    <2>3. \A j : j \in S <=> j \in i + 1 .. End /\ At(j) = "*" /\ At(j + 1) = "/"
      BY DEF CommentEnds
    <2>4. e = c + 2
      BY <1>4
    <2> HIDE DEF S, c, e
    <2>5. c \in i + 1 .. End /\ c \in Int /\ m = c + 1 /\ m - 1 = c
      BY <1>0, <2>2, <2>3, <2>4
    <2>6. m \in i + 1 .. m /\ m \in i .. End /\ m > i + 1
      BY <1>0, <1>1, <2>5
    <2>7. At(m - 1) = "*" /\ At(m) = "/"
      BY <2>2, <2>3, <2>5
    <2>8. ASSUME NEW k \in i + 1 .. m, At(k - 1) = "*", At(k) = "/", k > i + 1
          PROVE  k = m
      <3>1. k \in Int /\ k - 1 \in i + 1 .. End /\ (k - 1) + 1 = k
        BY <1>0, <2>5, <2>6, <2>8
      <3>2. k - 1 \in S
        BY <2>3, <2>8, <3>1
      <3>3. c <= k - 1
        BY <2>2, <3>2
      <3> QED BY <2>5, <3>1, <3>3
    <2>9. {k \in i + 1 .. m : At(k - 1) = "*" /\ At(k) = "/" /\ k > i + 1} = {m}
      BY <2>6, <2>7, <2>8
    <2>10. IsComment(i, m)
      BY <1>4, <2>9 DEF IsComment
    <2> QED BY <2>6, <2>10 DEF e
  <1> QED BY <1>2, <1>3, <1>4, BlankEndIs

\* IsBlank turns as BlankLoop does.
LEMMA BlankRuns ==
  ASSUME source \in Sources, NEW i \in Nat, NEW j \in Nat
  PROVE  \E f : Runs(f, BlankLoop(i, j)) /\ IsBlank(i, j) = f[i]
  <1> DEFINE R(f) == f = [k \in i .. j + 1 |-> k = j + 1 \/ BlankOn(f, k, j)]
             g == CHOOSE f : R(f)
             loop == BlankLoop(i, j)
  <1>0. /\ loop.kind = "blank" /\ loop.from = i /\ loop.upto = j + 1 /\ (j + 1) - 1 = j
        /\ loop \in Loops
    BY DEF BlankLoop, Loops
  <1>1. \A f : Runs(f, loop) <=> R(f)
    <2> HIDE DEF loop
    <2>1. \A f, k : Turn(loop, f, k) = (k = j + 1 \/ BlankOn(f, k, j))
      BY <1>0 DEF Turn
    <2> QED BY <1>0, <2>1 DEF Runs
  <1>2. \E f : R(f)
    <2> HIDE DEF R, loop
    <2> QED BY <1>0, <1>1, RunsExist
  <1>3. R(g)
    <2> HIDE DEF R
    <2> QED BY <1>2
  <1>4. IsBlank(i, j) = g[i]
    BY Zenon DEF IsBlank, BlankOn
  <1> HIDE DEF R, g
  <1> QED BY <1>1, <1>3, <1>4

\* All that skipWhitespace takes is blank.
LEMMA SkippedIsBlank ==
  ASSUME source \in Sources, NEW from \in 1 .. End
  PROVE  IsBlank(from, SkipWhitespace(from) - 1)
  <1> DEFINE s == SkipWhitespace(from)
             loop == BlankLoop(from, s - 1)
  <1>0. End \in Nat /\ from \in Nat
    BY TextIs
  <1>1. PICK f : Runs(f, SkipLoop) /\ \A i : SkipWhitespace(i) = f[i]
    BY SkipRuns
  <1>2. \A i \in 1 .. End + 1 : f[i] = IF BlankEnd(i) = i THEN i ELSE f[BlankEnd(i)]
    BY <1>1 DEF Runs, Turn, SkipLoop
  <1>3. s \in from .. End /\ \A i \in 1 .. End : f[i] \in i .. End
    BY <1>1, SkipIs
  <1>4. f[from] = s
    BY <1>1
  <1> HIDE DEF s
  <1>5. s \in Nat /\ s - 1 \in Nat /\ (s - 1) + 1 = s
    BY <1>0, <1>3
  <1>6. PICK b : Runs(b, loop) /\ IsBlank(from, s - 1) = b[from]
    BY <1>0, <1>5, BlankRuns
  <1>7. \A k \in from .. s :
          b[k] = (k = s \/ BlankOn(b, k, s - 1))
    <2>1. loop.kind = "blank" /\ loop.from = from /\ loop.upto = s
      BY <1>5 DEF BlankLoop
    <2> HIDE DEF loop
    <2>2. \A k \in from .. s : b[k] = Turn(loop, b, k)
      BY <1>6, <2>1 DEF Runs
    <2> QED BY <2>1, <2>2 DEF Turn
  <1> DEFINE Good == {k \in Nat : \A i \in from .. s : s - i < k /\ f[i] = s => b[i]}
  <1>8. 0 \in Good
    BY <1>3, <1>5
  <1>9. ASSUME NEW k \in Nat, k \in Good
        PROVE  k + 1 \in Good
    <2> SUFFICES ASSUME NEW i \in from .. s, s - i < k + 1, f[i] = s
                 PROVE  b[i]
      OBVIOUS
    <2>1. i \in 1 .. End /\ i \in 1 .. End + 1 /\ i \in Int
      BY <1>0, <1>3
    <2>2. CASE BlankEnd(i) = i
      <3>1. i = s
        BY <1>2, <2>1, <2>2
      <3> QED BY <1>7, <3>1
    <2>3. CASE BlankEnd(i) # i
      <3> DEFINE e == BlankEnd(i)
      <3>1. e - 1 \in i .. End /\ (IsComment(i, e - 1) \/ (e - 1 = i /\ At(i) \in Blanks))
        BY <2>1, <2>3, BlankIs
      <3>2. e \in i .. End /\ f[e] = s
        BY <1>2, <2>1, <2>3, BlankEndIs
      <3> HIDE DEF e
      <3>3. e \in 1 .. End /\ e \in Int /\ e >= i + 1 /\ (e - 1) + 1 = e
        BY <1>0, <2>1, <3>1, <3>2
      <3>4. s \in e .. End
        BY <1>3, <3>2, <3>3
      <3>5. e \in from .. s /\ s - e < k
        BY <1>0, <1>5, <2>1, <3>3, <3>4
      <3>6. b[e]
        BY <1>9, <3>2, <3>5
      <3>7. e - 1 \in i .. s - 1
        BY <1>5, <2>1, <3>3, <3>4
      <3>8. BlankOn(b, i, s - 1)
        BY <3>1, <3>3, <3>6, <3>7 DEF BlankOn
      <3>9. b[i] = (i = s \/ BlankOn(b, i, s - 1))
        BY <1>7
      <3> QED BY <3>8, <3>9, Zenon
    <2> QED BY <2>2, <2>3
  <1>10. s + 1 \in Good
    <2>1. s + 1 \in Nat
      BY <1>5
    <2> HIDE DEF Good
    <2> QED BY <1>8, <1>9, <2>1, NatBySteps
  <1>11. from \in from .. s /\ s - from < s + 1
    BY <1>0, <1>3, <1>5
  <1>12. b[from]
    BY <1>4, <1>10, <1>11
  <1>13. IsBlank(from, s - 1)
    BY <1>6, <1>12, Zenon
  <1> QED BY <1>13 DEF s

\* What skipWhitespace passes over is blanks and closed comments: no text is lost
\* between two tokens (scanner.c).
THEOREM BetweenTokens == Spec => NothingLost
  <1>1. Inductive /\ ScanToken => IsBlank(current, token'.start - 1) /\ token'.start <= token'.end
    <2> SUFFICES ASSUME Inductive, ScanToken
                 PROVE  IsBlank(current, token'.start - 1) /\ token'.start <= token'.end
      OBVIOUS
    <2>1. PICK i \in current .. End :
            /\ i = SkipWhitespace(current) /\ i \in 1 .. End
            /\ token'.start = i /\ token'.end = TokenAt(i).end /\ Counted(i, TokenAt(i))
      BY StepIs
    <2>2. source \in Sources /\ current \in 1 .. End /\ End \in Nat
      BY TextIs DEF Inductive, InsideText, ScanToken
    <2>3. IsBlank(current, i - 1)
      BY <2>1, <2>2, SkippedIsBlank
    <2>4. i <= TokenAt(i).end
      BY <2>1, <2>2 DEF Counted, Stops
    <2> QED BY <2>1, <2>3, <2>4
  <1>2. Inductive /\ [Next]_vars
          => [IsBlank(current, token'.start - 1) /\ token'.start <= token'.end]_vars
    BY <1>1 DEF Next
  <1> QED BY <1>2, ScannerInvariant, PTL DEF Spec, NothingLost
===============================================================================
