----------------------------- MODULE ChunkProofs -----------------------------
(***************************************************************************)
(* Proofs about Chunk, for any constants, hashes, capacity and length of   *)
(* code: the line table answers with the line of an instruction, whatever  *)
(* was folded, and an operand with the constant it was written for.        *)
(*                                                                         *)
(* The invariant says of each byte which ranges the binary search may      *)
(* answer, of each pool what TableProofs says of a table, and that the     *)
(* pools and the array of constants point at each other.                   *)
(***************************************************************************)
EXTENDS Chunk, SetInduction, FiniteSetTheorems, SequenceTheorems

-----------------------------------------------------------------------------
(* getLine                                                                 *)

LineRange == [line : Nat \ {0}, offset : Nat]

\* The ranges of a line table: they end later and later.
IsTable(rs) ==
  /\ rs \in Seq(LineRange)
  /\ \A i, j \in 1 .. Len(rs) : i < j => rs[i].offset <= rs[j].offset

\* The ranges the search for byte b may answer: one that ends at b, or the
\* first that ends behind it.
Candidate(rs, b, i) ==
  /\ rs[i].offset >= b
  /\ rs[i].offset = b \/ \A j \in 1 .. i - 1 : rs[j].offset < b

\* The bounds the search may have, and what it answers for one of them when f
\* answers for the others.
Bounds(rs) == (1 .. Len(rs)) \X (1 .. Len(rs))

Turn(f, rs, b, p) ==
  LET low == p[1]  high == p[2]  mid == low + (high - low) \div 2 IN
  IF low >= high
  THEN IF b <= rs[low].offset THEN rs[low].line ELSE 0
  ELSE IF b > rs[mid].offset THEN f[<<mid + 1, high>>]
  ELSE IF b < rs[mid].offset THEN f[<<low, mid>>]
  ELSE rs[mid].line

Search(f, rs, b) == f = [p \in Bounds(rs) |-> Turn(f, rs, b, p)]

\* What a table is made of.
LEMMA TableIs ==
  ASSUME NEW rs, IsTable(rs)
  PROVE  /\ Len(rs) \in Nat /\ (rs # <<>> => Len(rs) # 0)
         /\ \A i \in 1 .. Len(rs) : rs[i].offset \in Nat /\ rs[i].line \in Nat \ {0}
         /\ \A i, j \in 1 .. Len(rs) : i < j => rs[i].offset <= rs[j].offset
  <1>1. rs \in Seq(LineRange)
    BY DEF IsTable
  <1>2. Len(rs) \in Nat /\ (rs # <<>> => Len(rs) # 0)
    <2>1. Len(rs) \in Nat
      BY <1>1, LenProperties
    <2>2. rs # <<>> => Len(rs) # 0
      BY <1>1, EmptySeq
    <2> QED BY <2>1, <2>2
  <1>3. \A i \in 1 .. Len(rs) : rs[i] \in LineRange
    BY <1>1, ElementOfSeq
  <1>4. \A r \in LineRange : r.offset \in Nat /\ r.line \in Nat \ {0}
    BY DEF LineRange
  <1> QED BY <1>2, <1>3, <1>4 DEF IsTable

\* Each turn leaves fewer ranges.
LEMMA MidIs ==
  ASSUME NEW low \in Nat, NEW high \in Nat, low < high
  PROVE  LET mid == low + (high - low) \div 2 IN
         mid \in Nat /\ low <= mid /\ mid < high
  OBVIOUS

\* A turn of getLine's search looks only at the answers for smaller ranges.
LEMMA TurnSame ==
  ASSUME NEW rs, Len(rs) \in Nat, NEW b, NEW f, NEW g, NEW p \in Bounds(rs),
         \A q \in Bounds(rs) : q[2] - q[1] < p[2] - p[1] => f[q] = g[q]
  PROVE  Turn(f, rs, b, p) = Turn(g, rs, b, p)
  <1> DEFINE low == p[1]
             high == p[2]
             mid == low + (high - low) \div 2
  <1>1. low \in 1 .. Len(rs) /\ high \in 1 .. Len(rs)
    BY DEF Bounds
  <1>2. CASE low >= high
    BY <1>2 DEF Turn
  <1>3. CASE low < high
    <2>1. mid \in Nat /\ low <= mid /\ mid < high
      BY <1>1, <1>3, MidIs
    <2>2. f[<<mid + 1, high>>] = g[<<mid + 1, high>>]
      <3> DEFINE q == <<mid + 1, high>>
      <3>1. q \in Bounds(rs) /\ q[2] - q[1] < high - low
        <4> HIDE DEF mid, low, high
        <4> QED BY <1>1, <2>1 DEF Bounds
      <3> QED BY <3>1
    <2>3. f[<<low, mid>>] = g[<<low, mid>>]
      <3> DEFINE q == <<low, mid>>
      <3>1. q \in Bounds(rs) /\ q[2] - q[1] < high - low
        <4> HIDE DEF mid, low, high
        <4> QED BY <1>1, <2>1 DEF Bounds
      <3> QED BY <3>1
    <2>4. \A h : Turn(h, rs, b, p) =
             IF b > rs[mid].offset THEN h[<<mid + 1, high>>]
             ELSE IF b < rs[mid].offset THEN h[<<low, mid>>]
             ELSE rs[mid].line
      <3>1. ~(low >= high)
        BY <1>1, <1>3
      <3> QED BY <3>1 DEF Turn
    <2> QED BY <2>2, <2>3, <2>4
  <1> QED BY <1>1, <1>2, <1>3

\* f answers for all bounds up to g apart.
Answers(f, rs, b, g) ==
  /\ f = [p \in Bounds(rs) |-> f[p]]
  /\ \A p \in Bounds(rs) : p[2] - p[1] <= g => f[p] = Turn(f, rs, b, p)

\* The recursion of getLine ends for all bounds.
LEMMA SearchExists ==
  ASSUME NEW rs, Len(rs) \in Nat, NEW b
  PROVE  \E f : Search(f, rs, b)
  <1> DEFINE Defined == {g \in Nat : \E f : Answers(f, rs, b, g)}
  <1>1. ASSUME NEW f, NEW g \in Int,
               \A p \in Bounds(rs) : p[2] - p[1] <= g => f[p] = Turn(f, rs, b, p)
        PROVE  \E h : Answers(h, rs, b, g + 1)
    <2> DEFINE h == [p \in Bounds(rs) |-> Turn(f, rs, b, p)]
    <2>1. h = [p \in Bounds(rs) |-> h[p]]
      OBVIOUS
    <2>2. \A p \in Bounds(rs) : h[p] = Turn(f, rs, b, p)
      OBVIOUS
    <2> HIDE DEF h
    <2>3. ASSUME NEW p \in Bounds(rs), p[2] - p[1] <= g + 1
          PROVE  h[p] = Turn(h, rs, b, p)
      <3>1. ASSUME NEW q \in Bounds(rs), q[2] - q[1] < p[2] - p[1]
            PROVE  f[q] = h[q]
        <4>1. q[2] - q[1] <= g
          BY <2>3, <3>1 DEF Bounds
        <4> QED BY <1>1, <2>2, <4>1
      <3>2. Turn(f, rs, b, p) = Turn(h, rs, b, p)
        BY <3>1, TurnSame
      <3> QED BY <2>2, <3>2
    <2>4. Answers(h, rs, b, g + 1)
      BY <2>1, <2>3 DEF Answers
    <2> QED BY <2>4
  <1>2. 0 \in Defined
    <2> DEFINE D == 0 - Len(rs)
               f == [p \in Bounds(rs) |-> Turn(0, rs, b, p)]
    <2>1. \A p \in Bounds(rs) : f[p] = Turn(0, rs, b, p)
      OBVIOUS
    <2> HIDE DEF f
    <2>2. ASSUME NEW p \in Bounds(rs), p[2] - p[1] <= 0
          PROVE  f[p] = Turn(f, rs, b, p)
      <3>1. p[1] >= p[2]
        BY <2>2 DEF Bounds
      <3>2. Turn(0, rs, b, p) = Turn(f, rs, b, p)
        BY <3>1 DEF Turn
      <3> QED BY <2>1, <3>2
    <2>3. f = [p \in Bounds(rs) |-> f[p]]
      BY DEF f
    <2>4. Answers(f, rs, b, 0)
      BY <2>2, <2>3 DEF Answers
    <2> QED BY <2>4
  <1>3. ASSUME NEW g \in Nat, g \in Defined
        PROVE  g + 1 \in Defined
    <2>1. PICK f : Answers(f, rs, b, g)
      BY <1>3
    <2>2. \A p \in Bounds(rs) : p[2] - p[1] <= g => f[p] = Turn(f, rs, b, p)
      BY <2>1 DEF Answers
    <2>3. \E h : Answers(h, rs, b, g + 1)
      <3>1. g \in Int
        OBVIOUS
      <3> HIDE DEF Defined
      <3> QED BY <1>1, <2>2, <3>1, Zenon
    <2> QED BY <2>3
  <1>4. Len(rs) \in Defined
    <2> HIDE DEF Defined
    <2> QED BY <1>2, <1>3, NatBySteps
  <1>5. PICK f : Answers(f, rs, b, Len(rs))
    BY <1>4
  <1>6. \A p \in Bounds(rs) : f[p] = Turn(f, rs, b, p)
    <2>1. \A p \in Bounds(rs) : p[2] - p[1] <= Len(rs)
      BY DEF Bounds
    <2> QED BY <1>5, <2>1 DEF Answers
  <1>7. f = [p \in Bounds(rs) |-> f[p]]
    BY <1>5 DEF Answers
  <1>8. f = [p \in Bounds(rs) |-> Turn(f, rs, b, p)]
    BY <1>6, <1>7
  <1> QED BY <1>8 DEF Search

\* The bounds the search meets: byte b is not before them, nor behind.
Asked(rs, b, low, high) ==
  /\ low \in 1 .. Len(rs) /\ high \in 1 .. Len(rs) /\ low <= high
  /\ b <= rs[high].offset
  /\ \A j \in 1 .. low - 1 : rs[j].offset < b

\* getLine answers with a candidate if the table reaches to b.
LEMMA GetLineIs ==
  ASSUME NEW rs, IsTable(rs), rs # <<>>, NEW b \in Nat, b <= rs[Len(rs)].offset
  PROVE  \E i \in 1 .. Len(rs) : Candidate(rs, b, i) /\ GetLine(rs, b) = rs[i].line
  <1> DEFINE f == CHOOSE f : Search(f, rs, b)
  <1>1. Len(rs) \in Nat /\ Len(rs) # 0 /\ \A i \in 1 .. Len(rs) : rs[i].offset \in Nat
    BY TableIs
  <1>2. Search(f, rs, b)
    BY <1>1, SearchExists
  <1>3. GetLine(rs, b) = f[<<1, Len(rs)>>]
    BY DEF GetLine, Search, Turn, Bounds
  <1> HIDE DEF f
  <1>4. \A p \in Bounds(rs) : f[p] = Turn(f, rs, b, p)
    <2> DEFINE t(q) == Turn(f, rs, b, q)
    <2>1. f = [q \in Bounds(rs) |-> t(q)]
      BY <1>2 DEF Search
    <2> HIDE DEF t
    <2>2. \A p \in Bounds(rs) : f[p] = t(p)
      BY <2>1
    <2> QED BY <2>2 DEF t
  <1> DEFINE Right(low, high) ==
               \E i \in 1 .. Len(rs) : Candidate(rs, b, i) /\ f[<<low, high>>] = rs[i].line
             Good == {g \in Nat : \A low, high \in 1 .. Len(rs) :
                                     Asked(rs, b, low, high) /\ high - low <= g => Right(low, high)}
  <1>5. ASSUME NEW low, NEW high, Asked(rs, b, low, high), low = high
        PROVE  Right(low, high)
    <2>1. <<low, high>> \in Bounds(rs)
      BY <1>5 DEF Bounds, Asked
    <2>2. f[<<low, high>>] = rs[low].line
      BY <1>1, <1>4, <1>5, <2>1 DEF Turn, Asked
    <2>3. Candidate(rs, b, low)
      BY <1>1, <1>5 DEF Candidate, Asked
    <2> QED BY <1>5, <2>2, <2>3 DEF Asked
  <1>6. 0 \in Good
    <2> SUFFICES ASSUME NEW low \in 1 .. Len(rs), NEW high \in 1 .. Len(rs),
                        Asked(rs, b, low, high), high - low <= 0
                 PROVE  Right(low, high)
      OBVIOUS
    <2>1. low = high
      BY DEF Asked
    <2> QED BY <1>5, <2>1
  <1>7. ASSUME NEW g \in Nat, g \in Good
        PROVE  g + 1 \in Good
    <2> SUFFICES ASSUME NEW low \in 1 .. Len(rs), NEW high \in 1 .. Len(rs),
                        Asked(rs, b, low, high), high - low <= g + 1
                 PROVE  Right(low, high)
      OBVIOUS
    <2> HIDE DEF Right, Good
    <2>1. CASE low = high
      BY <1>5, <2>1
    <2>2. CASE low < high
      <3> DEFINE mid == low + (high - low) \div 2
      <3>1. mid \in Nat /\ low <= mid /\ mid < high
        BY <2>2, MidIs
      <3>2. f[<<low, high>>] =
              IF b > rs[mid].offset THEN f[<<mid + 1, high>>]
              ELSE IF b < rs[mid].offset THEN f[<<low, mid>>]
              ELSE rs[mid].line
        <4>1. <<low, high>> \in Bounds(rs) /\ ~(low >= high)
          BY <2>2 DEF Bounds
        <4> QED BY <1>4, <4>1 DEF Turn
      <3> HIDE DEF mid
      <3>3. mid \in 1 .. Len(rs) /\ rs[mid].offset \in Nat
        BY <1>1, <3>1
      <3>4. CASE b > rs[mid].offset
        <4>1. \A j \in 1 .. mid : rs[j].offset < b
          <5> SUFFICES ASSUME NEW j \in 1 .. mid PROVE rs[j].offset < b
            OBVIOUS
          <5>1. j \in 1 .. Len(rs) /\ (j = mid \/ j < mid)
            BY <3>3
          <5>2. rs[j].offset <= rs[mid].offset
            <6>1. \A i, k \in 1 .. Len(rs) : i < k => rs[i].offset <= rs[k].offset
              BY TableIs
            <6> QED BY <3>3, <5>1, <6>1
          <5> QED BY <1>1, <3>3, <3>4, <5>1, <5>2
        <4>2. mid + 1 \in 1 .. Len(rs) /\ mid + 1 <= high /\ (mid + 1) - 1 = mid
          <5>1. high \in 1 .. Len(rs) /\ Len(rs) \in Nat
            BY <1>1
          <5> QED BY <3>1, <5>1
        <4>3. Asked(rs, b, mid + 1, high)
          <5>1. b <= rs[high].offset
            BY DEF Asked
          <5>2. \A j \in 1 .. (mid + 1) - 1 : rs[j].offset < b
            BY <4>1, <4>2
          <5> QED BY <4>2, <5>1, <5>2 DEF Asked
        <4>4. high - (mid + 1) <= g
          BY <3>1
        <4>5. Right(mid + 1, high)
          BY <1>7, <4>2, <4>3, <4>4 DEF Good
        <4> QED BY <3>2, <3>4, <4>5 DEF Right
      <3>5. CASE b < rs[mid].offset
        <4>1. Asked(rs, b, low, mid) /\ mid - low <= g
          BY <3>1, <3>3, <3>5 DEF Asked
        <4>2. Right(low, mid)
          BY <1>7, <3>3, <4>1 DEF Good
        <4>3. ~(b > rs[mid].offset)
          BY <3>3, <3>5
        <4> QED BY <3>2, <3>5, <4>2, <4>3 DEF Right
      <3>6. CASE b = rs[mid].offset
        <4>1. Candidate(rs, b, mid)
          BY <3>3, <3>6 DEF Candidate
        <4>2. ~(b > rs[mid].offset) /\ ~(b < rs[mid].offset)
          BY <3>3, <3>6
        <4> QED BY <3>2, <3>3, <4>1, <4>2 DEF Right
      <3> QED BY <3>3, <3>4, <3>5, <3>6
    <2>3. low = high \/ low < high
      BY DEF Asked
    <2> QED BY <2>1, <2>2, <2>3
  <1>8. Len(rs) \in Good
    <2> HIDE DEF Good
    <2> QED BY <1>1, <1>6, <1>7, NatBySteps
  <1>9. Asked(rs, b, 1, Len(rs))
    BY <1>1 DEF Asked
  <1>10. Right(1, Len(rs))
    <2>1. 1 \in 1 .. Len(rs) /\ Len(rs) \in 1 .. Len(rs) /\ Len(rs) - 1 <= Len(rs)
      BY <1>1
    <2> HIDE DEF Right
    <2> QED BY <1>8, <1>9, <2>1
  <1> QED BY <1>3, <1>10

-----------------------------------------------------------------------------
(* Bytes                                                                   *)

PlainOps == {"LITERAL", "GET_LOCAL", "OTHER", "ADD", "NOT", "NEGATE", "OP_LOCAL"}
ConstOps == {"CONSTANT", "OP_CONST"}

PlainInstr == [op : PlainOps, width : Nat \ {0}, line : Nat \ {0}]
ConstInstr == [op : PlainOps \union ConstOps, width : Nat \ {0}, line : Nat \ {0},
               index : Nat, value : Constants]

Instr == PlainInstr \union ConstInstr

\* g[n] is the number of bytes of the first n instructions.
Bytes(g, code) ==
  g = [n \in 0 .. Len(code) |-> IF n = 0 THEN 0 ELSE g[n - 1] + code[n].width]

Ends(code) == CHOOSE g : Bytes(g, code)

\* What the fields of an instruction are.
LEMMA InstrIs ==
  ASSUME NEW i \in Instr
  PROVE  i.width \in Nat \ {0} /\ i.line \in Nat \ {0} /\ i.op \in PlainOps \union ConstOps
  BY DEF Instr, PlainInstr, ConstInstr

\* What code is made of.
LEMMA CodeIs ==
  ASSUME NEW code \in Seq(Instr)
  PROVE  /\ Len(code) \in Nat /\ DOMAIN code = 1 .. Len(code)
         /\ \A n \in 1 .. Len(code) : code[n] \in Instr
         /\ \A n \in 1 .. Len(code) : code[n].width \in Nat \ {0} /\ code[n].line \in Nat \ {0}
  <1>1. Len(code) \in Nat /\ DOMAIN code = 1 .. Len(code)
    BY LenProperties
  <1>2. \A n \in 1 .. Len(code) : code[n] \in Instr
    BY ElementOfSeq
  <1> QED BY <1>1, <1>2, InstrIs

\* What g maps each number to.
LEMMA BytesEach ==
  ASSUME NEW code, NEW g, Bytes(g, code)
  PROVE  \A n \in 0 .. Len(code) : g[n] = IF n = 0 THEN 0 ELSE g[n - 1] + code[n].width
  <1> DEFINE next(n) == IF n = 0 THEN 0 ELSE g[n - 1] + code[n].width
  <1>1. g = [n \in 0 .. Len(code) |-> next(n)]
    BY DEF Bytes
  <1> HIDE DEF next
  <1>2. \A n \in 0 .. Len(code) : g[n] = next(n)
    BY <1>1
  <1> QED BY <1>2 DEF next

\* There is such a function: the recursion of Count is sound.
LEMMA BytesExist ==
  ASSUME NEW code, Len(code) \in Nat
  PROVE  \E g : Bytes(g, code)
  <1> DEFINE D == 0 .. Len(code)
             next(g, n) == IF n = 0 THEN 0 ELSE g[n - 1] + code[n].width
             Upto(g, k) == g = [n \in D |-> g[n]] /\ \A n \in D : n <= k => g[n] = next(g, n)
             Defined == {k \in Nat : \E g : Upto(g, k)}
  <1>1. 0 \in Defined
    <2> DEFINE g == [n \in D |-> 0]
    <2>1. g = [n \in D |-> g[n]] /\ \A n \in D : n <= 0 => g[n] = next(g, n)
      OBVIOUS
    <2> QED BY <2>1
  <1>2. ASSUME NEW k \in Nat, k \in Defined
        PROVE  k + 1 \in Defined
    <2>1. PICK g : Upto(g, k)
      BY <1>2
    <2> DEFINE h == [n \in D |-> next(g, n)]
    <2>2. h = [n \in D |-> h[n]]
      OBVIOUS
    <2>3. \A n \in D : h[n] = next(g, n)
      OBVIOUS
    <2> HIDE DEF h
    <2>4. ASSUME NEW n \in D, n <= k + 1
          PROVE  h[n] = next(h, n)
      <3>1. CASE n = 0
        BY <2>3, <3>1
      <3>2. CASE n # 0
        <4>1. n - 1 \in D /\ n - 1 <= k
          BY <2>4, <3>2
        <4>2. h[n - 1] = g[n - 1]
          BY <2>1, <2>3, <4>1
        <4> QED BY <2>3, <4>2
      <3> QED BY <3>1, <3>2
    <2> HIDE DEF next, D
    <2>5. Upto(h, k + 1)
      BY <2>2, <2>4
    <2> QED BY <2>5
  <1>3. Len(code) \in Defined
    <2> HIDE DEF Defined
    <2> QED BY <1>1, <1>2, NatBySteps
  <1>4. PICK g : Upto(g, Len(code))
    BY <1>3
  <1>5. \A n \in D : g[n] = next(g, n)
    BY <1>4
  <1>6. g = [n \in D |-> g[n]]
    BY <1>4
  <1>7. g = [n \in D |-> next(g, n)]
    <2> HIDE DEF next, D
    <2> QED BY <1>5, <1>6
  <1> QED BY <1>7 DEF Bytes

\* The end of an instruction is the end of the one before and its width.
LEMMA EndsAre ==
  ASSUME NEW code \in Seq(Instr)
  PROVE  /\ Count(code) = Ends(code)[Len(code)]
         /\ Ends(code)[0] = 0
         /\ \A n \in 1 .. Len(code) : Ends(code)[n] = Ends(code)[n - 1] + code[n].width
  <1>1. Len(code) \in Nat
    BY CodeIs
  <1>2. Bytes(Ends(code), code)
    BY <1>1, BytesExist DEF Ends
  <1>3. Count(code) = Ends(code)[Len(code)]
    BY DEF Count, Ends, Bytes
  <1>4. \A n \in 0 .. Len(code) :
           Ends(code)[n] = IF n = 0 THEN 0 ELSE Ends(code)[n - 1] + code[n].width
    BY <1>2, BytesEach
  <1>5. 0 \in 0 .. Len(code) /\ \A n \in 1 .. Len(code) : n \in 0 .. Len(code) /\ n # 0
    BY <1>1
  <1> QED BY <1>3, <1>4, <1>5

\* Ends are naturals, and each lies behind those before it.
LEMMA EndsGrow ==
  ASSUME NEW code \in Seq(Instr)
  PROVE  /\ \A n \in 0 .. Len(code) : Ends(code)[n] \in Nat
         /\ \A n \in 0 .. Len(code), m \in 0 .. Len(code) :
               m < n => Ends(code)[m] < Ends(code)[n]
  <1> DEFINE e(n) == Ends(code)[n]
             Good == {n \in Nat : n <= Len(code) =>
                        /\ e(n) \in Nat
                        /\ \A m \in 0 .. Len(code) : m < n => e(m) \in Nat /\ e(m) < e(n)}
  <1>1. Len(code) \in Nat /\ \A n \in 1 .. Len(code) : code[n].width \in Nat \ {0}
    BY CodeIs
  <1>2. e(0) = 0 /\ \A n \in 1 .. Len(code) : e(n) = e(n - 1) + code[n].width
    BY EndsAre
  <1> HIDE DEF e
  <1>3. 0 \in Good
    BY <1>2
  <1>4. ASSUME NEW n \in Nat, n \in Good
        PROVE  n + 1 \in Good
    <2> SUFFICES ASSUME n + 1 <= Len(code)
                 PROVE  /\ e(n + 1) \in Nat
                        /\ \A m \in 0 .. Len(code) : m < n + 1 => e(m) \in Nat /\ e(m) < e(n + 1)
      OBVIOUS
    <2>1. e(n) \in Nat /\ \A m \in 0 .. Len(code) : m < n => e(m) \in Nat /\ e(m) < e(n)
      BY <1>1, <1>4
    <2>2. n + 1 \in 1 .. Len(code) /\ (n + 1) - 1 = n
      BY <1>1
    <2>3. e(n + 1) = e(n) + code[n + 1].width /\ code[n + 1].width \in Nat \ {0}
      BY <1>1, <1>2, <2>2
    <2>4. e(n + 1) \in Nat /\ e(n) < e(n + 1)
      BY <2>1, <2>3
    <2>5. ASSUME NEW m \in 0 .. Len(code), m < n + 1
          PROVE  e(m) \in Nat /\ e(m) < e(n + 1)
      <3>1. m = n \/ m < n
        BY <2>5
      <3>2. m \in Nat
        BY <1>1
      <3>3. CASE m < n
        <4>1. e(m) \in Nat /\ e(m) < e(n)
          BY <2>1, <3>3
        <4> QED BY <2>1, <2>4, <4>1
      <3> QED BY <2>1, <2>4, <3>1, <3>3
    <2> QED BY <2>4, <2>5
  <1>6. Nat \subseteq Good
    <2> HIDE DEF Good
    <2> QED BY <1>3, <1>4, NatBySteps
  <1>7. \A n \in 0 .. Len(code) : n \in Nat /\ n <= Len(code)
    BY <1>1
  <1> QED BY <1>6, <1>7 DEF e

\* Codes whose first instructions have the same widths end at the same bytes.
LEMMA EndsAgree ==
  ASSUME NEW c \in Seq(Instr), NEW d \in Seq(Instr), NEW m \in Nat,
         m <= Len(c), m <= Len(d), \A n \in 1 .. m : c[n].width = d[n].width
  PROVE  \A n \in 0 .. m : Ends(c)[n] = Ends(d)[n]
  <1> DEFINE Good == {n \in Nat : n <= m => Ends(c)[n] = Ends(d)[n]}
  <1>1. Len(c) \in Nat /\ Len(d) \in Nat
    BY CodeIs
  <1>2. Ends(c)[0] = 0 /\ \A n \in 1 .. Len(c) : Ends(c)[n] = Ends(c)[n - 1] + c[n].width
    BY EndsAre
  <1>3. Ends(d)[0] = 0 /\ \A n \in 1 .. Len(d) : Ends(d)[n] = Ends(d)[n - 1] + d[n].width
    BY EndsAre
  <1>4. 0 \in Good
    BY <1>2, <1>3
  <1>5. ASSUME NEW n \in Nat, n \in Good
        PROVE  n + 1 \in Good
    <2> SUFFICES ASSUME n + 1 <= m
                 PROVE  Ends(c)[n + 1] = Ends(d)[n + 1]
      OBVIOUS
    <2>1. /\ n + 1 \in 1 .. m /\ n + 1 \in 1 .. Len(c) /\ n + 1 \in 1 .. Len(d)
          /\ (n + 1) - 1 = n /\ n <= m
      BY <1>1
    <2>2. Ends(c)[n] = Ends(d)[n]
      BY <1>5, <2>1
    <2> HIDE DEF Good
    <2> QED BY <1>2, <1>3, <2>1, <2>2
  <1>6. Nat \subseteq Good
    <2> HIDE DEF Good
    <2> QED BY <1>4, <1>5, NatBySteps
  <1> QED BY <1>6

\* new is the first n instructions of code.
Prefix(new, code, n) ==
  /\ new \in Seq(Instr) /\ Len(new) = n
  /\ \A m \in 1 .. n : new[m] = code[m]
  /\ \A m \in 0 .. n : Ends(new)[m] = Ends(code)[m]
  /\ Count(new) = Ends(code)[n]

\* The first n instructions have the bytes up to the end of the n-th.
LEMMA PrefixIs ==
  ASSUME NEW code \in Seq(Instr), NEW n \in 0 .. Len(code)
  PROVE  Prefix(SubSeq(code, 1, n), code, n)
  <1> DEFINE new == SubSeq(code, 1, n)
  <1>1. Len(code) \in Nat /\ \A m \in 1 .. Len(code) : code[m] \in Instr
    BY CodeIs
  <1>2. n \in Int /\ 1 \in Int /\ \A m \in 1 .. n : code[m] \in Instr
    BY <1>1
  <1>3. /\ new \in Seq(Instr) /\ Len(new) = IF 1 <= n THEN n - 1 + 1 ELSE 0
        /\ \A m \in 1 .. n - 1 + 1 : new[m] = code[1 + m - 1]
    BY <1>2, SubSeqProperties
  <1> HIDE DEF new
  <1>4. Len(new) = n /\ \A m \in 1 .. n : new[m] = code[m]
    BY <1>1, <1>3
  <1>5. \A m \in 0 .. n : Ends(new)[m] = Ends(code)[m]
    <2>1. /\ n \in Nat /\ n <= Len(code) /\ n <= Len(new)
          /\ \A m \in 1 .. n : new[m].width = code[m].width
      BY <1>1, <1>4
    <2> QED BY <1>3, <2>1, EndsAgree
  <1>6. Count(new) = Ends(code)[n]
    <2>1. Count(new) = Ends(new)[Len(new)]
      BY <1>3, EndsAre
    <2>2. n \in 0 .. n
      BY <1>1
    <2> QED BY <1>4, <1>5, <2>1, <2>2
  <1> QED BY <1>3, <1>4, <1>5, <1>6 DEF Prefix, new

\* new is code and the instruction i.
Longer(new, code, i) ==
  /\ new \in Seq(Instr) /\ Len(new) = Len(code) + 1
  /\ \A m \in 1 .. Len(code) : new[m] = code[m]
  /\ new[Len(code) + 1] = i
  /\ \A m \in 0 .. Len(code) : Ends(new)[m] = Ends(code)[m]
  /\ Count(new) = Count(code) + i.width

\* One instruction more.
LEMMA AppendIs ==
  ASSUME NEW code \in Seq(Instr), NEW i \in Instr
  PROVE  Longer(Append(code, i), code, i)
  <1> DEFINE new == Append(code, i)
  <1>1. Len(code) \in Nat
    BY CodeIs
  <1>2. /\ new \in Seq(Instr) /\ Len(new) = Len(code) + 1
        /\ \A m \in 1 .. Len(code) : new[m] = code[m]
        /\ new[Len(code) + 1] = i
    BY AppendProperties
  <1> HIDE DEF new
  <1>3. \A m \in 0 .. Len(code) : Ends(new)[m] = Ends(code)[m]
    <2>1. /\ Len(code) \in Nat /\ Len(code) <= Len(new) /\ Len(code) <= Len(code)
          /\ \A m \in 1 .. Len(code) : new[m].width = code[m].width
      BY <1>1, <1>2
    <2>2. new \in Seq(Instr)
      BY <1>2
    <2> QED BY <2>1, <2>2, EndsAgree
  <1>4. Count(new) = Count(code) + i.width
    <2>1. Count(new) = Ends(new)[Len(code) + 1] /\ Count(code) = Ends(code)[Len(code)]
      BY <1>2, EndsAre
    <2>2. Len(code) + 1 \in 1 .. Len(new) /\ (Len(code) + 1) - 1 = Len(code)
      BY <1>1, <1>2
    <2>3. Ends(new)[Len(code) + 1] = Ends(new)[Len(code)] + i.width
      BY <1>2, <2>2, EndsAre
    <2> QED BY <1>1, <1>3, <2>1, <2>3
  <1> QED BY <1>2, <1>3, <1>4 DEF Longer, new

-----------------------------------------------------------------------------
(* The line table of a chunk                                               *)

\* A line that may be reported for an instruction: its own, or an earlier one if the
\* instruction has no operand.
Right(l, i) == l <= i.line /\ (i.width > 1 => l = i.line)

Fits(rs, code) ==
  \A n \in 1 .. Len(code), i \in 1 .. Len(rs) :
    Candidate(rs, Ends(code)[n] - 1, i) => Right(rs[i].line, code[n])

\* A range that ends behind an instruction has no earlier line.
Behind(rs, code) ==
  \A i \in 1 .. Len(rs), n \in 1 .. Len(code) :
    rs[i].offset >= Ends(code)[n] => code[n].line <= rs[i].line

\* The table ends with the code, or a byte before.
Covers(rs, code) ==
  IF rs = <<>> THEN code = <<>>
  ELSE rs[Len(rs)].offset <= Count(code) /\ Count(code) <= rs[Len(rs)].offset + 1

\* Code written at line l at last, and its line table.
LinesOK(c, l) ==
  /\ c \in [code : Seq(Instr), ranges : Seq(LineRange)]
  /\ IsTable(c.ranges)
  /\ \A n \in 1 .. Len(c.code) : c.code[n].line <= l
  /\ \A i \in 1 .. Len(c.ranges) : c.ranges[i].line <= l
  /\ Covers(c.ranges, c.code)
  /\ Fits(c.ranges, c.code)
  /\ Behind(c.ranges, c.code)

\* Setting the end of a range.
SetEnd(rs, n, o) == [rs EXCEPT ![n].offset = o]

\* It changes one offset and no line.
LEMMA OffsetSet ==
  ASSUME NEW rs \in Seq(LineRange), NEW n \in 1 .. Len(rs), NEW o \in Nat,
         NEW new, new = SetEnd(rs, n, o)
  PROVE  /\ new \in Seq(LineRange) /\ Len(new) = Len(rs)
         /\ new[n].line = rs[n].line /\ new[n].offset = o
         /\ \A i \in 1 .. Len(rs) : i # n => new[i] = rs[i]
  <1> DEFINE e == [rs[n] EXCEPT !.offset = o]
  <1>1. rs[n] \in LineRange
    BY ElementOfSeq
  <1>2. e \in LineRange /\ e.line = rs[n].line /\ e.offset = o
    BY <1>1 DEF LineRange
  <1>3. new = [rs EXCEPT ![n] = e]
    BY DEF SetEnd
  <1> HIDE DEF e
  <1>4. /\ new \in Seq(LineRange) /\ Len(new) = Len(rs)
        /\ \A i \in 1 .. Len(rs) : new[i] = IF i = n THEN e ELSE rs[i]
    BY <1>2, <1>3, ExceptSeq
  <1> QED BY <1>2, <1>4

\* new is rs as far as range n, which now ends with offset o.
EndsWith(new, rs, n, l, o) ==
  /\ IsTable(new) /\ Len(new) = n /\ n # 0
  /\ new[n].line = l /\ new[n].offset = o
  /\ \A i \in 1 .. n - 1 : i \in 1 .. Len(rs) /\ new[i] = rs[i]

\* lineArray_write ends the table with the new bytes at their line.
LEMMA LineWritten ==
  ASSUME NEW rs, IsTable(rs), NEW l \in Nat \ {0}, NEW o \in Nat,
         rs # <<>> => rs[Len(rs)].offset <= o
  PROVE  \/ /\ rs # <<>> /\ rs[Len(rs)].line = l
            /\ EndsWith(WriteLine(rs, l, o), rs, Len(rs), l, o)
         \/ EndsWith(WriteLine(rs, l, o), rs, Len(rs) + 1, l, o)
  <1> DEFINE new == WriteLine(rs, l, o)
  <1>1. /\ rs \in Seq(LineRange) /\ Len(rs) \in Nat /\ (rs # <<>> => Len(rs) # 0)
        /\ \A i \in 1 .. Len(rs) : rs[i].offset \in Nat
        /\ \A i, j \in 1 .. Len(rs) : i < j => rs[i].offset <= rs[j].offset
    BY TableIs DEF IsTable
  <1>2. CASE rs # <<>> /\ Last(rs).line = l
    <2>1. new = SetEnd(rs, Len(rs), o) /\ rs[Len(rs)].line = l /\ Len(rs) \in 1 .. Len(rs)
      BY <1>1, <1>2 DEF WriteLine, Last, SetEnd
    <2> HIDE DEF new
    <2>2. /\ new \in Seq(LineRange) /\ Len(new) = Len(rs)
          /\ new[Len(rs)].line = l /\ new[Len(rs)].offset = o
          /\ \A i \in 1 .. Len(rs) : i # Len(rs) => new[i] = rs[i]
      <3>1. rs \in Seq(LineRange)
        BY <1>1
      <3> QED BY <2>1, <3>1, OffsetSet
    <2>3. ASSUME NEW i \in 1 .. Len(new), NEW j \in 1 .. Len(new), i < j
          PROVE  new[i].offset <= new[j].offset
      <3>1. i \in 1 .. Len(rs) /\ j \in 1 .. Len(rs) /\ i # Len(rs) /\ new[i] = rs[i]
        BY <1>1, <2>2, <2>3
      <3>2. CASE j = Len(rs)
        <4>1. rs[i].offset <= rs[Len(rs)].offset /\ rs[Len(rs)].offset <= o
          BY <1>1, <1>2, <2>3, <3>1, <3>2
        <4> QED BY <1>1, <2>1, <2>2, <3>1, <3>2, <4>1
      <3>3. CASE j # Len(rs)
        BY <1>1, <2>2, <2>3, <3>1, <3>3
      <3> QED BY <3>2, <3>3
    <2>4. \A i \in 1 .. Len(rs) - 1 : i \in 1 .. Len(rs) /\ new[i] = rs[i]
      BY <1>1, <2>2
    <2>5. EndsWith(new, rs, Len(rs), l, o)
      BY <1>1, <1>2, <2>2, <2>3, <2>4 DEF EndsWith, IsTable
    <2> QED BY <1>2, <2>1, <2>5 DEF new
  <1>3. CASE ~(rs # <<>> /\ Last(rs).line = l)
    <2> DEFINE e == [line |-> l, offset |-> o]
    <2>1. new = Append(rs, e)
      BY <1>3 DEF WriteLine
    <2>2. e \in LineRange /\ e.line = l /\ e.offset = o
      BY DEF LineRange
    <2> HIDE DEF new, e
    <2>3. /\ new \in Seq(LineRange) /\ Len(new) = Len(rs) + 1
          /\ \A i \in 1 .. Len(rs) : new[i] = rs[i]
          /\ new[Len(rs) + 1] = e
      BY <1>1, <2>1, <2>2, AppendProperties
    <2>4. ASSUME NEW i \in 1 .. Len(new), NEW j \in 1 .. Len(new), i < j
          PROVE  new[i].offset <= new[j].offset
      <3>1. i \in 1 .. Len(rs) /\ new[i] = rs[i] /\ rs[i].offset \in Nat
        BY <1>1, <2>3, <2>4
      <3>2. CASE j \in 1 .. Len(rs)
        BY <1>1, <2>3, <2>4, <3>1, <3>2
      <3>3. CASE j = Len(rs) + 1
        <4>1. Len(rs) \in 1 .. Len(rs) /\ (i = Len(rs) \/ i < Len(rs)) /\ rs # <<>>
          <5>1. Len(rs) \in 1 .. Len(rs) /\ (i = Len(rs) \/ i < Len(rs)) /\ Len(rs) # 0
            BY <1>1, <3>1
          <5> QED BY <5>1, EmptySeq
        <4>2. rs[i].offset <= rs[Len(rs)].offset
          BY <1>1, <3>1, <4>1
        <4>3. rs[i].offset <= o
          BY <1>1, <3>1, <4>1, <4>2
        <4> QED BY <2>2, <2>3, <3>1, <3>3, <4>3
      <3> QED BY <1>1, <2>3, <3>2, <3>3
    <2>5. \A i \in 1 .. (Len(rs) + 1) - 1 : i \in 1 .. Len(rs) /\ new[i] = rs[i]
      BY <1>1, <2>3
    <2>6. EndsWith(new, rs, Len(rs) + 1, l, o)
      BY <1>1, <2>2, <2>3, <2>4, <2>5 DEF EndsWith, IsTable
    <2> QED BY <2>6 DEF new
  <1> QED BY <1>2, <1>3

\* Writing an instruction at line l keeps the line table right.
LEMMA Written ==
  ASSUME NEW c, NEW l \in Nat, LinesOK(c, l), NEW i \in Instr, l <= i.line
  PROVE  /\ LinesOK(Write(c, i), i.line)
         /\ Write(c, i).code = Append(c.code, i)
  <1> DEFINE new == Write(c, i)
             code == c.code
             rs == c.ranges
             last == Len(rs)
             o == Count(code) + i.width - 1
             d == new.code
             ns == new.ranges
  <1>1. /\ c \in [code : Seq(Instr), ranges : Seq(LineRange)] /\ IsTable(rs)
        /\ code \in Seq(Instr) /\ rs \in Seq(LineRange)
        /\ \A n \in 1 .. Len(code) : code[n].line <= l
        /\ \A n \in 1 .. Len(rs) : rs[n].line <= l
    BY DEF LinesOK
  <1>2. /\ Len(code) \in Nat /\ \A n \in 1 .. Len(code) : code[n].line \in Nat
        /\ i.width \in Nat \ {0} /\ i.line \in Nat \ {0}
    BY <1>1, CodeIs, InstrIs
  <1>3. /\ Len(rs) \in Nat /\ (rs # <<>> => Len(rs) # 0)
        /\ \A n \in 1 .. Len(rs) : rs[n].offset \in Nat /\ rs[n].line \in Nat
    BY <1>1, TableIs
  <1>4. /\ Count(code) \in Nat /\ \A n \in 1 .. Len(code) : Ends(code)[n] \in Nat
        /\ \A n \in 1 .. Len(code) : Ends(code)[n] <= Count(code)
        /\ \A n \in 1 .. Len(code) : Ends(code)[n] - 1 \in Nat
    <2>1. Count(code) = Ends(code)[Len(code)] /\ Ends(code)[0] = 0
      BY <1>1, EndsAre
    <2>2. /\ \A n \in 0 .. Len(code) : Ends(code)[n] \in Nat
          /\ \A n \in 0 .. Len(code), m \in 0 .. Len(code) : m < n => Ends(code)[m] < Ends(code)[n]
      BY <1>1, EndsGrow
    <2>3. ASSUME NEW n \in 1 .. Len(code)
          PROVE  Ends(code)[n] <= Count(code) /\ Ends(code)[n] - 1 \in Nat
      <3>1. n \in 0 .. Len(code) /\ 0 \in 0 .. Len(code) /\ Len(code) \in 0 .. Len(code) /\ 0 < n
        BY <1>2
      <3>2. Ends(code)[n] \in Nat /\ Ends(code)[0] < Ends(code)[n]
        BY <2>2, <3>1
      <3>3. n = Len(code) \/ n < Len(code)
        BY <1>2
      <3>4. Ends(code)[n] <= Count(code)
        BY <2>1, <2>2, <3>1, <3>2, <3>3
      <3> QED BY <2>1, <3>2, <3>4
    <2> QED BY <1>2, <2>1, <2>2, <2>3
  <1>5. d = Append(code, i) /\ ns = WriteLine(rs, i.line, o) /\ new = [code |-> d, ranges |-> ns]
    BY DEF Write
  <1>6. rs = <<>> \/ (rs[last].offset <= Count(code) /\ Count(code) <= rs[last].offset + 1)
    BY DEF LinesOK, Covers
  <1>7. rs = <<>> => code = <<>>
    BY DEF LinesOK, Covers
  <1>8. Fits(rs, code) /\ Behind(rs, code)
    BY DEF LinesOK
  <1> HIDE DEF new, d, ns, code, rs
  <1>9. o \in Nat /\ Count(code) <= o /\ o = Count(code) + i.width - 1
    BY <1>2, <1>4
  <1>10. last \in Nat /\ (rs # <<>> => last \in 1 .. Len(rs) /\ rs[last].offset <= o)
    BY <1>3, <1>4, <1>6, <1>9
  <1> HIDE DEF o
  <1>11. /\ d \in Seq(Instr) /\ Len(d) = Len(code) + 1
         /\ \A m \in 1 .. Len(code) : d[m] = code[m]
         /\ d[Len(code) + 1] = i
         /\ \A m \in 0 .. Len(code) : Ends(d)[m] = Ends(code)[m]
         /\ Count(d) = Count(code) + i.width
    <2>1. code \in Seq(Instr) /\ d = Append(code, i)
      BY <1>1, <1>5
    <2>2. Longer(d, code, i)
      BY <2>1, AppendIs
    <2> QED BY <2>2 DEF Longer
  <1>12. Ends(d)[Len(code) + 1] = o + 1
    <2>1. Count(d) = Ends(d)[Len(d)]
      BY <1>11, EndsAre
    <2> QED BY <1>2, <1>4, <1>9, <1>11, <2>1
  <1>13. \/ /\ rs # <<>> /\ rs[last].line = i.line
            /\ EndsWith(ns, rs, last, i.line, o)
         \/ EndsWith(ns, rs, last + 1, i.line, o)
    BY <1>1, <1>2, <1>5, <1>9, <1>10, LineWritten
  <1>14. PICK k \in {last, last + 1} :
           /\ EndsWith(ns, rs, k, i.line, o)
           /\ k = last => rs # <<>> /\ rs[last].line = i.line
    BY <1>10, <1>13
  <1>15. /\ IsTable(ns) /\ Len(ns) = k /\ k \in Nat /\ k # 0
         /\ ns[k].line = i.line /\ ns[k].offset = o
         /\ \A j \in 1 .. k - 1 : j \in 1 .. Len(rs) /\ ns[j] = rs[j]
    BY <1>10, <1>14 DEF EndsWith
  <1> HIDE DEF last
  <1>16. ASSUME NEW n \in 1 .. Len(d), NEW j \in 1 .. Len(ns), Candidate(ns, Ends(d)[n] - 1, j)
         PROVE  Right(ns[j].line, d[n])
    <2>1. j \in 1 .. k /\ (j = k \/ j \in 1 .. k - 1)
      BY <1>15
    <2>2. CASE n = Len(code) + 1
      <3>1. d[n] = i /\ Ends(d)[n] - 1 = o
        BY <1>9, <1>11, <1>12, <2>2
      <3>2. CASE j = k
        BY <1>2, <1>15, <3>1, <3>2 DEF Right
      <3>3. CASE j \in 1 .. k - 1
        <4>1. ns[j] = rs[j] /\ j \in 1 .. Len(rs) /\ rs[j].offset >= o /\ j <= last
          BY <1>3, <1>15, <1>16, <3>1, <3>3 DEF Candidate, last
        <4>2. rs[j].offset <= rs[last].offset /\ rs # <<>>
          <5>1. last \in 1 .. Len(rs) /\ rs # <<>>
            <6>1. Len(rs) # 0
              BY <1>3, <4>1
            <6> QED BY <1>3, <6>1, EmptySeq DEF last
          <5>2. \A a, b \in 1 .. Len(rs) : a < b => rs[a].offset <= rs[b].offset
            BY <1>1, TableIs
          <5>3. j = last \/ j < last
            BY <1>3, <4>1 DEF last
          <5> QED BY <1>3, <4>1, <5>1, <5>2, <5>3
        <4>3. o <= Count(code)
          BY <1>3, <1>4, <1>6, <1>9, <1>10, <4>1, <4>2
        <4>4. i.width = 1
          BY <1>2, <1>4, <1>9, <4>3
        <4>5. ns[j].line <= i.line
          BY <1>1, <1>2, <1>3, <4>1
        <4> QED BY <3>1, <4>4, <4>5 DEF Right
      <3> QED BY <2>1, <3>2, <3>3
    <2>3. CASE n \in 1 .. Len(code)
      <3> DEFINE b == Ends(code)[n] - 1
      <3>1. /\ d[n] = code[n] /\ Ends(d)[n] = Ends(code)[n]
            /\ b \in Nat /\ b < Count(code) /\ Candidate(ns, b, j)
        BY <1>2, <1>4, <1>11, <1>16, <2>3
      <3> HIDE DEF b
      <3>2. rs # <<>> /\ last \in 1 .. Len(rs) /\ rs[last].offset >= b
        <4>1. Len(code) # 0
          BY <1>2, <2>3
        <4>2. rs # <<>>
          BY <1>7, <4>1, EmptySeq
        <4> QED BY <1>3, <1>4, <1>6, <1>10, <3>1, <4>2
      <3>3. ASSUME j \in 1 .. Len(rs), Candidate(rs, b, j), ns[j].line = rs[j].line
            PROVE  Right(ns[j].line, d[n])
        BY <1>8, <2>3, <3>1, <3>3 DEF Fits, b
      <3>4. CASE j \in 1 .. k - 1
        <4>1. /\ j \in 1 .. Len(rs) /\ ns[j] = rs[j]
              /\ \A a \in 1 .. j - 1 : a \in 1 .. k - 1
          BY <1>15, <3>4
        <4>2. \A a \in 1 .. j - 1 : ns[a] = rs[a]
          BY <1>15, <4>1
        <4>3. Candidate(rs, b, j)
          BY <3>1, <4>1, <4>2 DEF Candidate
        <4> QED BY <3>3, <4>1, <4>3
      <3>5. CASE j = k
        <4>1. o # b
          BY <1>4, <1>9, <3>1
        <4>2. \A a \in 1 .. k - 1 : rs[a].offset < b /\ ns[a] = rs[a]
          BY <1>15, <3>1, <3>5, <4>1 DEF Candidate
        <4>3. k = last
          <5>1. ASSUME k = last + 1 PROVE FALSE
            <6>1. last \in 1 .. k - 1
              BY <1>3, <3>2, <5>1
            <6> QED BY <1>3, <3>1, <3>2, <4>2, <6>1
          <5> QED BY <5>1
        <4>4. Candidate(rs, b, j)
          BY <3>2, <3>5, <4>2, <4>3 DEF Candidate
        <4>5. ns[j].line = rs[j].line /\ j \in 1 .. Len(rs)
          BY <1>14, <1>15, <3>2, <3>5, <4>3
        <4> QED BY <3>3, <4>4, <4>5
      <3> QED BY <2>1, <3>4, <3>5
    <2> QED BY <1>2, <1>11, <2>2, <2>3
  <1>17. \A n \in 1 .. Len(d) : d[n].line <= i.line
    <2>1. ASSUME NEW n \in 1 .. Len(code)
          PROVE  d[n].line <= i.line
      <3>1. d[n] = code[n]
        BY <1>11
      <3>2. code[n].line \in Nat /\ i.line \in Nat
        BY <1>2
      <3>3. code[n].line <= l
        BY <1>1
      <3> QED BY <3>1, <3>2, <3>3
    <2> QED BY <1>2, <1>11, <2>1
  <1>18. \A n \in 1 .. Len(ns) : ns[n].line <= i.line
    <2>1. ASSUME NEW n \in 1 .. k - 1
          PROVE  ns[n].line <= i.line
      BY <1>1, <1>2, <1>3, <1>15
    <2> QED BY <1>2, <1>15, <2>1
  <1>19. Covers(ns, d)
    <2>1. ns # <<>>
      BY <1>15, EmptySeq
    <2> QED BY <1>2, <1>4, <1>9, <1>11, <1>15, <2>1 DEF Covers
  <1>20. new \in [code : Seq(Instr), ranges : Seq(LineRange)] /\ new.code = d /\ new.ranges = ns
    BY <1>5, <1>11, <1>15 DEF IsTable
  <1>21. Fits(ns, d)
    BY <1>16 DEF Fits
  <1>22. Behind(ns, d)
    <2> SUFFICES ASSUME NEW j \in 1 .. Len(ns), NEW n \in 1 .. Len(d),
                        ns[j].offset >= Ends(d)[n]
                 PROVE  d[n].line <= ns[j].line
      BY DEF Behind
    <2>1. CASE j = k
      BY <1>15, <1>17, <2>1
    <2>2. CASE j # k
      <3>1. j \in 1 .. k - 1 /\ k \in 1 .. Len(ns) /\ j < k
        BY <1>15, <2>2
      <3>2. ns[j].offset <= o /\ ns[j].offset \in Nat
        BY <1>15, <3>1, TableIs
      <3>3. n # Len(code) + 1
        BY <1>9, <1>12, <3>2
      <3>4. n \in 1 .. Len(code)
        BY <1>2, <1>11, <3>3
      <3>5. d[n] = code[n] /\ Ends(d)[n] = Ends(code)[n] /\ j \in 1 .. Len(rs) /\ ns[j] = rs[j]
        BY <1>2, <1>11, <1>15, <3>1, <3>4
      <3> QED BY <1>8, <3>4, <3>5 DEF Behind
    <2> QED BY <2>1, <2>2
  <1> QED BY <1>5, <1>15, <1>17, <1>18, <1>19, <1>20, <1>21, <1>22 DEF LinesOK, new, code

\* lineArray_fallback leaves the table, or ends it with the first range behind
\* the m bytes.
LEMMA LineFallen ==
  ASSUME NEW rs, IsTable(rs), NEW m \in Nat
  PROVE  \/ FallLines(rs, m) = rs /\ (rs = <<>> \/ rs[Len(rs)].offset <= m)
         \/ \E k \in 1 .. Len(rs) :
              /\ rs[k].offset > m
              /\ EndsWith(FallLines(rs, m), rs, k, rs[k].line, m)
  <1>1. /\ rs \in Seq(LineRange) /\ Len(rs) \in Nat /\ (rs # <<>> => Len(rs) # 0)
        /\ \A i \in 1 .. Len(rs) : rs[i] \in LineRange /\ rs[i].offset \in Nat
        /\ DOMAIN rs = 1 .. Len(rs)
    <2>1. rs \in Seq(LineRange)
      BY DEF IsTable
    <2>2. DOMAIN rs = 1 .. Len(rs)
      BY <2>1, LenProperties
    <2> QED BY <2>1, <2>2, TableIs, ElementOfSeq
  <1>2. CASE rs = <<>> \/ m >= Last(rs).offset
    <2>1. FallLines(rs, m) = rs
      BY <1>2 DEF FallLines
    <2>2. rs = <<>> \/ rs[Len(rs)].offset <= m
      <3>1. CASE rs # <<>>
        <4>1. rs[Len(rs)].offset \in Nat
          BY <1>1, <3>1
        <4> QED BY <1>2, <3>1, <4>1 DEF Last
      <3> QED BY <3>1
    <2> QED BY <2>1, <2>2
  <1>3. CASE ~(rs = <<>> \/ m >= Last(rs).offset)
    <2> DEFINE D == {i \in DOMAIN rs : rs[i].offset > m}
               k == Min(D)
               kept == SubSeq(rs, 1, k)
               new == FallLines(rs, m)
    <2>1. Len(rs) \in 1 .. Len(rs) /\ rs[Len(rs)].offset > m
      <3>1. Len(rs) \in 1 .. Len(rs)
        BY <1>1, <1>3
      <3>2. rs[Len(rs)].offset \in Nat
        BY <1>1, <3>1
      <3> QED BY <1>3, <3>1, <3>2 DEF Last
    <2>2. D \subseteq Nat /\ D # {}
      BY <1>1, <2>1
    <2>3. k \in D /\ \A i \in D : k <= i
      <3> HIDE DEF D
      <3>1. PICK d \in D : \A i \in D : d <= i
        BY <2>2, LeastNat
      <3> QED BY <3>1 DEF Min
    <2>4. k \in 1 .. Len(rs) /\ rs[k].offset > m
      BY <1>1, <2>3
    <2>5. \A i \in 1 .. Len(rs) : i < k => rs[i].offset <= m
      <3> SUFFICES ASSUME NEW i \in 1 .. Len(rs), i < k PROVE rs[i].offset <= m
        OBVIOUS
      <3>1. i \notin D
        <4> HIDE DEF D
        <4>1. ~(k <= i)
          BY <1>1, <2>4
        <4> QED BY <2>3, <4>1
      <3> QED BY <1>1, <3>1
    <2> HIDE DEF D, k
    <2>6. /\ kept \in Seq(LineRange) /\ Len(kept) = k
          /\ \A i \in 1 .. k : kept[i] = rs[i]
      <3>1. k \in Nat /\ k <= Len(rs) /\ 1 <= k
        BY <1>1, <2>4
      <3>2. 1 \in Int /\ k \in Int /\ \A i \in 1 .. k : rs[i] \in LineRange
        BY <1>1, <3>1
      <3>3. /\ kept \in Seq(LineRange) /\ Len(kept) = (IF 1 <= k THEN k - 1 + 1 ELSE 0)
            /\ \A i \in 1 .. k - 1 + 1 : kept[i] = rs[1 + i - 1]
        BY <3>2, SubSeqProperties
      <3> HIDE DEF kept
      <3> QED BY <3>1, <3>3
    <2>7. new = SetEnd(kept, Len(kept), m)
      BY <1>3 DEF FallLines, Kept, SetEnd, k, D
    <2> HIDE DEF kept, new
    <2>8. k \in 1 .. Len(kept)
      BY <2>4, <2>6
    <2>9. /\ new \in Seq(LineRange) /\ Len(new) = k
          /\ new[k].line = kept[k].line /\ new[k].offset = m
          /\ \A i \in 1 .. k : i # k => new[i] = kept[i]
      <3>1. kept \in Seq(LineRange) /\ new = SetEnd(kept, k, m)
        BY <2>6, <2>7
      <3>2. /\ new \in Seq(LineRange) /\ Len(new) = Len(kept)
            /\ new[k].line = kept[k].line /\ new[k].offset = m
            /\ \A i \in 1 .. Len(kept) : i # k => new[i] = kept[i]
        BY <2>8, <3>1, OffsetSet
      <3> QED BY <2>6, <3>2
    <2>10. k \in Nat /\ k # 0 /\ k <= Len(rs)
      BY <1>1, <2>4
    <2>11. \A i \in 1 .. k - 1 : i \in 1 .. Len(rs) /\ new[i] = rs[i] /\ rs[i].offset <= m
      <3> SUFFICES ASSUME NEW i \in 1 .. k - 1
                   PROVE  i \in 1 .. Len(rs) /\ new[i] = rs[i] /\ rs[i].offset <= m
        OBVIOUS
      <3>1. i \in 1 .. Len(rs) /\ i \in 1 .. k /\ i # k /\ i < k
        BY <1>1, <2>10
      <3> QED BY <2>5, <2>6, <2>9, <3>1
    <2>12. new[k].line = rs[k].line
      BY <2>6, <2>9, <2>10
    <2>13. ASSUME NEW i \in 1 .. k, NEW j \in 1 .. k, i < j
           PROVE  new[i].offset <= new[j].offset
      <3>1. i \in 1 .. k - 1
        BY <2>10, <2>13
      <3>2. CASE j = k
        BY <2>9, <2>11, <3>1, <3>2
      <3>3. CASE j # k
        <4>1. j \in 1 .. k - 1
          BY <2>10, <3>3
        <4>2. \A a, b \in 1 .. Len(rs) : a < b => rs[a].offset <= rs[b].offset
          BY TableIs
        <4> QED BY <2>11, <2>13, <3>1, <4>1, <4>2
      <3> QED BY <3>2, <3>3
    <2>14. EndsWith(new, rs, k, rs[k].line, m)
      <3>1. IsTable(new)
        BY <2>9, <2>13 DEF IsTable
      <3> QED BY <2>9, <2>10, <2>11, <2>12, <3>1 DEF EndsWith
    <2> QED BY <2>4, <2>14 DEF new
  <1> QED BY <1>2, <1>3

\* Taking back the last n instructions keeps the line table right.
LEMMA Fallen ==
  ASSUME NEW c, NEW l \in Nat, LinesOK(c, l), NEW n \in 0 .. Len(c.code)
  PROVE  /\ LinesOK(Fallback(c, n), l)
         /\ Fallback(c, n).code = SubSeq(c.code, 1, Len(c.code) - n)
  <1> DEFINE new == Fallback(c, n)
             code == c.code
             rs == c.ranges
             last == Len(rs)
             left == Len(code) - n
             d == new.code
             ns == new.ranges
             m == Count(d)
  <1>1. /\ c \in [code : Seq(Instr), ranges : Seq(LineRange)] /\ IsTable(rs)
        /\ code \in Seq(Instr) /\ rs \in Seq(LineRange)
        /\ \A j \in 1 .. Len(code) : code[j].line <= l
        /\ \A j \in 1 .. Len(rs) : rs[j].line <= l
        /\ Covers(rs, code) /\ Fits(rs, code) /\ Behind(rs, code)
    BY DEF LinesOK
  <1>2. d = SubSeq(code, 1, left) /\ ns = FallLines(rs, m) /\ new = [code |-> d, ranges |-> ns]
    BY DEF Fallback
  <1>3. n \in 0 .. Len(code)
    OBVIOUS
  <1> HIDE DEF new, d, ns, code, rs
  <1>4. left \in 0 .. Len(code) /\ Len(code) \in Nat
    BY <1>1, <1>3, CodeIs
  <1> HIDE DEF left
  <1>5. /\ d \in Seq(Instr) /\ Len(d) = left
        /\ \A j \in 1 .. left : d[j] = code[j]
        /\ \A j \in 0 .. left : Ends(d)[j] = Ends(code)[j]
        /\ Count(d) = Ends(code)[left]
    <2>1. code \in Seq(Instr)
      BY <1>1
    <2>2. Prefix(d, code, left)
      BY <1>2, <1>4, <2>1, PrefixIs
    <2> QED BY <2>2 DEF Prefix
  <1>6. /\ m \in Nat /\ m <= Count(code) /\ Count(code) \in Nat
        /\ \A j \in 1 .. Len(d) : Ends(d)[j] - 1 \in Nat /\ Ends(d)[j] - 1 < m
    <2>1. /\ Count(code) = Ends(code)[Len(code)] /\ Count(d) = Ends(d)[Len(d)] /\ Ends(d)[0] = 0
      BY <1>1, <1>5, EndsAre
    <2>2. /\ \A j \in 0 .. Len(code) : Ends(code)[j] \in Nat
          /\ \A i, j \in 0 .. Len(code) : i < j => Ends(code)[i] < Ends(code)[j]
      BY <1>1, EndsGrow
    <2>3. /\ \A j \in 0 .. Len(d) : Ends(d)[j] \in Nat
          /\ \A i, j \in 0 .. Len(d) : i < j => Ends(d)[i] < Ends(d)[j]
      BY <1>5, EndsGrow
    <2>4. m \in Nat /\ m <= Count(code) /\ Count(code) \in Nat
      <3>1. Len(code) \in 0 .. Len(code) /\ (left = Len(code) \/ left < Len(code))
        BY <1>4
      <3>2. Ends(code)[left] \in Nat /\ Ends(code)[Len(code)] \in Nat
        BY <1>4, <2>2, <3>1
      <3>3. Ends(code)[left] <= Ends(code)[Len(code)]
        BY <1>4, <2>2, <3>1, <3>2
      <3> QED BY <1>5, <2>1, <3>2, <3>3
    <2>5. ASSUME NEW j \in 1 .. Len(d)
          PROVE  Ends(d)[j] - 1 \in Nat /\ Ends(d)[j] - 1 < m
      <3>1. /\ j \in 0 .. Len(d) /\ 0 \in 0 .. Len(d) /\ Len(d) \in 0 .. Len(d) /\ 0 < j
            /\ (j = Len(d) \/ j < Len(d))
        BY <1>4, <1>5
      <3>2. Ends(d)[j] \in Nat /\ Ends(d)[0] < Ends(d)[j]
        BY <2>3, <3>1
      <3>3. Ends(d)[j] <= Ends(d)[Len(d)]
        BY <2>3, <3>1, <3>2
      <3> QED BY <2>1, <2>4, <3>2, <3>3
    <2> QED BY <2>4, <2>5
  <1> HIDE DEF m
  <1>7. \A j \in 1 .. Len(d) : d[j].line <= l
    <2> SUFFICES ASSUME NEW j \in 1 .. left PROVE d[j].line <= l
      BY <1>5
    <2>1. j \in 1 .. Len(code) /\ d[j] = code[j]
      BY <1>4, <1>5
    <2>2. \A i \in 1 .. Len(code) : code[i].line <= l
      BY <1>1
    <2> QED BY <2>1, <2>2
  <1>8. CASE ns = rs /\ (rs = <<>> \/ rs[last].offset <= m)
    <2>1. Covers(ns, d)
      <3>1. CASE rs = <<>>
        <4>1. code = <<>>
          BY <1>1, <3>1 DEF Covers
        <4>2. Len(d) = 0
          BY <1>4, <1>5, <4>1, EmptySeq
        <4> QED BY <1>5, <1>8, <3>1, <4>2, EmptySeq DEF Covers
      <3>2. CASE rs # <<>>
        <4>1. rs[last].offset \in Nat
          BY <1>1, <3>2, TableIs
        <4>2. Count(code) <= rs[last].offset + 1
          BY <1>1, <3>2 DEF Covers
        <4> QED BY <1>6, <1>8, <3>2, <4>1, <4>2 DEF Covers, m
      <3> QED BY <3>1, <3>2
    <2>2. ASSUME NEW j \in 1 .. Len(d), NEW i \in 1 .. Len(ns), Candidate(ns, Ends(d)[j] - 1, i)
          PROVE  Right(ns[i].line, d[j])
      <3>1. j \in 1 .. Len(code) /\ d[j] = code[j] /\ Ends(d)[j] = Ends(code)[j]
        BY <1>4, <1>5
      <3> QED BY <1>1, <1>8, <2>2, <3>1 DEF Fits
    <2>3. Fits(ns, d)
      BY <2>2 DEF Fits
    <2>4. Behind(ns, d)
      <3> SUFFICES ASSUME NEW i \in 1 .. Len(rs), NEW j \in 1 .. Len(d),
                          rs[i].offset >= Ends(d)[j]
                   PROVE  d[j].line <= rs[i].line
        BY <1>8 DEF Behind
      <3>1. j \in 1 .. Len(code) /\ d[j] = code[j] /\ Ends(d)[j] = Ends(code)[j]
        BY <1>4, <1>5
      <3> QED BY <1>1, <3>1 DEF Behind
    <2>5. LinesOK(new, l)
      BY <1>1, <1>2, <1>5, <1>7, <1>8, <2>1, <2>3, <2>4 DEF LinesOK
    <2> QED BY <1>2, <2>5 DEF new, code, left
  <1>9. CASE \E k \in 1 .. Len(rs) : rs[k].offset > m /\ EndsWith(ns, rs, k, rs[k].line, m)
    <2>1. PICK k \in 1 .. Len(rs) : rs[k].offset > m /\ EndsWith(ns, rs, k, rs[k].line, m)
      BY <1>9
    <2>2. /\ IsTable(ns) /\ Len(ns) = k /\ k # 0 /\ ns[k].line = rs[k].line /\ ns[k].offset = m
          /\ \A i \in 1 .. k - 1 : i \in 1 .. Len(rs) /\ ns[i] = rs[i]
      BY <2>1 DEF EndsWith
    <2>3. Len(rs) \in Nat /\ \A i \in 1 .. Len(rs) : rs[i].offset \in Nat
      BY <1>1, TableIs
    <2>4. Covers(ns, d)
      <3>1. ns # <<>>
        BY <2>2, EmptySeq
      <3> QED BY <1>6, <2>2, <3>1 DEF Covers, m
    <2>5. \A i \in 1 .. Len(ns) : ns[i].line <= l
      <3> SUFFICES ASSUME NEW i \in 1 .. k PROVE ns[i].line <= l
        BY <2>2
      <3>1. i = k \/ i \in 1 .. k - 1
        BY <2>3
      <3>2. i \in 1 .. Len(rs) /\ ns[i].line = rs[i].line
        BY <2>2, <3>1
      <3>3. \A j \in 1 .. Len(rs) : rs[j].line <= l
        BY <1>1
      <3> QED BY <3>2, <3>3
    <2>6. ASSUME NEW j \in 1 .. Len(d), NEW i \in 1 .. Len(ns), Candidate(ns, Ends(d)[j] - 1, i)
          PROVE  Right(ns[i].line, d[j])
      <3> DEFINE b == Ends(d)[j] - 1
      <3>1. /\ j \in 1 .. Len(code) /\ d[j] = code[j] /\ b = Ends(code)[j] - 1
            /\ b \in Nat /\ b < m /\ Candidate(ns, b, i)
        BY <1>4, <1>5, <1>6, <2>6
      <3> HIDE DEF b
      <3>2. i \in 1 .. Len(rs) /\ \A a \in 1 .. i - 1 : a \in 1 .. k - 1
        BY <2>2, <2>3
      <3>3. \A a \in 1 .. i - 1 : ns[a] = rs[a]
        BY <2>2, <3>2
      <3>4. Candidate(rs, b, i) /\ ns[i].line = rs[i].line
        <4>1. CASE i = k
          <5>1. ns[i].offset # b /\ rs[i].offset >= b
            <6>1. rs[k].offset \in Nat
              BY <2>3
            <6> QED BY <1>6, <2>1, <2>2, <3>1, <4>1, <6>1
          <5>2. \A a \in 1 .. i - 1 : rs[a].offset < b
            BY <3>1, <3>3, <5>1 DEF Candidate
          <5> QED BY <2>2, <4>1, <5>1, <5>2 DEF Candidate
        <4>2. CASE i # k
          <5>1. i \in 1 .. k - 1
            BY <2>2, <2>3, <4>2
          <5>2. ns[i] = rs[i]
            BY <2>2, <5>1
          <5> QED BY <3>1, <3>3, <5>2 DEF Candidate
        <4> QED BY <4>1, <4>2
      <3>5. Right(rs[i].line, code[j])
        BY <1>1, <3>1, <3>2, <3>4 DEF Fits
      <3> QED BY <3>1, <3>4, <3>5
    <2>7. Fits(ns, d)
      BY <2>6 DEF Fits
    <2>8. Behind(ns, d)
      <3> SUFFICES ASSUME NEW i \in 1 .. Len(ns), NEW j \in 1 .. Len(d),
                          ns[i].offset >= Ends(d)[j]
                   PROVE  d[j].line <= ns[i].line
        BY DEF Behind
      <3>1. /\ j \in 1 .. Len(code) /\ d[j] = code[j] /\ Ends(d)[j] = Ends(code)[j]
            /\ Ends(d)[j] - 1 \in Nat
        BY <1>4, <1>5, <1>6
      <3>2. i \in 1 .. Len(rs) /\ ns[i].line = rs[i].line /\ rs[i].offset >= Ends(code)[j]
        <4>1. CASE i = k
          <5>1. m >= Ends(d)[j]
            BY <2>2, <4>1
          <5>2. rs[k].offset \in Nat /\ rs[k].offset > m /\ m \in Nat
            BY <1>6, <2>1, <2>3
          <5>3. Ends(code)[j] \in Nat /\ m >= Ends(code)[j]
            <6>1. j \in 0 .. Len(code) /\ m >= Ends(code)[j]
              BY <1>4, <3>1, <5>1
            <6>2. \A a \in 0 .. Len(code) : Ends(code)[a] \in Nat
              BY <1>1, EndsGrow
            <6> QED BY <6>1, <6>2
          <5>4. rs[k].offset >= Ends(code)[j]
            BY <5>2, <5>3
          <5> QED BY <2>1, <2>2, <4>1, <5>4
        <4>2. CASE i # k
          <5>1. i \in 1 .. k - 1
            BY <2>2, <2>3, <4>2
          <5>2. i \in 1 .. Len(rs) /\ ns[i] = rs[i]
            BY <2>2, <5>1
          <5> QED BY <3>1, <5>2
        <4> QED BY <4>1, <4>2
      <3> QED BY <1>1, <3>1, <3>2 DEF Behind
    <2>9. LinesOK(new, l)
      BY <1>2, <1>5, <1>7, <2>2, <2>4, <2>5, <2>7, <2>8 DEF LinesOK, IsTable
    <2> QED BY <1>2, <2>9 DEF new, code, left
  <1>10. \/ ns = rs /\ (rs = <<>> \/ rs[last].offset <= m)
         \/ \E k \in 1 .. Len(rs) : rs[k].offset > m /\ EndsWith(ns, rs, k, rs[k].line, m)
    BY <1>1, <1>2, <1>6, LineFallen
  <1> QED BY <1>8, <1>9, <1>10

-----------------------------------------------------------------------------
(* Pools                                                                   *)

Entry == [key : Constants \union {NoKey}, index : Nat]

\* es is an array of entries; one without a key is a hole.
IsPool(es) ==
  /\ es \in Seq(Entry)
  /\ \A i \in 1 .. Len(es) : es[i].key = NoKey => es[i] = Hole

HasHole(es) == \E i \in 1 .. Len(es) : es[i] = Hole

\* No key occurs twice.
Unique(es) == \A i \in Valid(es), j \in Valid(es) : es[i].key = es[j].key => i = j

\* Slot i is the d-th that a search for k looks at, and it meets no hole before.
Reaches(es, k, d, i) ==
  /\ d \in 0 .. Len(es) - 1
  /\ Slot(es, k, d) = i
  /\ \A c \in 0 .. d - 1 : es[Slot(es, k, c)] # Hole

Searchable(es) ==
  /\ IsPool(es)
  /\ Unique(es)
  /\ \A i \in Valid(es) : \E d \in Nat : Reaches(es, es[i].key, d, i)

\* An interval that begins with 1 has one end.
LEMMA SameInterval ==
  ASSUME NEW a \in Nat, NEW b \in Nat, 1 .. a = 1 .. b
  PROVE  a = b
  <1>1. ASSUME a < b PROVE FALSE
    <2>1. b \in 1 .. b /\ b \notin 1 .. a
      BY <1>1
    <2> QED BY <2>1
  <1>2. ASSUME b < a PROVE FALSE
    <2>1. a \in 1 .. a /\ a \notin 1 .. b
      BY <1>2
    <2> QED BY <2>1
  <1> QED BY <1>1, <1>2

\* What a pool is made of.
LEMMA PoolIs ==
  ASSUME NEW es, IsPool(es)
  PROVE  /\ Len(es) \in Nat /\ DOMAIN es = 1 .. Len(es) /\ (es # <<>> => Len(es) # 0)
         /\ \A i \in 1 .. Len(es) :
               /\ es[i] \in Entry /\ es[i].index \in Nat
               /\ i \in Valid(es) <=> es[i] # Hole
               /\ i \in Valid(es) <=> es[i].key # NoKey
               /\ i \in Valid(es) => es[i].key \in Constants
         /\ Valid(es) \subseteq 1 .. Len(es)
  <1>1. es \in Seq(Entry) /\ \A i \in 1 .. Len(es) : es[i].key = NoKey => es[i] = Hole
    BY DEF IsPool
  <1>2. Len(es) \in Nat /\ DOMAIN es = 1 .. Len(es) /\ (es # <<>> => Len(es) # 0)
    <2>1. Len(es) \in Nat /\ DOMAIN es = 1 .. Len(es)
      BY <1>1, LenProperties
    <2> QED BY <1>1, <2>1, EmptySeq
  <1>3. \A i \in 1 .. Len(es) : es[i] \in Entry
    BY <1>1, ElementOfSeq
  <1>4. /\ Hole.key = NoKey
        /\ \A e \in Entry : e.index \in Nat /\ (e.key # NoKey => e.key \in Constants)
    BY DEF Hole, Entry
  <1>5. ASSUME NEW i \in 1 .. Len(es)
        PROVE  /\ i \in Valid(es) <=> es[i] # Hole
               /\ i \in Valid(es) <=> es[i].key # NoKey
    BY <1>1, <1>2, <1>4 DEF Valid
  <1>6. Valid(es) \subseteq 1 .. Len(es)
    BY <1>2 DEF Valid
  <1> QED BY <1>2, <1>3, <1>4, <1>5, <1>6

\* A search looks at slots of the pool,
LEMMA SlotIn ==
  ASSUME NEW es, Len(es) \in Nat \ {0}, NEW k \in Constants, NEW d \in Nat
  PROVE  Slot(es, k, d) \in 1 .. Len(es)
  <1>1. Hash[k] + d \in Nat
    BY HashAssumption
  <1>2. (Hash[k] + d) % Len(es) \in 0 .. Len(es) - 1
    BY <1>1, Remainder
  <1>3. \A r \in 0 .. Len(es) - 1 : r + 1 \in 1 .. Len(es)
    OBVIOUS
  <1> QED BY <1>2, <1>3 DEF Slot, Size

\* and, given time, at each of them.
LEMMA SlotReaches ==
  ASSUME NEW es, Len(es) \in Nat, NEW k \in Constants, NEW h \in 1 .. Len(es)
  PROVE  \E d \in 0 .. Len(es) - 1 : Slot(es, k, d) = h
  <1> DEFINE n == Len(es)
             a == Hash[k]
  <1>1. a \in Nat /\ n \in Nat \ {0} /\ h - 1 \in 0 .. n - 1
    BY HashAssumption
  <1>2. \E d \in 0 .. n - 1 : (a + d) % n = h - 1
    <2> HIDE DEF n, a
    <2> QED BY <1>1, RemainderReached
  <1>3. PICK d \in 0 .. n - 1 : (a + d) % n = h - 1
    BY <1>2
  <1>4. Slot(es, k, d) = (h - 1) + 1
    BY <1>3 DEF Slot, Size
  <1>5. (h - 1) + 1 = h
    OBVIOUS
  <1> QED BY <1>3, <1>4, <1>5

\* A search ends, if the pool has a hole: at the first slot with the key or a hole.
LEMMA FindIs ==
  ASSUME NEW es, IsPool(es), HasHole(es), NEW v \in Constants
  PROVE  \E d \in 0 .. Len(es) - 1 :
           /\ Slot(es, v, d) = FindEntry(es, v) /\ FindEntry(es, v) \in 1 .. Len(es)
           /\ es[FindEntry(es, v)].key \in {v, NoKey}
           /\ \A c \in 0 .. d - 1 : es[Slot(es, v, c)].key \notin {v, NoKey}
  <1> DEFINE D == {d \in 0 .. Len(es) - 1 : es[Slot(es, v, d)].key \in {v, NoKey}}
             s == Min(D)
  <1>1. Len(es) \in Nat
    BY PoolIs
  <1>2. PICK h \in 1 .. Len(es) : es[h] = Hole
    BY DEF HasHole
  <1>3. PICK d \in 0 .. Len(es) - 1 : Slot(es, v, d) = h
    BY <1>1, SlotReaches
  <1>4. D \subseteq Nat /\ D # {}
    BY <1>1, <1>2, <1>3 DEF Hole
  <1>5. s \in D /\ \A c \in D : s <= c
    <2> HIDE DEF D
    <2>1. PICK x \in D : \A c \in D : x <= c
      BY <1>4, LeastNat
    <2> QED BY <2>1 DEF Min
  <1>6. FindEntry(es, v) = Slot(es, v, s)
    BY DEF FindEntry, Size
  <1> HIDE DEF s
  <1>7. s \in 0 .. Len(es) - 1 /\ es[Slot(es, v, s)].key \in {v, NoKey}
    BY <1>5
  <1>8. ASSUME NEW c \in 0 .. s - 1
        PROVE  es[Slot(es, v, c)].key \notin {v, NoKey}
    <2>1. c \in 0 .. Len(es) - 1 /\ ~(s <= c)
      BY <1>1, <1>7
    <2>2. c \notin D
      <3> HIDE DEF D
      <3> QED BY <1>5, <2>1
    <2> QED BY <2>1, <2>2
  <1>9. Slot(es, v, s) \in 1 .. Len(es)
    <2>1. Len(es) \in Nat \ {0} /\ s \in Nat
      BY <1>1, <1>7
    <2> QED BY <2>1, SlotIn
  <1> QED BY <1>6, <1>7, <1>8, <1>9

\* A search for a key that is there ends where the key is.
LEMMA FindPresent ==
  ASSUME NEW es, Searchable(es), HasHole(es), NEW i \in Valid(es)
  PROVE  FindEntry(es, es[i].key) = i
  <1> DEFINE k == es[i].key
             f == FindEntry(es, k)
  <1>1. IsPool(es) /\ Unique(es)
    BY DEF Searchable
  <1>2. i \in 1 .. Len(es) /\ k \in Constants /\ Len(es) \in Nat
    BY <1>1, PoolIs
  <1>3. PICK d \in Nat : Reaches(es, k, d, i)
    BY DEF Searchable
  <1>4. PICK s \in 0 .. Len(es) - 1 :
           /\ Slot(es, k, s) = f /\ f \in 1 .. Len(es)
           /\ es[f].key \in {k, NoKey}
           /\ \A c \in 0 .. s - 1 : es[Slot(es, k, c)].key \notin {k, NoKey}
    BY <1>1, <1>2, FindIs
  <1> HIDE DEF f
  <1>5. s <= d
    <2>1. es[Slot(es, k, d)].key = k
      BY <1>3 DEF Reaches
    <2>2. d \notin 0 .. s - 1
      BY <1>4, <2>1
    <2> QED BY <1>2, <2>2
  <1>6. es[f].key = k
    <2>1. CASE s = d
      BY <1>3, <1>4, <2>1 DEF Reaches
    <2>2. CASE s < d
      <3>1. s \in 0 .. d - 1
        BY <2>2
      <3>2. es[f] # Hole
        BY <1>3, <1>4, <3>1 DEF Reaches
      <3> QED BY <1>1, <1>4, <3>2, PoolIs
    <2> QED BY <1>2, <1>5, <2>1, <2>2
  <1>7. f \in Valid(es)
    <2>1. k # NoKey
      BY <1>2, HashAssumption
    <2> QED BY <1>1, <1>4, <1>6, <2>1, PoolIs
  <1>8. f = i
    BY <1>1, <1>6, <1>7 DEF Unique
  <1> QED BY <1>8 DEF f

\* A search for a key that is not there ends at a hole.
LEMMA FindAbsent ==
  ASSUME NEW es, IsPool(es), HasHole(es), NEW v \in Constants,
         \A i \in Valid(es) : es[i].key # v
  PROVE  /\ FindEntry(es, v) \in 1 .. Len(es)
         /\ es[FindEntry(es, v)] = Hole
         /\ \E d \in Nat : Reaches(es, v, d, FindEntry(es, v))
  <1> DEFINE f == FindEntry(es, v)
  <1>1. PICK s \in 0 .. Len(es) - 1 :
           /\ Slot(es, v, s) = f /\ f \in 1 .. Len(es)
           /\ es[f].key \in {v, NoKey}
           /\ \A c \in 0 .. s - 1 : es[Slot(es, v, c)].key \notin {v, NoKey}
    BY FindIs
  <1>2. Len(es) \in Nat
    BY PoolIs
  <1> HIDE DEF f
  <1>3. es[f] = Hole
    <2>1. f \notin Valid(es)
      <3>1. ASSUME f \in Valid(es) PROVE FALSE
        BY <1>1, <3>1, PoolIs
      <3> QED BY <3>1
    <2> QED BY <1>1, <2>1, PoolIs
  <1>4. \A c \in 0 .. s - 1 : es[Slot(es, v, c)] # Hole
    BY <1>1 DEF Hole
  <1>5. Reaches(es, v, s, f) /\ s \in Nat
    BY <1>1, <1>2, <1>4 DEF Reaches
  <1> QED BY <1>1, <1>3, <1>5 DEF f

-----------------------------------------------------------------------------
(* Writing to a pool                                                       *)

Wrote(es, i, e) == [es EXCEPT ![i] = e]

\* new is es but for the entry e in place i.
Differs(new, es, i, e) ==
  /\ IsPool(new) /\ Len(new) = Len(es) /\ i \in 1 .. Len(es)
  /\ new[i] = e /\ \A j \in 1 .. Len(es) : j # i => new[j] = es[j]
  /\ \A k, d : Slot(new, k, d) = Slot(es, k, d)
  /\ Valid(new) = Valid(es) \union {i}

\* Writing an entry leaves a pool.
LEMMA WriteIs ==
  ASSUME NEW es, IsPool(es), NEW i \in 1 .. Len(es), NEW e \in Entry, e.key # NoKey
  PROVE  Differs(Wrote(es, i, e), es, i, e)
  <1> DEFINE new == Wrote(es, i, e)
  <1>1. es \in Seq(Entry) /\ \A j \in 1 .. Len(es) : es[j].key = NoKey => es[j] = Hole
    BY DEF IsPool
  <1>2. /\ new \in Seq(Entry) /\ Len(new) = Len(es)
        /\ \A j \in 1 .. Len(es) : new[j] = IF j = i THEN e ELSE es[j]
    BY <1>1, ExceptSeq DEF Wrote
  <1> HIDE DEF new
  <1>3. IsPool(new)
    BY <1>1, <1>2 DEF IsPool
  <1>4. \A k, d : Slot(new, k, d) = Slot(es, k, d)
    BY <1>2 DEF Slot, Size
  <1>5. Valid(new) = Valid(es) \union {i}
    <2>1. DOMAIN new = 1 .. Len(es) /\ DOMAIN es = 1 .. Len(es)
      BY <1>2, <1>3, PoolIs
    <2>2. e # Hole
      BY DEF Hole
    <2> QED BY <1>2, <2>1, <2>2 DEF Valid
  <1> QED BY <1>2, <1>3, <1>4, <1>5 DEF Differs, new

\* A search still reaches what it reached.
LEMMA ReachesStill ==
  ASSUME NEW es, IsPool(es), NEW new, NEW i, NEW e, e # Hole, Differs(new, es, i, e),
         NEW k \in Constants, NEW d \in Nat, NEW j, Reaches(es, k, d, j)
  PROVE  Reaches(new, k, d, j)
  <1>1. /\ Len(new) = Len(es)
        /\ new[i] = e /\ \A l \in 1 .. Len(es) : l # i => new[l] = es[l]
        /\ \A c : Slot(new, k, c) = Slot(es, k, c)
    BY DEF Differs
  <1>2. Len(es) \in Nat \ {0} /\ d \in 0 .. Len(es) - 1
    BY PoolIs DEF Reaches
  <1>3. ASSUME NEW c \in 0 .. d - 1
        PROVE  new[Slot(es, k, c)] # Hole
    <2>1. Slot(es, k, c) \in 1 .. Len(es)
      BY <1>2, SlotIn
    <2>2. es[Slot(es, k, c)] # Hole
      BY DEF Reaches
    <2> QED BY <1>1, <2>1, <2>2
  <1> QED BY <1>1, <1>2, <1>3 DEF Reaches

\* new is searchable and es but for the entry e in place i.
Changed(new, es, i, e) == Searchable(new) /\ Differs(new, es, i, e)

\* An entry written where it is reached leaves a searchable pool, if its key is
\* nowhere else.
LEMMA Writable ==
  ASSUME NEW es, Searchable(es), NEW i \in 1 .. Len(es), NEW e \in Entry, e.key \in Constants,
         \A j \in Valid(es) : es[j].key = e.key => j = i,
         \E d \in Nat : Reaches(es, e.key, d, i)
  PROVE  Changed(Wrote(es, i, e), es, i, e)
  <1> DEFINE new == Wrote(es, i, e)
  <1>1. IsPool(es) /\ Unique(es) /\ e.key # NoKey /\ e # Hole
    BY HashAssumption DEF Searchable, Hole
  <1>2. Differs(new, es, i, e)
    BY <1>1, WriteIs
  <1> HIDE DEF new
  <1>3. /\ IsPool(new) /\ Valid(new) = Valid(es) \union {i} /\ new[i] = e
        /\ \A j \in Valid(es) : j # i => new[j] = es[j]
    BY <1>1, <1>2, PoolIs DEF Differs
  <1>4. Unique(new)
    BY <1>1, <1>3 DEF Unique
  <1>5. ASSUME NEW j \in Valid(new)
        PROVE  \E d \in Nat : Reaches(new, new[j].key, d, j)
    <2>1. CASE j = i
      <3>1. PICK d \in Nat : Reaches(es, e.key, d, i)
        OBVIOUS
      <3>2. Reaches(new, e.key, d, i)
        BY <1>1, <1>2, <3>1, ReachesStill
      <3> QED BY <1>3, <2>1, <3>2
    <2>2. CASE j \in Valid(es) /\ j # i
      <3>1. new[j] = es[j] /\ es[j].key \in Constants
        BY <1>1, <1>3, <2>2, PoolIs
      <3>2. PICK d \in Nat : Reaches(es, es[j].key, d, j)
        BY <2>2 DEF Searchable
      <3>3. Reaches(new, es[j].key, d, j)
        BY <1>1, <1>2, <3>1, <3>2, ReachesStill
      <3> QED BY <3>1, <3>3
    <2> QED BY <1>3, <2>1, <2>2
  <1>6. Searchable(new)
    BY <1>3, <1>4, <1>5 DEF Searchable
  <1> QED BY <1>2, <1>6 DEF Changed, new

\* A new key goes where findEntry ends.
LEMMA EntryAdded ==
  ASSUME NEW es, Searchable(es), HasHole(es), NEW e \in Entry, e.key \in Constants,
         \A j \in Valid(es) : es[j].key # e.key
  PROVE  /\ Changed(Wrote(es, FindEntry(es, e.key), e), es, FindEntry(es, e.key), e)
         /\ FindEntry(es, e.key) \notin Valid(es)
  <1> DEFINE f == FindEntry(es, e.key)
  <1>1. IsPool(es)
    BY DEF Searchable
  <1>2. f \in 1 .. Len(es) /\ es[f] = Hole /\ \E d \in Nat : Reaches(es, e.key, d, f)
    BY <1>1, FindAbsent
  <1> HIDE DEF f
  <1>3. f \notin Valid(es)
    BY <1>1, <1>2, PoolIs
  <1>4. Changed(Wrote(es, f, e), es, f, e)
    BY <1>2, Writable
  <1> QED BY <1>3, <1>4 DEF f

\* An entry is replaced by another with its key.
LEMMA EntryReplaced ==
  ASSUME NEW es, Searchable(es), NEW i \in Valid(es), NEW e \in Entry, e.key = es[i].key
  PROVE  Changed(Wrote(es, i, e), es, i, e)
  <1>1. IsPool(es) /\ Unique(es)
    BY DEF Searchable
  <1>2. i \in 1 .. Len(es) /\ e.key \in Constants
    BY <1>1, PoolIs
  <1>3. \A j \in Valid(es) : es[j].key = e.key => j = i
    BY <1>1 DEF Unique
  <1>4. \E d \in Nat : Reaches(es, e.key, d, i)
    BY DEF Searchable
  <1> QED BY <1>2, <1>3, <1>4, Writable

-----------------------------------------------------------------------------
(* adjustNumberCapacity                                                    *)

\* The valid entries among the first n.
Before(es, n) == {i \in Valid(es) : i <= n}

\* new holds the entries of es at the places I, and nothing else.
Holds(new, es, I) ==
  /\ Searchable(new)
  /\ Len(new) = GrowCapacity(Len(es))
  /\ Cardinality(Valid(new)) = Cardinality(I)
  /\ \A i \in I : \E j \in Valid(new) : new[j] = es[i]
  /\ \A j \in Valid(new) : \E i \in I : new[j] = es[i]

\* GROW_CAPACITY answers more than it got, and at least two.
LEMMA CapacityGrows ==
  ASSUME NEW n \in Nat
  PROVE  GrowCapacity(n) \in Nat /\ n < GrowCapacity(n) /\ 1 < GrowCapacity(n)
  BY BoundAssumption DEF GrowCapacity

\* Valid entries are finitely many, as many as the pool has slots at most.
LEMMA ValidFinite ==
  ASSUME NEW es, IsPool(es)
  PROVE  \A S \in SUBSET (1 .. Len(es)) :
            /\ IsFiniteSet(S) /\ Cardinality(S) \in Nat /\ Cardinality(S) <= Len(es)
            /\ Cardinality(S) < Len(es) => S # 1 .. Len(es)
  <1>1. Len(es) \in Nat
    BY PoolIs
  <1>2. IsFiniteSet(1 .. Len(es)) /\ Cardinality(1 .. Len(es)) = Len(es)
    <2>1. 1 \in Int /\ Len(es) \in Int
      BY <1>1
    <2>2. /\ IsFiniteSet(1 .. Len(es))
          /\ Cardinality(1 .. Len(es)) = IF 1 > Len(es) THEN 0 ELSE Len(es) - 1 + 1
      BY <2>1, FS_Interval
    <2> QED BY <1>1, <2>2
  <1> SUFFICES ASSUME NEW S \in SUBSET (1 .. Len(es))
               PROVE  /\ IsFiniteSet(S) /\ Cardinality(S) \in Nat /\ Cardinality(S) <= Len(es)
                      /\ Cardinality(S) < Len(es) => S # 1 .. Len(es)
    OBVIOUS
  <1>3. IsFiniteSet(S) /\ Cardinality(S) <= Len(es)
    BY <1>2, FS_Subset
  <1>4. Cardinality(S) \in Nat
    BY <1>3, FS_CardinalityType
  <1>5. ASSUME Cardinality(S) < Len(es), S = 1 .. Len(es) PROVE FALSE
    BY <1>1, <1>2, <1>5
  <1> QED BY <1>3, <1>4, <1>5

\* A pool with fewer valid entries than slots has a hole.
LEMMA HoleLeft ==
  ASSUME NEW es, IsPool(es), Cardinality(Valid(es)) < Len(es)
  PROVE  HasHole(es)
  <1>1. Valid(es) \in SUBSET (1 .. Len(es))
    BY PoolIs
  <1>2. Valid(es) # 1 .. Len(es)
    BY <1>1, ValidFinite
  <1>3. PICK i \in 1 .. Len(es) : i \notin Valid(es)
    BY <1>1, <1>2
  <1> QED BY <1>3, PoolIs DEF HasHole

\* The pool adjustNumberCapacity begins with.
LEMMA HoldsNothing ==
  ASSUME NEW es, IsPool(es),
         NEW new, new = [i \in 1 .. GrowCapacity(Len(es)) |-> Hole]
  PROVE  Holds(new, es, {})
  <1> DEFINE n == GrowCapacity(Len(es))
  <1>1. n \in Nat
    BY PoolIs, CapacityGrows
  <1> HIDE DEF n
  <1>2. new = [i \in 1 .. n |-> Hole]
    BY DEF n
  <1>3. Hole \in Entry
    BY DEF Hole, Entry, NoIndex
  <1>4. new \in Seq(Entry)
    <2>1. new \in [1 .. n -> Entry]
      BY <1>2, <1>3
    <2> QED BY <1>1, <2>1, SeqDef
  <1>5. Len(new) = n /\ \A i \in 1 .. n : new[i] = Hole
    <2>1. DOMAIN new = 1 .. Len(new) /\ Len(new) \in Nat
      BY <1>4, LenProperties
    <2>2. DOMAIN new = 1 .. n
      BY <1>2
    <2>3. Len(new) = n
      <3>1. 1 .. Len(new) = 1 .. n /\ Len(new) \in Nat
        BY <2>1, <2>2
      <3> QED BY <1>1, <3>1, SameInterval
    <2> QED BY <1>2, <2>3
  <1>6. IsPool(new)
    BY <1>4, <1>5 DEF IsPool
  <1>7. Valid(new) = {}
    BY <1>5, <1>6, PoolIs
  <1> QED BY <1>5, <1>6, <1>7 DEF Holds, Searchable, Unique, n

\* One entry more.
LEMMA HoldsMore ==
  ASSUME NEW es, Searchable(es), NEW n \in 1 .. Len(es),
         NEW old, Holds(old, es, Before(es, n - 1))
  PROVE  Holds(Inserted(old, es[n]), es, Before(es, n))
  <1> DEFINE e == es[n]
             k == e.key
             B == Before(es, n - 1)
             j == FindEntry(old, k)
             new == Wrote(old, j, e)
  <1>1. IsPool(es) /\ Unique(es)
    BY DEF Searchable
  <1>2. /\ Len(es) \in Nat /\ n \in Nat /\ e \in Entry
        /\ Valid(es) \subseteq 1 .. Len(es)
    BY <1>1, PoolIs
  <1>3. \A i \in Valid(es) : i <= n <=> (i <= n - 1 \/ i = n)
    BY <1>2
  <1>4. CASE n \notin Valid(es)
    <2>1. es[n] = Hole
      BY <1>1, <1>4, PoolIs
    <2>2. Inserted(old, es[n]) = old
      BY <2>1 DEF Inserted
    <2>3. Before(es, n) = B
      BY <1>3, <1>4 DEF Before
    <2> QED BY <2>2, <2>3
  <1>5. CASE n \in Valid(es)
    <2>1. k \in Constants /\ k # NoKey /\ e # Hole
      BY <1>1, <1>5, PoolIs
    <2>2. Before(es, n) = B \union {n} /\ n \notin B
      BY <1>2, <1>3, <1>5 DEF Before
    <2>3. /\ Searchable(old) /\ IsPool(old) /\ Len(old) = GrowCapacity(Len(es))
          /\ Cardinality(Valid(old)) = Cardinality(B)
          /\ \A i \in B : \E l \in Valid(old) : old[l] = es[i]
          /\ \A l \in Valid(old) : \E i \in B : old[l] = es[i]
      BY DEF Holds, Searchable
    <2>4. B \in SUBSET (1 .. Len(es)) /\ IsFiniteSet(B)
      <3>1. B \in SUBSET (1 .. Len(es))
        BY <1>2 DEF Before
      <3> QED BY <1>1, <3>1, ValidFinite
    <2>5. HasHole(old)
      <3>1. Cardinality(B) \in Nat /\ Cardinality(B) <= Len(es)
        BY <1>1, <2>4, ValidFinite
      <3>2. Len(es) < GrowCapacity(Len(es)) /\ GrowCapacity(Len(es)) \in Nat
        BY <1>2, CapacityGrows
      <3>3. Cardinality(Valid(old)) < Len(old)
        BY <1>2, <2>3, <3>1, <3>2
      <3> QED BY <2>3, <3>3, HoleLeft
    <2> HIDE DEF B
    <2>6. ASSUME NEW l \in Valid(old)
          PROVE  old[l].key # k
      <3>1. PICK i \in B : old[l] = es[i]
        BY <2>3
      <3>2. i \in Valid(es) /\ i # n
        BY <2>2, <3>1 DEF Before, B
      <3> QED BY <1>1, <1>5, <3>1, <3>2 DEF Unique
    <2>7. Inserted(old, es[n]) = new
      BY <2>1 DEF Inserted, Moved, Wrote
    <2>8. Changed(new, old, j, e) /\ j \notin Valid(old)
      <3> HIDE DEF e
      <3> QED BY <1>2, <2>1, <2>3, <2>5, <2>6, EntryAdded
    <2> HIDE DEF j, new
    <2>9. /\ Searchable(new) /\ IsPool(new) /\ Len(new) = Len(old) /\ j \in 1 .. Len(old)
          /\ new[j] = e /\ \A l \in 1 .. Len(old) : l # j => new[l] = old[l]
          /\ Valid(new) = Valid(old) \union {j}
      BY <2>8 DEF Changed, Differs
    <2>10. Cardinality(Valid(new)) = Cardinality(Before(es, n))
      <3>1. Valid(old) \in SUBSET (1 .. Len(old))
        BY <2>3, PoolIs
      <3>2. IsFiniteSet(Valid(old))
        BY <2>3, <3>1, ValidFinite
      <3>3. Cardinality(Valid(old) \union {j}) = Cardinality(Valid(old)) + 1
        BY <2>8, <3>2, FS_AddElement
      <3>4. Cardinality(B \union {n}) = Cardinality(B) + 1
        BY <2>2, <2>4, FS_AddElement
      <3> QED BY <2>2, <2>3, <2>9, <3>3, <3>4
    <2>11. \A l \in Valid(old) : l \in Valid(new) /\ new[l] = old[l]
      BY <2>3, <2>8, <2>9, PoolIs
    <2>12. ASSUME NEW i \in Before(es, n)
           PROVE  \E l \in Valid(new) : new[l] = es[i]
      <3>1. CASE i = n
        BY <2>9, <3>1
      <3>2. CASE i \in B
        <4>1. PICK l \in Valid(old) : old[l] = es[i]
          BY <2>3, <3>2
        <4> QED BY <2>11, <4>1
      <3> QED BY <2>2, <3>1, <3>2
    <2>13. ASSUME NEW l \in Valid(new)
           PROVE  \E i \in Before(es, n) : new[l] = es[i]
      <3>1. CASE l = j
        BY <2>2, <2>9, <3>1
      <3>2. CASE l \in Valid(old)
        <4>1. PICK i \in B : old[l] = es[i]
          BY <2>3, <3>2
        <4> QED BY <2>2, <2>11, <3>2, <4>1
      <3> QED BY <2>9, <3>1, <3>2
    <2>14. Holds(new, es, Before(es, n))
      BY <2>3, <2>9, <2>10, <2>12, <2>13 DEF Holds
    <2> QED BY <2>7, <2>14
  <1> QED BY <1>4, <1>5

\* after[n] is the pool with the first n entries inserted.
Inserting(after, es) ==
  after = [n \in 0 .. Len(es) |->
             IF n = 0 THEN [i \in 1 .. GrowCapacity(Len(es)) |-> Hole]
             ELSE Inserted(after[n - 1], es[n])]

\* What the function maps each number to.
LEMMA InsertingEach ==
  ASSUME NEW es, NEW after, Inserting(after, es)
  PROVE  \A n \in 0 .. Len(es) :
            after[n] = IF n = 0 THEN [i \in 1 .. GrowCapacity(Len(es)) |-> Hole]
                       ELSE Inserted(after[n - 1], es[n])
  <1> DEFINE next(n) == IF n = 0 THEN [i \in 1 .. GrowCapacity(Len(es)) |-> Hole]
                        ELSE Inserted(after[n - 1], es[n])
  <1>1. after = [n \in 0 .. Len(es) |-> next(n)]
    BY DEF Inserting
  <1> HIDE DEF next
  <1>2. \A n \in 0 .. Len(es) : after[n] = next(n)
    BY <1>1
  <1> QED BY <1>2 DEF next

\* There is such a function: the recursion of Rehash is sound.
LEMMA InsertingExists ==
  ASSUME NEW es, Len(es) \in Nat
  PROVE  \E after : Inserting(after, es)
  <1> DEFINE D == 0 .. Len(es)
             empty == [i \in 1 .. GrowCapacity(Len(es)) |-> Hole]
             next(g, n) == IF n = 0 THEN empty ELSE Inserted(g[n - 1], es[n])
             Upto(g, k) == g = [n \in D |-> g[n]] /\ \A n \in D : n <= k => g[n] = next(g, n)
             Defined == {k \in Nat : \E g : Upto(g, k)}
  <1>1. 0 \in Defined
    <2> HIDE DEF empty
    <2> DEFINE g == [n \in D |-> empty]
    <2>1. g = [n \in D |-> g[n]] /\ \A n \in D : n <= 0 => g[n] = next(g, n)
      OBVIOUS
    <2> QED BY <2>1
  <1>2. ASSUME NEW k \in Nat, k \in Defined
        PROVE  k + 1 \in Defined
    <2> HIDE DEF empty
    <2>1. PICK g : Upto(g, k)
      BY <1>2
    <2> DEFINE h == [n \in D |-> next(g, n)]
    <2>2. h = [n \in D |-> h[n]]
      OBVIOUS
    <2>3. \A n \in D : h[n] = next(g, n)
      OBVIOUS
    <2> HIDE DEF h
    <2>4. ASSUME NEW n \in D, n <= k + 1
          PROVE  h[n] = next(h, n)
      <3>1. CASE n = 0
        BY <2>3, <3>1
      <3>2. CASE n # 0
        <4>1. n - 1 \in D /\ n - 1 <= k
          BY <2>4, <3>2
        <4>2. h[n - 1] = g[n - 1]
          BY <2>1, <2>3, <4>1
        <4> QED BY <2>3, <4>2
      <3> QED BY <3>1, <3>2
    <2> HIDE DEF next, D
    <2>5. Upto(h, k + 1)
      BY <2>2, <2>4
    <2> QED BY <2>5
  <1>3. Len(es) \in Defined
    <2> HIDE DEF Defined
    <2> QED BY <1>1, <1>2, NatBySteps
  <1>4. PICK g : Upto(g, Len(es))
    BY <1>3
  <1>5. \A n \in D : g[n] = next(g, n)
    <2>1. \A n \in D : n <= Len(es)
      BY DEF D
    <2> HIDE DEF empty, next, D
    <2> QED BY <1>4, <2>1
  <1>6. g = [n \in D |-> g[n]]
    BY <1>4
  <1>7. g = [n \in D |-> next(g, n)]
    <2> HIDE DEF next, D
    <2> QED BY <1>5, <1>6
  <1> QED BY <1>7 DEF Inserting

\* adjustNumberCapacity: the pool it answers holds the entries of the old one.
LEMMA Rehashed ==
  ASSUME NEW es, Searchable(es)
  PROVE  Holds(Rehash(es), es, Valid(es))
  <1> DEFINE after == CHOOSE after : Inserting(after, es)
  <1>1. IsPool(es) /\ Len(es) \in Nat /\ Valid(es) \subseteq 1 .. Len(es)
    BY PoolIs DEF Searchable
  <1>2. Inserting(after, es)
    BY <1>1, InsertingExists
  <1>3. Rehash(es) = after[Len(es)]
    BY DEF Rehash, Inserting, Size
  <1> HIDE DEF after
  <1>4. \A n \in 0 .. Len(es) :
           after[n] = IF n = 0 THEN [i \in 1 .. GrowCapacity(Len(es)) |-> Hole]
                      ELSE Inserted(after[n - 1], es[n])
    BY <1>2, InsertingEach
  <1> DEFINE Good == {n \in Nat : n <= Len(es) => Holds(after[n], es, Before(es, n))}
  <1>5. 0 \in Good
    <2>1. after[0] = [i \in 1 .. GrowCapacity(Len(es)) |-> Hole]
      <3>1. 0 \in 0 .. Len(es)
        BY <1>1
      <3> QED BY <1>4, <3>1
    <2>2. Before(es, 0) = {}
      BY <1>1 DEF Before
    <2>3. Holds(after[0], es, {})
      BY <1>1, <2>1, HoldsNothing
    <2> QED BY <2>2, <2>3
  <1>6. ASSUME NEW n \in Nat, n \in Good
        PROVE  n + 1 \in Good
    <2> SUFFICES ASSUME n + 1 <= Len(es)
                 PROVE  Holds(after[n + 1], es, Before(es, n + 1))
      OBVIOUS
    <2>1. /\ n + 1 \in 0 .. Len(es) /\ n + 1 # 0 /\ (n + 1) - 1 = n /\ n <= Len(es)
          /\ n + 1 \in 1 .. Len(es)
      BY <1>1
    <2>2. after[n + 1] = Inserted(after[n], es[n + 1])
      BY <1>4, <2>1
    <2>3. Holds(after[n], es, Before(es, (n + 1) - 1))
      BY <1>6, <2>1
    <2> DEFINE m == n + 1
    <2>4. m \in 1 .. Len(es) /\ Holds(after[n], es, Before(es, m - 1))
      BY <2>1, <2>3
    <2>5. Holds(Inserted(after[n], es[m]), es, Before(es, m))
      <3> HIDE DEF m
      <3> QED BY <2>4, HoldsMore
    <2> QED BY <2>2, <2>5
  <1>7. Len(es) \in Good
    <2> HIDE DEF Good
    <2> QED BY <1>1, <1>5, <1>6, NatBySteps
  <1>8. Before(es, Len(es)) = Valid(es)
    BY <1>1 DEF Before
  <1> QED BY <1>1, <1>3, <1>7, <1>8

-----------------------------------------------------------------------------
(* tableGetNumberEntry, tableGetStringEntry, makeConstant                  *)

\* A pool with room for a search to end.
PoolOK(es) == Searchable(es) /\ (es # <<>> => Cardinality(Valid(es)) < Len(es))

\* The same entries, anywhere.
SameEntries(new, es) ==
  /\ \A i \in Valid(es) : \E j \in Valid(new) : new[j] = es[i]
  /\ \A j \in Valid(new) : \E i \in Valid(es) : new[j] = es[i]

\* An empty pool has no entry, and each of the others a hole.
LEMMA PoolOKIs ==
  ASSUME NEW es, PoolOK(es)
  PROVE  /\ Searchable(es) /\ IsPool(es)
         /\ Len(es) \in Nat
         /\ es # <<>> => HasHole(es) /\ Len(es) # 0
         /\ IsFiniteSet(Valid(es)) /\ Cardinality(Valid(es)) \in Nat
         /\ Cardinality(Valid(es)) <= Len(es)
  <1>1. Searchable(es) /\ IsPool(es) /\ (es # <<>> => Cardinality(Valid(es)) < Len(es))
    BY DEF PoolOK, Searchable
  <1>2. Len(es) \in Nat /\ (es # <<>> => Len(es) # 0) /\ Valid(es) \in SUBSET (1 .. Len(es))
    BY <1>1, PoolIs
  <1>3. /\ IsFiniteSet(Valid(es)) /\ Cardinality(Valid(es)) \in Nat
        /\ Cardinality(Valid(es)) <= Len(es)
    BY <1>1, <1>2, ValidFinite
  <1>4. es # <<>> => HasHole(es)
    BY <1>1, HoleLeft
  <1> QED BY <1>1, <1>2, <1>3, <1>4

\* A search tells whether the pool has the key.
LEMMA HasIs ==
  ASSUME NEW es, PoolOK(es), NEW v \in Constants
  PROVE  Has(es, v) <=> \E i \in Valid(es) : es[i].key = v
  <1>1. Searchable(es) /\ IsPool(es) /\ Len(es) \in Nat /\ (es # <<>> => HasHole(es))
    BY PoolOKIs
  <1>2. CASE es = <<>>
    <2>1. Len(es) = 0
      BY <1>2, EmptySeq
    <2>2. Valid(es) = {}
      BY <1>1, <2>1, PoolIs
    <2> QED BY <1>2, <2>2 DEF Has
  <1>3. CASE es # <<>>
    <2>1. ASSUME NEW i \in Valid(es), es[i].key = v
          PROVE  Has(es, v)
      <3>1. FindEntry(es, v) = i
        BY <1>1, <1>3, <2>1, FindPresent
      <3> QED BY <1>3, <2>1, <3>1 DEF Has
    <2>2. ASSUME \A i \in Valid(es) : es[i].key # v
          PROVE  ~Has(es, v)
      <3>1. es[FindEntry(es, v)] = Hole
        BY <1>1, <1>3, <2>2, FindAbsent
      <3>2. es[FindEntry(es, v)].key # v
        BY <3>1, HashAssumption DEF Hole
      <3> QED BY <3>2 DEF Has
    <2> QED BY <2>1, <2>2
  <1> QED BY <1>2, <1>3

\* There is room for v in new if it has none.
HasRoom(new, v) ==
  /\ PoolOK(new) /\ new # <<>>
  /\ (\A i \in Valid(new) : new[i].key # v) => Cardinality(Valid(new)) + 1 < Len(new)

\* Making room keeps the entries.
LEMMA RoomIs ==
  ASSUME NEW es, PoolOK(es), NEW v \in Constants
  PROVE  HasRoom(Room(es, v), v) /\ SameEntries(Room(es, v), es)
  <1> DEFINE c == Cardinality(Valid(es))
             n == Len(es)
  <1>1. Searchable(es) /\ IsPool(es) /\ n \in Nat /\ c \in Nat /\ c <= n
    BY PoolOKIs
  <1>2. SameEntries(es, es)
    BY DEF SameEntries
  <1>3. es # <<>> => c < n
    BY DEF PoolOK
  <1>4. es = <<>> => n = 0
    BY EmptySeq
  <1>5. MustGrow(es) <=> c + 1 > (n * 3) \div 4
    BY DEF MustGrow, Size
  <1> HIDE DEF c, n
  <1>6. CASE MustGrow(es) /\ ~(v \in Strings /\ Has(es, v))
    <2> DEFINE new == Rehash(es)
    <2>1. Room(es, v) = new
      BY <1>6 DEF Room
    <2>2. Holds(new, es, Valid(es))
      BY <1>1, Rehashed
    <2> HIDE DEF new
    <2>3. /\ Searchable(new) /\ Len(new) = GrowCapacity(n) /\ Cardinality(Valid(new)) = c
          /\ SameEntries(new, es)
      BY <2>2 DEF Holds, SameEntries, n, c
    <2>4. GrowCapacity(n) \in Nat /\ n < GrowCapacity(n) /\ 1 < GrowCapacity(n)
      BY <1>1, CapacityGrows
    <2>5. c + 1 < Len(new) /\ c < Len(new)
      BY <1>1, <1>3, <1>4, <2>3, <2>4
    <2>6. new # <<>>
      <3>1. Len(new) # 0
        BY <2>3, <2>4
      <3> QED BY <3>1, EmptySeq
    <2> QED BY <2>1, <2>3, <2>5, <2>6 DEF HasRoom, PoolOK
  <1>7. CASE ~MustGrow(es)
    <2>1. Room(es, v) = es
      BY <1>7 DEF Room
    <2>2. c + 1 <= (n * 3) \div 4
      BY <1>1, <1>5, <1>7
    <2>3. n # 0 => (n * 3) \div 4 < n
      BY <1>1
    <2>4. n = 0 => (n * 3) \div 4 = 0
      OBVIOUS
    <2>5. n # 0 /\ c + 1 < n
      BY <1>1, <2>2, <2>3, <2>4
    <2>6. es # <<>>
      BY <1>4, <2>5
    <2> QED BY <1>2, <2>1, <2>5, <2>6 DEF HasRoom, n, c
  <1>8. CASE MustGrow(es) /\ v \in Strings /\ Has(es, v)
    <2>1. Room(es, v) = es
      BY <1>8 DEF Room
    <2>2. \E i \in Valid(es) : es[i].key = v
      BY <1>8, HasIs
    <2>3. es # <<>>
      BY <1>8 DEF Has
    <2> QED BY <1>2, <2>1, <2>2, <2>3 DEF HasRoom
  <1> QED BY <1>6, <1>7, <1>8

Fresh(v) == [key |-> v, index |-> NoIndex]

\* new is es with an entry for v, at place i.
WithEntry(new, es, v, i) ==
  /\ PoolOK(new) /\ new # <<>>
  /\ i = FindEntry(new, v) /\ i \in Valid(new) /\ new[i].key = v
  /\ \A j \in Valid(es) : \E l \in Valid(new) : new[l] = es[j]
  /\ \A l \in Valid(new) : new[l] = Fresh(v) \/ \E j \in Valid(es) : new[l] = es[j]

\* Interning leaves v in its pool, and the other entries.
LEMMA InternedIs ==
  ASSUME NEW v \in Constants, PoolOK(pools[Pool(v)])
  PROVE  WithEntry(Interned(v), pools[Pool(v)], v, FindEntry(Interned(v), v))
  <1> DEFINE old == pools[Pool(v)]
             es == Room(old, v)
             i == FindEntry(es, v)
             new == Interned(v)
  <1>1. HasRoom(es, v) /\ SameEntries(es, old)
    BY RoomIs
  <1>2. new = IF es[i] = Hole THEN [es EXCEPT ![i].key = v] ELSE es
    BY DEF Interned
  <1>3. i = FindEntry(es, v)
    OBVIOUS
  <1> HIDE DEF new, i, es, old
  <1>4. PoolOK(es) /\ es # <<>>
    BY <1>1 DEF HasRoom
  <1>5. /\ Searchable(es) /\ IsPool(es) /\ HasHole(es) /\ Len(es) \in Nat
        /\ IsFiniteSet(Valid(es)) /\ Cardinality(Valid(es)) \in Nat
    BY <1>4, PoolOKIs
  <1>6. ASSUME \E j \in Valid(es) : es[j].key = v
        PROVE  WithEntry(new, old, v, FindEntry(new, v))
    <2>1. PICK j \in Valid(es) : es[j].key = v
      BY <1>6
    <2>2. i = j
      BY <1>3, <1>5, <2>1, FindPresent
    <2>3. es[i] # Hole
      BY <2>1, <2>2 DEF Valid
    <2>4. new = es
      BY <1>2, <2>3
    <2> QED BY <1>1, <1>3, <1>4, <2>1, <2>2, <2>4 DEF WithEntry, SameEntries
  <1>7. ASSUME \A j \in Valid(es) : es[j].key # v
        PROVE  WithEntry(new, old, v, FindEntry(new, v))
    <2> DEFINE e == Fresh(v)
    <2>1. e \in Entry /\ e.key = v /\ e # Hole
      BY HashAssumption DEF Entry, Fresh, NoIndex, Hole
    <2>2. es[i] = Hole
      BY <1>3, <1>5, <1>7, FindAbsent
    <2>3. new = Wrote(es, i, e)
      <3>1. [Hole EXCEPT !.key = v] = e
        BY DEF Hole, Fresh
      <3>2. [es EXCEPT ![i].key = v] = [es EXCEPT ![i] = [Hole EXCEPT !.key = v]]
        BY <2>2
      <3> QED BY <1>2, <2>2, <3>1, <3>2 DEF Wrote
    <2> HIDE DEF e
    <2>4. Changed(new, es, i, e) /\ i \notin Valid(es)
      BY <1>3, <1>5, <1>7, <2>1, <2>3, EntryAdded
    <2>5. /\ Searchable(new) /\ IsPool(new) /\ Len(new) = Len(es) /\ i \in 1 .. Len(es)
          /\ new[i] = e /\ \A j \in 1 .. Len(es) : j # i => new[j] = es[j]
          /\ Valid(new) = Valid(es) \union {i}
      BY <2>4 DEF Changed, Differs
    <2>6. Cardinality(Valid(new)) = Cardinality(Valid(es)) + 1
      BY <1>5, <2>4, <2>5, FS_AddElement
    <2>7. Cardinality(Valid(es)) + 1 < Len(es)
      BY <1>1, <1>7 DEF HasRoom
    <2>8. PoolOK(new) /\ new # <<>>
      <3>1. Len(new) # 0
        BY <2>5
      <3> QED BY <2>5, <2>6, <2>7, <3>1, EmptySeq DEF PoolOK
    <2>9. i \in Valid(new) /\ new[i].key = v /\ FindEntry(new, v) = i
      <3>1. i \in Valid(new) /\ new[i].key = v
        BY <2>1, <2>5
      <3>2. HasHole(new)
        BY <2>8, PoolOKIs
      <3> QED BY <2>5, <3>1, <3>2, FindPresent
    <2>10. \A j \in Valid(es) : j \in Valid(new) /\ new[j] = es[j]
      BY <1>5, <2>4, <2>5, PoolIs
    <2>11. ASSUME NEW j \in Valid(old)
           PROVE  \E l \in Valid(new) : new[l] = old[j]
      <3>1. PICK l \in Valid(es) : es[l] = old[j]
        BY <1>1 DEF SameEntries
      <3> QED BY <2>10, <3>1
    <2>12. ASSUME NEW l \in Valid(new)
           PROVE  new[l] = Fresh(v) \/ \E j \in Valid(old) : new[l] = old[j]
      <3>1. CASE l = i
        BY <2>5, <3>1 DEF e
      <3>2. CASE l \in Valid(es)
        BY <1>1, <2>10, <3>2 DEF SameEntries
      <3> QED BY <2>5, <3>1, <3>2
    <2> QED BY <2>8, <2>9, <2>11, <2>12 DEF WithEntry
  <1>8. WithEntry(new, old, v, FindEntry(new, v))
    BY <1>6, <1>7
  <1> QED BY <1>8 DEF new, old

PoolNames == {"numbers", "strings"}

\* The entry of the n-th constant, v.
At(v, n) == [key |-> v, index |-> Truncated(n)]

\* v is the n-th constant of cs, for an n that 24 bits keep as index.
IsNamed(cs, index, v) == \E n \in 1 .. Len(cs) : Truncated(n) = index /\ cs[n] = v

\* An index in the pool es names the entry's key in cs.
Points(es, cs) ==
  \A i \in Valid(es) : es[i].index # NoIndex => IsNamed(cs, es[i].index, es[i].key)

\* Each constant of cs is in its pool, with its index.
Listed(ps, cs) ==
  \A n \in 1 .. Len(cs) : \E i \in Valid(ps[Pool(cs[n])]) : ps[Pool(cs[n])][i] = At(cs[n], n)

\* No constant is in cs twice.
Once(cs) == \A m, n \in 1 .. Len(cs) : cs[m] = cs[n] => m = n

\* The pools ps and the constants cs agree.
PoolsOK(ps, cs) ==
  /\ ps \in [PoolNames -> Seq(Entry)]
  /\ \A p \in PoolNames : PoolOK(ps[p]) /\ Points(ps[p], cs)
  /\ cs \in Seq(Constants)
  /\ Listed(ps, cs)
  /\ Once(cs)

\* Constants are only added.
Grown(new, cs) ==
  /\ new \in Seq(Constants) /\ Len(cs) <= Len(new)
  /\ \A n \in 1 .. Len(cs) : new[n] = cs[n]

\* What 24 bits keep of an index is an index, the same below the limit.
LEMMA TruncatedIs ==
  ASSUME NEW n \in Nat \ {0}
  PROVE  /\ Truncated(n) \in Nat /\ Truncated(n) # NoIndex
         /\ n <= IndexLimit => Truncated(n) = n
  <1> DEFINE a == n - 1
  <1>1. a \in Nat /\ IndexLimit \in Nat \ {0} /\ Truncated(n) = (a % IndexLimit) + 1
    BY BoundAssumption DEF Truncated
  <1>2. a % IndexLimit \in 0 .. IndexLimit - 1
    BY <1>1, Remainder
  <1>3. a < IndexLimit => a % IndexLimit = a
    BY <1>1
  <1>4. n <= IndexLimit => a < IndexLimit
    BY <1>1
  <1>5. a + 1 = n
    BY <1>1
  <1> HIDE DEF a
  <1> QED BY <1>1, <1>2, <1>3, <1>4, <1>5 DEF NoIndex

\* A constant keeps its name when others are added.
LEMMA NamedLater ==
  ASSUME NEW cs, cs \in Seq(Constants), NEW ds, Grown(ds, cs),
         NEW index, NEW v, IsNamed(cs, index, v)
  PROVE  IsNamed(ds, index, v)
  <1>1. PICK n \in 1 .. Len(cs) : Truncated(n) = index /\ cs[n] = v
    BY DEF IsNamed
  <1>2. /\ Len(cs) \in Nat /\ Len(ds) \in Nat /\ Len(cs) <= Len(ds)
        /\ \A k \in 1 .. Len(cs) : ds[k] = cs[k]
    BY LenProperties DEF Grown
  <1>3. n \in 1 .. Len(ds) /\ ds[n] = v
    BY <1>1, <1>2
  <1> QED BY <1>1, <1>3 DEF IsNamed

\* Each constant has a pool.
LEMMA PoolIn ==
  ASSUME NEW v
  PROVE  Pool(v) \in PoolNames
  BY DEF Pool, PoolNames

\* The pools may change if v's keeps its entries, as far as they have an index.
LEMMA PoolReplaced ==
  ASSUME NEW ps, NEW cs, PoolsOK(ps, cs), NEW p \in PoolNames, NEW es, NEW ds, Grown(ds, cs),
         PoolOK(es), Points(es, ds), Once(ds),
         \A i \in Valid(ps[p]) : ps[p][i].index # NoIndex => \E j \in Valid(es) : es[j] = ps[p][i],
         \A n \in 1 .. Len(ds) : n \notin 1 .. Len(cs) =>
            Pool(ds[n]) = p /\ \E i \in Valid(es) : es[i] = At(ds[n], n)
  PROVE  PoolsOK([ps EXCEPT ![p] = es], ds)
  <1> DEFINE new == [ps EXCEPT ![p] = es]
  <1>1. /\ ps \in [PoolNames -> Seq(Entry)] /\ cs \in Seq(Constants) /\ Listed(ps, cs)
        /\ \A q \in PoolNames : PoolOK(ps[q]) /\ Points(ps[q], cs)
    BY DEF PoolsOK
  <1>2. es \in Seq(Entry)
    BY DEF PoolOK, Searchable, IsPool
  <1>3. /\ new \in [PoolNames -> Seq(Entry)] /\ new[p] = es
        /\ \A q \in PoolNames : q # p => new[q] = ps[q]
    BY <1>1, <1>2
  <1> HIDE DEF new
  <1>4. /\ ds \in Seq(Constants) /\ Len(cs) \in Nat /\ Len(ds) \in Nat /\ Len(cs) <= Len(ds)
        /\ \A n \in 1 .. Len(cs) : ds[n] = cs[n]
    BY <1>1, LenProperties DEF Grown
  <1>5. ASSUME NEW q \in PoolNames
        PROVE  PoolOK(new[q]) /\ Points(new[q], ds)
    <2>1. CASE q = p
      BY <1>3, <2>1
    <2>2. CASE q # p
      <3>1. new[q] = ps[q] /\ PoolOK(ps[q]) /\ Points(ps[q], cs)
        BY <1>1, <1>3, <2>2
      <3>2. ASSUME NEW i \in Valid(ps[q]), ps[q][i].index # NoIndex
            PROVE  IsNamed(ds, ps[q][i].index, ps[q][i].key)
        <4>1. IsNamed(cs, ps[q][i].index, ps[q][i].key)
          BY <3>1, <3>2 DEF Points
        <4> QED BY <1>1, <4>1, NamedLater
      <3> QED BY <3>1, <3>2 DEF Points
    <2> QED BY <2>1, <2>2
  <1>6. ASSUME NEW n \in 1 .. Len(ds)
        PROVE  \E i \in Valid(new[Pool(ds[n])]) : new[Pool(ds[n])][i] = At(ds[n], n)
    <2>1. CASE n \notin 1 .. Len(cs)
      BY <1>3, <2>1
    <2>2. CASE n \in 1 .. Len(cs)
      <3> DEFINE q == Pool(ds[n])
      <3>1. ds[n] = cs[n] /\ q \in PoolNames
        BY <1>4, <2>2, PoolIn
      <3>2. PICK i \in Valid(ps[q]) : ps[q][i] = At(ds[n], n)
        BY <1>1, <2>2, <3>1 DEF Listed
      <3> HIDE DEF q
      <3>3. CASE q # p
        BY <1>3, <3>1, <3>2, <3>3 DEF q
      <3>4. CASE q = p
        <4>1. ps[p][i].index # NoIndex
          <5>1. n \in Nat \ {0}
            BY <1>4, <2>2
          <5> QED BY <3>2, <3>4, <5>1, TruncatedIs DEF At
        <4>2. PICK j \in Valid(es) : es[j] = ps[p][i]
          BY <3>2, <3>4, <4>1
        <4> QED BY <1>3, <3>2, <3>4, <4>2 DEF q
      <3> QED BY <3>3, <3>4
    <2> QED BY <2>1, <2>2
  <1> QED BY <1>3, <1>4, <1>5, <1>6 DEF PoolsOK, Listed, new

\* copyString, connectString: a string is interned.
LEMMA InternKeeps ==
  ASSUME NEW v \in Constants, PoolsOK(pools, constants)
  PROVE  PoolsOK([pools EXCEPT ![Pool(v)] = Interned(v)], constants)
  <1> DEFINE p == Pool(v)
             old == pools[p]
             es == Interned(v)
  <1>1. p \in PoolNames
    BY PoolIn
  <1>2. PoolOK(old) /\ Points(old, constants) /\ constants \in Seq(Constants)
    BY <1>1 DEF PoolsOK
  <1>3. WithEntry(es, old, v, FindEntry(es, v))
    BY <1>2, InternedIs
  <1> HIDE DEF p, old, es
  <1>4. /\ PoolOK(es)
        /\ \A j \in Valid(old) : \E l \in Valid(es) : es[l] = old[j]
        /\ \A l \in Valid(es) : es[l] = Fresh(v) \/ \E j \in Valid(old) : es[l] = old[j]
    BY <1>3 DEF WithEntry
  <1>5. Points(es, constants)
    BY <1>2, <1>4 DEF Points, Fresh
  <1>6. Grown(constants, constants) /\ Once(constants)
    BY <1>2, LenProperties DEF Grown, PoolsOK
  <1>7. \A i \in Valid(pools[p]) :
          pools[p][i].index # NoIndex => \E j \in Valid(es) : es[j] = pools[p][i]
    BY <1>4 DEF old
  <1>8. PoolsOK([pools EXCEPT ![p] = es], constants)
    BY <1>1, <1>4, <1>5, <1>6, <1>7, PoolReplaced
  <1> QED BY <1>8 DEF p, es

\* m is the index of v, and pools and constants that agree.
Made(m, v) ==
  /\ PoolsOK([pools EXCEPT ![Pool(v)] = m.pool], m.constants)
  /\ Grown(m.constants, constants)
  /\ IsNamed(m.constants, m.index, v)

\* makeConstant answers the index where the constant is.
LEMMA MadeIs ==
  ASSUME NEW v \in Constants, PoolsOK(pools, constants)
  PROVE  Made(MakeConstant(v), v)
  <1> DEFINE p == Pool(v)
             old == pools[p]
             es == Interned(v)
             i == FindEntry(es, v)
             fresh == es[i].index = NoIndex
             index == IF fresh THEN Truncated(Len(constants) + 1) ELSE es[i].index
             new == [es EXCEPT ![i].index = index]
             cs == IF fresh THEN Append(constants, v) ELSE constants
             m == MakeConstant(v)
  <1>1. p \in PoolNames
    BY PoolIn
  <1>2. /\ PoolOK(old) /\ Points(old, constants) /\ constants \in Seq(Constants)
        /\ Len(constants) \in Nat
    <2>1. PoolOK(old) /\ Points(old, constants) /\ constants \in Seq(Constants)
      BY <1>1 DEF PoolsOK
    <2> QED BY <2>1, LenProperties
  <1>3. WithEntry(es, old, v, i)
    BY <1>2, InternedIs
  <1>4. m.index = index /\ m.pool = new /\ m.constants = cs
    BY DEF MakeConstant
  <1>5. new = [es EXCEPT ![i].index = index] /\ i = FindEntry(es, v)
    OBVIOUS
  <1>6. /\ fresh => cs = Append(constants, v) /\ index = Truncated(Len(constants) + 1)
        /\ ~fresh => cs = constants /\ index = es[i].index
    OBVIOUS
  <1>7. fresh <=> es[i].index = NoIndex
    OBVIOUS
  <1> HIDE DEF p, old, es, i, new, cs, index, m, fresh
  <1>8. /\ PoolOK(es) /\ es # <<>> /\ i \in Valid(es) /\ es[i].key = v
        /\ \A j \in Valid(old) : \E l \in Valid(es) : es[l] = old[j]
        /\ \A l \in Valid(es) : es[l] = Fresh(v) \/ \E j \in Valid(old) : es[l] = old[j]
    BY <1>3 DEF WithEntry
  <1>9. /\ Searchable(es) /\ IsPool(es) /\ Cardinality(Valid(es)) < Len(es)
        /\ Valid(es) \subseteq 1 .. Len(es)
        /\ es[i] \in Entry /\ es[i].index \in Nat
    BY <1>8, PoolOKIs, PoolIs DEF PoolOK
  <1>10. Points(es, constants)
    BY <1>2, <1>8 DEF Points, Fresh
  <1>a. ASSUME fresh, NEW n \in 1 .. Len(constants)
        PROVE  constants[n] # v
    <2> SUFFICES ASSUME constants[n] = v PROVE FALSE
      OBVIOUS
    <2>1. PICK j \in Valid(old) : old[j] = At(v, n)
      BY DEF PoolsOK, Listed, old, p
    <2>2. PICK l \in Valid(es) : es[l] = At(v, n)
      BY <1>8, <2>1
    <2>3. l = i
      BY <1>8, <1>9, <2>2 DEF Searchable, Unique, At
    <2>4. n \in Nat \ {0}
      BY <1>2
    <2> QED BY <1>7, <1>a, <2>2, <2>3, <2>4, TruncatedIs DEF At
  <1>11. PICK n \in 1 .. Len(cs) :
           /\ Grown(cs, constants) /\ Len(cs) \in Nat /\ Once(cs)
           /\ Truncated(n) = index /\ cs[n] = v
           /\ \A k \in 1 .. Len(cs) : k \notin 1 .. Len(constants) => k = n
    <2>1. CASE fresh
      <3> DEFINE n == Len(constants) + 1
      <3>1. cs = Append(constants, v) /\ index = Truncated(n)
        BY <1>6, <2>1
      <3>2. /\ cs \in Seq(Constants) /\ Len(cs) = Len(constants) + 1
            /\ \A k \in 1 .. Len(constants) : cs[k] = constants[k]
            /\ cs[n] = v
        BY <1>2, <3>1, AppendProperties
      <3>3. /\ Len(cs) \in Nat /\ n \in 1 .. Len(cs)
            /\ \A k \in 1 .. Len(cs) : k \notin 1 .. Len(constants) => k = n
        BY <1>2, <3>2
      <3>4. Grown(cs, constants)
        BY <1>2, <3>2 DEF Grown
      <3>5. \A k \in 1 .. Len(constants) : constants[k] # v
        BY <1>a, <2>1
      <3>6. \A k, l \in 1 .. Len(constants) : constants[k] = constants[l] => k = l
        BY DEF PoolsOK, Once
      <3> HIDE DEF n
      <3>7. Once(cs)
        <4> SUFFICES ASSUME NEW k \in 1 .. Len(cs), NEW l \in 1 .. Len(cs), cs[k] = cs[l]
                     PROVE  k = l
          BY DEF Once
        <4>1. (k = n \/ k \in 1 .. Len(constants)) /\ (l = n \/ l \in 1 .. Len(constants))
          BY <3>3
        <4> QED BY <3>2, <3>5, <3>6, <4>1
      <3> QED BY <3>1, <3>2, <3>3, <3>4, <3>7
    <2>2. CASE ~fresh
      <3>1. cs = constants /\ index = es[i].index /\ es[i].index # NoIndex
        BY <1>6, <1>7, <2>2
      <3>2. PICK n \in 1 .. Len(constants) : Truncated(n) = index /\ constants[n] = v
        BY <1>8, <1>10, <3>1 DEF Points, IsNamed
      <3>3. Grown(cs, constants) /\ Once(cs)
        BY <1>2, <3>1 DEF Grown, PoolsOK
      <3> QED BY <1>2, <3>1, <3>2, <3>3
    <2> QED BY <2>1, <2>2
  <1>12. new = Wrote(es, i, At(v, n))
    <2>1. [es[i] EXCEPT !.index = index] = At(v, n)
      BY <1>8, <1>9, <1>11 DEF Entry, At
    <2> QED BY <1>5, <2>1 DEF Wrote
  <1>13. At(v, n) \in Entry /\ At(v, n).key = v /\ At(v, n).index = index
    <2>1. n \in Nat \ {0}
      BY <1>11
    <2> QED BY <1>11, <2>1, TruncatedIs DEF At, Entry
  <1> DEFINE e == At(v, n)
  <1> HIDE DEF e
  <1>14. Changed(new, es, i, e)
    BY <1>8, <1>9, <1>12, <1>13, EntryReplaced DEF e
  <1>15. /\ Searchable(new) /\ IsPool(new) /\ Len(new) = Len(es)
         /\ new[i] = e /\ \A j \in Valid(es) : j # i => new[j] = es[j]
         /\ Valid(new) = Valid(es)
    BY <1>8, <1>9, <1>14 DEF Changed, Differs
  <1>16. PoolOK(new)
    BY <1>9, <1>15 DEF PoolOK
  <1>17. ASSUME NEW j \in Valid(new), new[j].index # NoIndex
         PROVE  IsNamed(cs, new[j].index, new[j].key)
    <2>1. CASE j = i
      BY <1>11, <1>13, <1>15, <2>1 DEF e, IsNamed
    <2>2. CASE j # i
      <3>1. new[j] = es[j] /\ j \in Valid(es)
        BY <1>15, <2>2
      <3>2. IsNamed(constants, es[j].index, es[j].key)
        BY <1>10, <1>17, <3>1 DEF Points
      <3> QED BY <1>2, <1>11, <3>1, <3>2, NamedLater
    <2> QED BY <2>1, <2>2
  <1>18. ASSUME NEW j \in Valid(pools[p]), pools[p][j].index # NoIndex
         PROVE  \E l \in Valid(new) : new[l] = pools[p][j]
    <2>1. PICK l \in Valid(es) : es[l] = pools[p][j]
      BY <1>8 DEF old
    <2>2. CASE l # i
      BY <1>15, <2>1, <2>2
    <2>3. CASE l = i
      <3>1. index = es[i].index
        BY <1>6, <1>7, <1>18, <2>1, <2>3
      <3>2. es[i] = At(v, n)
        BY <1>8, <1>9, <1>11, <3>1 DEF Entry, At
      <3> QED BY <1>15, <2>1, <2>3, <3>2 DEF e
    <2> QED BY <2>2, <2>3
  <1>19. ASSUME NEW k \in 1 .. Len(cs), k \notin 1 .. Len(constants)
         PROVE  Pool(cs[k]) = p /\ \E l \in Valid(new) : new[l] = At(cs[k], k)
    <2>1. k = n /\ cs[k] = v
      BY <1>11, <1>19
    <2>2. i \in Valid(new) /\ new[i] = At(cs[k], k)
      BY <1>8, <1>15, <2>1 DEF e
    <2> QED BY <2>1, <2>2 DEF p
  <1>20. PoolsOK([pools EXCEPT ![p] = new], cs)
    <2>1. Points(new, cs)
      BY <1>17 DEF Points
    <2> QED BY <1>1, <1>11, <1>16, <1>18, <1>19, <2>1, PoolReplaced
  <1>21. IsNamed(cs, index, v)
    BY <1>11 DEF IsNamed
  <1> QED BY <1>4, <1>11, <1>20, <1>21 DEF Made, p, m


-----------------------------------------------------------------------------
(* The invariant                                                           *)

Ops == PlainOps \union ConstOps

\* The operand of an instruction is what 24 bits keep of the index of its value.
Names(i, cs) == i.op \in ConstOps => IsNamed(cs, i.index, i.value)

Meant(code, cs) == \A n \in 1 .. Len(code) : Names(code[n], cs)

ChunkOK(c, l, cs) == LinesOK(c, l) /\ Meant(c.code, cs)

Inductive ==
  /\ line \in 1 .. MaxLine
  /\ ChunkOK(chunk, line, constants)
  /\ opStack \in Seq(Ops) /\ Len(opStack) <= Len(chunk.code)
  /\ PoolsOK(pools, constants)

-----------------------------------------------------------------------------
(* Emitting                                                                *)

\* What is right at a line and some constants is right later.
LEMMA LaterOK ==
  ASSUME NEW c, NEW l \in Nat, NEW cs, ChunkOK(c, l, cs),
         NEW m \in Nat, l <= m, NEW ds, Grown(ds, cs), cs \in Seq(Constants)
  PROVE  ChunkOK(c, m, ds)
  <1>1. /\ c \in [code : Seq(Instr), ranges : Seq(LineRange)] /\ IsTable(c.ranges)
        /\ \A n \in 1 .. Len(c.code) : c.code[n].line <= l
        /\ \A i \in 1 .. Len(c.ranges) : c.ranges[i].line <= l
        /\ Covers(c.ranges, c.code) /\ Fits(c.ranges, c.code) /\ Behind(c.ranges, c.code)
    BY DEF ChunkOK, LinesOK
  <1>2. \A n \in 1 .. Len(c.code) : c.code[n].line <= m
    <2>1. \A n \in 1 .. Len(c.code) : c.code[n].line \in Nat
      BY <1>1, CodeIs
    <2> QED BY <1>1, <2>1
  <1>3. \A i \in 1 .. Len(c.ranges) : c.ranges[i].line <= m
    <2>1. \A i \in 1 .. Len(c.ranges) : c.ranges[i].line \in Nat
      BY <1>1, TableIs
    <2> QED BY <1>1, <2>1
  <1>4. LinesOK(c, m)
    BY <1>1, <1>2, <1>3 DEF LinesOK
  <1>5. ASSUME NEW n \in 1 .. Len(c.code)
        PROVE  Names(c.code[n], ds)
    <2>1. Names(c.code[n], cs)
      BY DEF ChunkOK, Meant
    <2> QED BY <2>1, NamedLater DEF Names
  <1> QED BY <1>4, <1>5 DEF ChunkOK, Meant

\* Writing an instruction.
LEMMA WriteOK ==
  ASSUME NEW c, NEW l \in Nat, NEW cs, ChunkOK(c, l, cs),
         NEW i \in Instr, l <= i.line, Names(i, cs)
  PROVE  /\ ChunkOK(Write(c, i), i.line, cs)
         /\ Len(c.code) \in Nat /\ Len(Write(c, i).code) = Len(c.code) + 1
  <1> DEFINE code == c.code
             d == Write(c, i).code
  <1>1. LinesOK(c, l) /\ code \in Seq(Instr) /\ Meant(code, cs)
    BY DEF ChunkOK, LinesOK
  <1>2. LinesOK(Write(c, i), i.line) /\ d = Append(code, i)
    BY <1>1, Written
  <1> HIDE DEF code, d
  <1>3. Longer(d, code, i)
    BY <1>1, <1>2, AppendIs
  <1>4. Len(code) \in Nat
    BY <1>1, CodeIs
  <1>5. ASSUME NEW n \in 1 .. Len(d)
        PROVE  Names(d[n], cs)
    <2>1. n \in 1 .. Len(code) \/ n = Len(code) + 1
      BY <1>3, <1>4 DEF Longer
    <2> QED BY <1>1, <1>3, <2>1 DEF Longer, Meant
  <1> QED BY <1>2, <1>3, <1>4, <1>5 DEF ChunkOK, Meant, Longer, code, d

\* Taking instructions back.
LEMMA FallOK ==
  ASSUME NEW c, NEW l \in Nat, NEW cs, ChunkOK(c, l, cs), NEW n \in 0 .. Len(c.code)
  PROVE  /\ ChunkOK(Fallback(c, n), l, cs)
         /\ Len(Fallback(c, n).code) = Len(c.code) - n
  <1> DEFINE code == c.code
             d == Fallback(c, n).code
             left == Len(code) - n
  <1>1. LinesOK(c, l) /\ code \in Seq(Instr) /\ Meant(code, cs) /\ n \in 0 .. Len(code)
    BY DEF ChunkOK, LinesOK
  <1>2. LinesOK(Fallback(c, n), l) /\ d = SubSeq(code, 1, left)
    BY <1>1, Fallen
  <1> HIDE DEF code, d
  <1>3. left \in 0 .. Len(code) /\ Len(code) \in Nat
    BY <1>1, CodeIs
  <1> HIDE DEF left
  <1>4. Prefix(d, code, left)
    BY <1>1, <1>2, <1>3, PrefixIs
  <1>5. ASSUME NEW k \in 1 .. Len(d)
        PROVE  Names(d[k], cs)
    <2>1. k \in 1 .. left /\ k \in 1 .. Len(code)
      BY <1>3, <1>4 DEF Prefix
    <2> QED BY <1>1, <1>4, <2>1 DEF Prefix, Meant
  <1> QED BY <1>2, <1>4, <1>5 DEF ChunkOK, Meant, Prefix, code, d, left

\* Plain instructions have no operand to name.
LEMMA PlainIs ==
  ASSUME NEW op \in PlainOps, NEW width \in Nat \ {0}, NEW l \in Nat \ {0}, NEW cs
  PROVE  /\ Plain(op, width, l) \in Instr /\ Plain(op, width, l).line = l
         /\ Names(Plain(op, width, l), cs)
  <1>1. op \notin ConstOps
    BY DEF PlainOps, ConstOps
  <1> QED BY <1>1 DEF Plain, Instr, PlainInstr, Names

\* instructionOptimize writes the opcode and takes it back with n operands.
LEMMA FoldedOK ==
  ASSUME Inductive, NEW l \in line .. MaxLine, NEW op \in PlainOps,
         NEW n \in Nat, n <= Len(chunk.code)
  PROVE  /\ ChunkOK(Folded(op, n, l), l, constants)
         /\ Len(chunk.code) \in Nat /\ Len(Folded(op, n, l).code) = Len(chunk.code) - n
  <1> DEFINE i == Plain(op, 1, l)
             c == Write(chunk, i)
  <1>1. line \in Nat /\ l \in Nat \ {0} /\ line <= l /\ ChunkOK(chunk, line, constants)
    BY BoundAssumption DEF Inductive
  <1>2. i \in Instr /\ i.line = l /\ Names(i, constants)
    BY <1>1, PlainIs
  <1> HIDE DEF i, c
  <1>3. ChunkOK(c, l, constants) /\ Len(chunk.code) \in Nat /\ Len(c.code) = Len(chunk.code) + 1
    BY <1>1, <1>2, WriteOK DEF c
  <1>4. n + 1 \in 0 .. Len(c.code)
    BY <1>3
  <1>5. /\ ChunkOK(Fallback(c, n + 1), l, constants)
        /\ Len(Fallback(c, n + 1).code) = Len(c.code) - (n + 1)
    BY <1>1, <1>3, <1>4, FallOK
  <1>6. Folded(op, n, l) = Fallback(c, n + 1)
    BY DEF Folded, c, i
  <1>7. Len(c.code) - (n + 1) = Len(chunk.code) - n
    BY <1>3
  <1> QED BY <1>3, <1>5, <1>6, <1>7

\* The chunk that emissions at line l begin with is right there.
LEMMA ChunkAt ==
  ASSUME Inductive, NEW l \in line .. MaxLine
  PROVE  /\ ChunkOK(chunk, l, constants)
         /\ l \in Nat \ {0} /\ l \in 1 .. MaxLine /\ constants \in Seq(Constants)
         /\ opStack \in Seq(Ops) /\ Len(opStack) \in Nat /\ Len(opStack) <= Len(chunk.code)
         /\ Len(chunk.code) \in Nat
  <1>1. /\ line \in Nat /\ l \in Nat \ {0} /\ line <= l /\ l \in 1 .. MaxLine
        /\ ChunkOK(chunk, line, constants)
        /\ opStack \in Seq(Ops) /\ Len(opStack) <= Len(chunk.code)
    BY BoundAssumption DEF Inductive
  <1>2. constants \in Seq(Constants)
    BY DEF Inductive, PoolsOK
  <1>3. Grown(constants, constants)
    BY <1>2, LenProperties DEF Grown
  <1>4. ChunkOK(chunk, l, constants)
    BY <1>1, <1>2, <1>3, LaterOK
  <1>5. chunk.code \in Seq(Instr)
    BY <1>1 DEF ChunkOK, LinesOK
  <1>6. Len(chunk.code) \in Nat
    BY <1>5, CodeIs
  <1>7. Len(opStack) \in Nat
    BY <1>1, LenProperties
  <1> QED BY <1>1, <1>2, <1>4, <1>6, <1>7

\* A plain instruction at line l, and the opStack it leaves.
LEMMA PlainKeeps ==
  ASSUME NEW l \in 1 .. MaxLine, line' = l, PoolsOK(pools, constants),
         NEW c, ChunkOK(c, l, constants),
         NEW op \in PlainOps, NEW width \in Nat \ {0},
         chunk' = Write(c, Plain(op, width, l)),
         opStack' \in Seq(Ops), Len(opStack') <= Len(c.code) + 1,
         UNCHANGED <<pools, constants>>
  PROVE  Inductive'
  <1> DEFINE i == Plain(op, width, l)
  <1>1. l \in Nat \ {0} /\ l \in Nat /\ l <= l
    BY BoundAssumption
  <1>2. i \in Instr /\ i.line = l /\ Names(i, constants)
    BY <1>1, PlainIs
  <1>3. chunk' = Write(c, i)
    OBVIOUS
  <1> HIDE DEF i
  <1>4. ChunkOK(Write(c, i), l, constants) /\ Len(Write(c, i).code) = Len(c.code) + 1
    BY <1>1, <1>2, WriteOK
  <1> QED BY <1>3, <1>4 DEF Inductive

\* emitOp after the operands were taken back.
LEMMA EmitOpKeeps ==
  ASSUME NEW l \in 1 .. MaxLine, line' = l, PoolsOK(pools, constants),
         NEW c, ChunkOK(c, l, constants),
         NEW ops \in Seq(Ops), Len(ops) <= Len(c.code),
         NEW op \in PlainOps, EmitOp(c, ops, op, l)
  PROVE  Inductive'
  <1>1. /\ chunk' = Write(c, Plain(op, 1, l)) /\ opStack' = Append(ops, op)
        /\ UNCHANGED <<pools, constants>>
    BY DEF EmitOp
  <1>2. c.code \in Seq(Instr)
    BY DEF ChunkOK, LinesOK
  <1>3. Len(ops) \in Nat /\ Len(c.code) \in Nat
    BY <1>2, LenProperties
  <1>4. op \in Ops
    BY DEF Ops
  <1>5. Append(ops, op) \in Seq(Ops) /\ Len(Append(ops, op)) = Len(ops) + 1
    BY <1>4, AppendProperties
  <1>6. opStack' \in Seq(Ops) /\ Len(opStack') <= Len(c.code) + 1
    BY <1>1, <1>3, <1>5
  <1> QED BY <1>1, <1>6, PlainKeeps

\* emitConstant.
LEMMA EmitConstantKeeps ==
  ASSUME NEW l \in 1 .. MaxLine, line' = l, PoolsOK(pools, constants),
         NEW c, ChunkOK(c, l, constants),
         NEW ops \in Seq(Ops), Len(ops) <= Len(c.code),
         NEW v \in Constants, EmitConstant(c, ops, v, l)
  PROVE  Inductive'
  <1> DEFINE m == MakeConstant(v)
             i == [op |-> "CONSTANT", width |-> 4, line |-> l, index |-> m.index, value |-> v]
  <1>1. Made(m, v)
    BY MadeIs
  <1>2. /\ chunk' = Write(c, i) /\ opStack' = Append(ops, "CONSTANT")
        /\ pools' = [pools EXCEPT ![Pool(v)] = m.pool] /\ constants' = m.constants
    BY DEF EmitConstant
  <1> HIDE DEF m
  <1>3. /\ PoolsOK(pools', constants') /\ Grown(constants', constants)
        /\ IsNamed(constants', m.index, v)
    BY <1>1, <1>2 DEF Made
  <1>4. l \in Nat \ {0} /\ l \in Nat /\ l <= l /\ constants \in Seq(Constants)
    BY BoundAssumption DEF PoolsOK
  <1>5. constants' \in Seq(Constants)
    BY <1>3 DEF Grown
  <1>6. m.index \in Nat
    <2>1. PICK n \in 1 .. Len(constants') : Truncated(n) = m.index
      BY <1>3 DEF IsNamed
    <2>2. Len(constants') \in Nat
      BY <1>5, LenProperties
    <2>3. n \in Nat \ {0}
      BY <2>1, <2>2
    <2> QED BY <2>1, <2>3, TruncatedIs
  <1>7. i \in Instr /\ i.line = l
    BY <1>4, <1>6 DEF Instr, ConstInstr, ConstOps
  <1>8. Names(i, constants')
    BY <1>3 DEF Names
  <1> HIDE DEF i
  <1>9. ChunkOK(c, l, constants')
    BY <1>3, <1>4, LaterOK
  <1>10. ChunkOK(Write(c, i), l, constants') /\ Len(Write(c, i).code) = Len(c.code) + 1
    BY <1>4, <1>7, <1>8, <1>9, WriteOK
  <1>11. opStack' \in Seq(Ops) /\ Len(opStack') <= Len(chunk'.code)
    <2>1. c.code \in Seq(Instr)
      BY DEF ChunkOK, LinesOK
    <2>2. Len(ops) \in Nat /\ Len(c.code) \in Nat
      BY <2>1, LenProperties
    <2>3. "CONSTANT" \in Ops
      BY DEF Ops, ConstOps
    <2>4. Append(ops, "CONSTANT") \in Seq(Ops) /\ Len(Append(ops, "CONSTANT")) = Len(ops) + 1
      BY <2>3, AppendProperties
    <2> QED BY <1>2, <1>10, <2>2, <2>4
  <1> QED BY <1>2, <1>3, <1>10, <1>11 DEF Inductive

-----------------------------------------------------------------------------
(* Actions                                                                 *)

\* What is left of the opStack without its last n.
LEMMA WithoutIs ==
  ASSUME opStack \in Seq(Ops), NEW n \in Nat, n <= Len(opStack)
  PROVE  Without(n) \in Seq(Ops) /\ Len(Without(n)) = Len(opStack) - n
  <1> DEFINE k == Len(opStack) - n
  <1>1. Len(opStack) \in Nat
    BY LenProperties
  <1>2. k \in Nat /\ k <= Len(opStack)
    BY <1>1
  <1>3. \A j \in 1 .. k : opStack[j] \in Ops
    <2>1. \A j \in 1 .. Len(opStack) : opStack[j] \in Ops
      BY ElementOfSeq
    <2> QED BY <1>1, <1>2, <2>1
  <1>4. Without(n) = SubSeq(opStack, 1, k)
    BY DEF Without
  <1> HIDE DEF k
  <1>5. 1 \in Int /\ k \in Int
    BY <1>2
  <1>6. /\ SubSeq(opStack, 1, k) \in Seq(Ops)
        /\ Len(SubSeq(opStack, 1, k)) = IF 1 <= k THEN k - 1 + 1 ELSE 0
    BY <1>3, <1>5, SubSeqProperties
  <1>7. Len(SubSeq(opStack, 1, k)) = k
    BY <1>2, <1>6
  <1> QED BY <1>4, <1>6, <1>7 DEF k

\* opStack_peek finds an opcode only where the opStack reaches.
LEMMA PeekIs ==
  ASSUME NEW n \in Nat, Len(opStack) \in Nat, Peek(n) # "NONE"
  PROVE  n + 1 <= Len(opStack)
  <1>1. Len(opStack) > n
    BY DEF Peek
  <1> QED BY <1>1

\* A folded operator leaves a chunk and an opStack that fit.
LEMMA FoldLeaves ==
  ASSUME Inductive, NEW l \in line .. MaxLine, NEW op \in PlainOps,
         NEW n \in Nat, n <= Len(opStack)
  PROVE  /\ ChunkOK(Folded(op, n, l), l, constants)
         /\ Without(n) \in Seq(Ops) /\ Len(Without(n)) <= Len(Folded(op, n, l).code)
  <1>1. opStack \in Seq(Ops) /\ Len(opStack) \in Nat /\ Len(opStack) <= Len(chunk.code)
        /\ Len(chunk.code) \in Nat
    BY ChunkAt
  <1>2. n <= Len(chunk.code)
    BY <1>1
  <1>3. /\ ChunkOK(Folded(op, n, l), l, constants)
        /\ Len(Folded(op, n, l).code) = Len(chunk.code) - n
    BY <1>2, FoldedOK
  <1>4. Without(n) \in Seq(Ops) /\ Len(Without(n)) = Len(opStack) - n
    BY <1>1, WithoutIs
  <1> QED BY <1>1, <1>3, <1>4

\* The operand's opcode becomes that of a super instruction.
Fused(c) == [c EXCEPT !.code[Len(c.code)].op = FusedOp(@)]

\* No byte and no operand changes with it.
LEMMA FusedOK ==
  ASSUME NEW c, NEW l \in Nat, NEW cs, ChunkOK(c, l, cs), Len(c.code) # 0
  PROVE  ChunkOK(Fused(c), l, cs)
  <1> DEFINE code == c.code
             k == Len(code)
             i == code[k]
             e == [i EXCEPT !.op = FusedOp(i.op)]
             new == Fused(c)
             d == new.code
  <1>1. /\ c \in [code : Seq(Instr), ranges : Seq(LineRange)] /\ IsTable(c.ranges)
        /\ code \in Seq(Instr) /\ Meant(code, cs)
        /\ \A n \in 1 .. Len(code) : code[n].line <= l
        /\ \A n \in 1 .. Len(c.ranges) : c.ranges[n].line <= l
        /\ Covers(c.ranges, code) /\ Fits(c.ranges, code) /\ Behind(c.ranges, code)
    BY DEF ChunkOK, LinesOK
  <1>2. Len(code) \in Nat /\ k \in 1 .. Len(code) /\ i \in Instr
    <2>1. Len(code) \in Nat /\ k \in 1 .. Len(code)
      BY <1>1, CodeIs
    <2> QED BY <1>1, <2>1, CodeIs
  <1>3. /\ new.ranges = c.ranges /\ d = [code EXCEPT ![k] = e]
        /\ new = [code |-> d, ranges |-> c.ranges]
    <2> DEFINE f == [code EXCEPT ![k] = e]
    <2>1. new = [c EXCEPT !.code = f]
      BY DEF Fused
    <2> HIDE DEF f, code, new
    <2>2. c \in [code : Seq(Instr), ranges : Seq(LineRange)]
      BY <1>1
    <2>3. new.ranges = c.ranges /\ d = f /\ new = [code |-> f, ranges |-> c.ranges]
      BY <2>1, <2>2
    <2> QED BY <2>3 DEF f
  <1> HIDE DEF i
  <1>4. /\ e \in Instr /\ e.width = i.width /\ e.line = i.line
        /\ (e.op \in ConstOps => i.op \in ConstOps /\ e.index = i.index /\ e.value = i.value)
    <2>1. FusedOp(i.op) \in {"OP_CONST", "OP_LOCAL"}
      BY DEF FusedOp
    <2>2. FusedOp(i.op) = "OP_CONST" => i.op = "CONSTANT"
      BY DEF FusedOp
    <2>3. "OP_LOCAL" \in PlainOps /\ "OP_LOCAL" \notin ConstOps /\ "CONSTANT" \in ConstOps
          /\ "CONSTANT" \notin PlainOps /\ "OP_CONST" \in ConstOps
      BY DEF PlainOps, ConstOps
    <2> DEFINE o == FusedOp(i.op)
    <2>4. o \in PlainOps \union ConstOps /\ (o \in ConstOps => i.op = "CONSTANT")
      BY <2>1, <2>2, <2>3
    <2> HIDE DEF o
    <2>5. CASE i \in PlainInstr
      <3>1. i.op \in PlainOps
        BY <2>5 DEF PlainInstr
      <3>2. o \in PlainOps /\ o \notin ConstOps
        BY <2>3, <2>4, <3>1
      <3>3. [i EXCEPT !.op = o] \in PlainInstr
        BY <2>5, <3>2 DEF PlainInstr
      <3>4. /\ [i EXCEPT !.op = o].op = o /\ [i EXCEPT !.op = o].width = i.width
            /\ [i EXCEPT !.op = o].line = i.line
        BY <2>5 DEF PlainInstr
      <3> QED BY <3>2, <3>3, <3>4 DEF Instr, o
    <2>6. CASE i \in ConstInstr
      <3>1. [i EXCEPT !.op = o] \in ConstInstr
        BY <2>4, <2>6 DEF ConstInstr
      <3>2. /\ [i EXCEPT !.op = o].op = o /\ [i EXCEPT !.op = o].width = i.width
            /\ [i EXCEPT !.op = o].line = i.line /\ [i EXCEPT !.op = o].index = i.index
            /\ [i EXCEPT !.op = o].value = i.value
        BY <2>6 DEF ConstInstr
      <3> QED BY <2>3, <2>4, <3>1, <3>2 DEF Instr, o
    <2> QED BY <1>2, <2>5, <2>6 DEF Instr
  <1> HIDE DEF e, new, d
  <1>5. /\ d \in Seq(Instr) /\ Len(d) = Len(code)
        /\ \A n \in 1 .. Len(code) : d[n] = IF n = k THEN e ELSE code[n]
    BY <1>1, <1>2, <1>3, <1>4, ExceptSeq
  <1> HIDE DEF code, k
  <1>6. ASSUME NEW n \in 1 .. Len(code)
        PROVE  /\ d[n].width = code[n].width /\ d[n].line = code[n].line
               /\ Names(d[n], cs)
    <2>1. Names(code[n], cs)
      BY <1>1 DEF Meant
    <2>2. CASE n = k
      BY <1>4, <1>5, <2>1, <2>2 DEF Names, i
    <2>3. CASE n # k
      BY <1>5, <2>1, <2>3
    <2> QED BY <2>2, <2>3
  <1>7. \A n \in 0 .. Len(code) : Ends(d)[n] = Ends(code)[n]
    <2>1. /\ Len(code) \in Nat /\ Len(code) <= Len(d) /\ Len(code) <= Len(code)
          /\ \A n \in 1 .. Len(code) : d[n].width = code[n].width
      BY <1>2, <1>5, <1>6
    <2> QED BY <1>1, <1>5, <2>1, EndsAgree
  <1>8. Count(d) = Count(code)
    <2>1. Count(d) = Ends(d)[Len(d)] /\ Count(code) = Ends(code)[Len(code)]
      BY <1>1, <1>5, EndsAre
    <2>2. Len(code) \in 0 .. Len(code)
      BY <1>2
    <2> QED BY <1>5, <1>7, <2>1, <2>2
  <1>9. Covers(c.ranges, d)
    <2>1. code # <<>>
      BY <1>2, EmptySeq
    <2> QED BY <1>1, <1>8, <2>1 DEF Covers
  <1>10. Fits(c.ranges, d)
    <2> SUFFICES ASSUME NEW n \in 1 .. Len(d), NEW j \in 1 .. Len(c.ranges),
                        Candidate(c.ranges, Ends(d)[n] - 1, j)
                 PROVE  Right(c.ranges[j].line, d[n])
      BY DEF Fits
    <2>1. n \in 1 .. Len(code) /\ Ends(d)[n] = Ends(code)[n]
      BY <1>2, <1>5, <1>7
    <2>2. Right(c.ranges[j].line, code[n])
      BY <1>1, <2>1 DEF Fits
    <2> QED BY <1>6, <2>1, <2>2 DEF Right
  <1>11. Behind(c.ranges, d)
    <2> SUFFICES ASSUME NEW j \in 1 .. Len(c.ranges), NEW n \in 1 .. Len(d),
                        c.ranges[j].offset >= Ends(d)[n]
                 PROVE  d[n].line <= c.ranges[j].line
      BY DEF Behind
    <2>1. n \in 1 .. Len(code) /\ Ends(d)[n] = Ends(code)[n] /\ d[n].line = code[n].line
      BY <1>2, <1>5, <1>6, <1>7
    <2> QED BY <1>1, <2>1 DEF Behind
  <1>12. LinesOK(new, l)
    <2>1. /\ new \in [code : Seq(Instr), ranges : Seq(LineRange)]
          /\ new.code = d /\ new.ranges = c.ranges
      BY <1>1, <1>3, <1>5
    <2>2. \A n \in 1 .. Len(d) : d[n].line <= l
      BY <1>1, <1>5, <1>6
    <2> QED BY <1>1, <1>9, <1>10, <1>11, <2>1, <2>2 DEF LinesOK
  <1>13. Meant(d, cs)
    BY <1>5, <1>6 DEF Meant
  <1> QED BY <1>12, <1>13 DEF ChunkOK, new, d

\* The invariant holds of the empty chunk.
LEMMA EmptyOK ==
  ASSUME NEW l \in Nat, NEW cs, NEW c, c = [code |-> <<>>, ranges |-> <<>>]
  PROVE  ChunkOK(c, l, cs) /\ Len(c.code) = 0
  <1>1. <<>> \in Seq(Instr) /\ <<>> \in Seq(LineRange) /\ Len(<<>>) = 0
    BY EmptySeq
  <1> QED BY <1>1 DEF ChunkOK, LinesOK, IsTable, Covers, Fits, Behind, Meant

\* What OnLine says of l.
LEMMA OnLineIs ==
  ASSUME Inductive, NEW l \in 1 .. MaxLine, OnLine(l)
  PROVE  l \in line .. MaxLine /\ line' = l
  BY DEF OnLine

\* Emitting a constant keeps the invariant.
LEMMA ConstantKeeps ==
  ASSUME Inductive, NEW l \in 1 .. MaxLine, NEW v \in Constants, Constant(v, l)
  PROVE  Inductive'
  <1>1. l \in line .. MaxLine /\ line' = l /\ EmitConstant(chunk, opStack, v, l)
    BY OnLineIs DEF Constant
  <1>2. /\ ChunkOK(chunk, l, constants) /\ opStack \in Seq(Ops)
        /\ Len(opStack) <= Len(chunk.code)
    BY <1>1, ChunkAt
  <1> QED BY <1>1, <1>2, EmitConstantKeeps DEF Inductive

\* Emitting nil, true or false keeps it.
LEMMA LiteralKeeps ==
  ASSUME Inductive, NEW l \in 1 .. MaxLine, Literal(l)
  PROVE  Inductive'
  <1>1. l \in line .. MaxLine /\ line' = l /\ EmitOp(chunk, opStack, "LITERAL", l)
    BY OnLineIs DEF Literal
  <1>2. /\ ChunkOK(chunk, l, constants) /\ opStack \in Seq(Ops)
        /\ Len(opStack) <= Len(chunk.code)
    BY <1>1, ChunkAt
  <1>3. "LITERAL" \in PlainOps
    BY DEF PlainOps
  <1> QED BY <1>1, <1>2, <1>3, EmitOpKeeps DEF Inductive

\* So does a load of a local,
LEMMA LocalKeeps ==
  ASSUME Inductive, NEW l \in 1 .. MaxLine, Local(l)
  PROVE  Inductive'
  <1>1. /\ l \in line .. MaxLine /\ line' = l
        /\ chunk' = Write(chunk, Plain("GET_LOCAL", 3, l))
        /\ opStack' = Append(opStack, "GET_LOCAL")
        /\ UNCHANGED <<pools, constants>>
    BY OnLineIs DEF Local
  <1>2. /\ ChunkOK(chunk, l, constants) /\ opStack \in Seq(Ops)
        /\ Len(opStack) \in Nat /\ Len(chunk.code) \in Nat
        /\ Len(opStack) <= Len(chunk.code)
    BY <1>1, ChunkAt
  <1>3. "GET_LOCAL" \in PlainOps /\ "GET_LOCAL" \in Ops /\ 3 \in Nat \ {0}
    BY DEF PlainOps, Ops
  <1>4. opStack' \in Seq(Ops) /\ Len(opStack') <= Len(chunk.code) + 1
    BY <1>1, <1>2, <1>3, AppendProperties
  <1>5. PoolsOK(pools, constants)
    BY DEF Inductive
  <1> QED BY <1>1, <1>2, <1>3, <1>4, <1>5, PlainKeeps

\* and an instruction that clears the optimizer's stack.
LEMMA OtherKeeps ==
  ASSUME Inductive, NEW l \in 1 .. MaxLine, NEW width \in {1, 3}, Other(width, l)
  PROVE  Inductive'
  <1>1. /\ l \in line .. MaxLine /\ line' = l
        /\ chunk' = Write(chunk, Plain("OTHER", width, l))
        /\ opStack' = <<>>
        /\ UNCHANGED <<pools, constants>>
    BY OnLineIs DEF Other
  <1>2. ChunkOK(chunk, l, constants) /\ Len(chunk.code) \in Nat
    BY <1>1, ChunkAt
  <1>3. "OTHER" \in PlainOps /\ width \in Nat \ {0}
    BY DEF PlainOps
  <1>4. opStack' \in Seq(Ops) /\ Len(opStack') <= Len(chunk.code) + 1
    <2>1. <<>> \in Seq(Ops) /\ Len(<<>>) = 0
      BY EmptySeq
    <2> QED BY <1>1, <1>2, <2>1
  <1>5. PoolsOK(pools, constants)
    BY DEF Inductive
  <1> QED BY <1>1, <1>2, <1>3, <1>4, <1>5, PlainKeeps

\* Folding a binary operator: three instructions are taken back, a constant is emitted.
LEMMA FoldAddKeeps ==
  ASSUME Inductive, NEW l \in 1 .. MaxLine, NEW v \in Constants, FoldAdd(v, l)
  PROVE  Inductive'
  <1>1. /\ l \in line .. MaxLine /\ line' = l /\ Peek(1) = "CONSTANT"
        /\ EmitConstant(Folded("ADD", 2, l), Without(2), v, l)
    BY OnLineIs DEF FoldAdd
  <1>2. 2 <= Len(opStack)
    <2>1. Len(opStack) \in Nat
      BY <1>1, ChunkAt
    <2> QED BY <1>1, <2>1, PeekIs
  <1>3. "ADD" \in PlainOps
    BY DEF PlainOps
  <1>4. /\ ChunkOK(Folded("ADD", 2, l), l, constants)
        /\ Without(2) \in Seq(Ops) /\ Len(Without(2)) <= Len(Folded("ADD", 2, l).code)
    BY <1>1, <1>2, <1>3, FoldLeaves
  <1> QED BY <1>1, <1>4, EmitConstantKeeps DEF Inductive

\* Folding a minus,
LEMMA FoldNegateKeeps ==
  ASSUME Inductive, NEW l \in 1 .. MaxLine, NEW v \in Constants, FoldNegate(v, l)
  PROVE  Inductive'
  <1>1. /\ l \in line .. MaxLine /\ line' = l /\ Peek(0) = "CONSTANT"
        /\ EmitConstant(Folded("NEGATE", 1, l), Without(1), v, l)
    BY OnLineIs DEF FoldNegate
  <1>2. 1 <= Len(opStack)
    <2>1. Len(opStack) \in Nat
      BY <1>1, ChunkAt
    <2> QED BY <1>1, <2>1, PeekIs
  <1>3. "NEGATE" \in PlainOps
    BY DEF PlainOps
  <1>4. /\ ChunkOK(Folded("NEGATE", 1, l), l, constants)
        /\ Without(1) \in Seq(Ops) /\ Len(Without(1)) <= Len(Folded("NEGATE", 1, l).code)
    BY <1>1, <1>2, <1>3, FoldLeaves
  <1> QED BY <1>1, <1>4, EmitConstantKeeps DEF Inductive

\* and a not.
LEMMA FoldNotKeeps ==
  ASSUME Inductive, NEW l \in 1 .. MaxLine, FoldNot(l)
  PROVE  Inductive'
  <1>1. /\ l \in line .. MaxLine /\ line' = l /\ Peek(0) \in {"CONSTANT", "LITERAL"}
        /\ EmitOp(Folded("NOT", 1, l), Without(1), "LITERAL", l)
    BY OnLineIs DEF FoldNot
  <1>2. 1 <= Len(opStack)
    <2>1. Len(opStack) \in Nat
      BY <1>1, ChunkAt
    <2>2. Peek(0) # "NONE"
      BY <1>1
    <2> QED BY <2>1, <2>2, PeekIs
  <1>3. "NOT" \in PlainOps /\ "LITERAL" \in PlainOps
    BY DEF PlainOps
  <1>4. /\ ChunkOK(Folded("NOT", 1, l), l, constants)
        /\ Without(1) \in Seq(Ops) /\ Len(Without(1)) <= Len(Folded("NOT", 1, l).code)
    BY <1>1, <1>2, <1>3, FoldLeaves
  <1> QED BY <1>1, <1>3, <1>4, EmitOpKeeps DEF Inductive

\* An operator that is not merged keeps the invariant.
LEMMA OperatorKeeps ==
  ASSUME Inductive, NEW l \in 1 .. MaxLine, NEW op \in {"ADD", "NOT", "NEGATE"}, Operator(op, l)
  PROVE  Inductive'
  <1>1. l \in line .. MaxLine /\ line' = l /\ EmitOp(chunk, opStack, op, l)
    BY OnLineIs DEF Operator
  <1>2. /\ ChunkOK(chunk, l, constants) /\ opStack \in Seq(Ops)
        /\ Len(opStack) <= Len(chunk.code)
    BY <1>1, ChunkAt
  <1>3. op \in PlainOps
    BY DEF PlainOps
  <1> QED BY <1>1, <1>2, <1>3, EmitOpKeeps DEF Inductive

\* One that is merged with the load before it changes that load's opcode.
LEMMA FuseKeeps ==
  ASSUME Inductive, NEW l \in 1 .. MaxLine, NEW op \in {"ADD", "NOT", "NEGATE"}, Fuse(op, l)
  PROVE  Inductive'
  <1> DEFINE c == Folded(op, 0, l)
  <1>1. /\ l \in line .. MaxLine /\ line' = l /\ HasOperands(op)
        /\ chunk' = Fused(c) /\ opStack' = <<>>
        /\ UNCHANGED <<pools, constants>>
    BY OnLineIs DEF Fuse, Fused
  <1>2. Len(chunk.code) \in Nat /\ l \in Nat
    BY <1>1, ChunkAt
  <1>3. Len(chunk.code) # 0
    BY <1>1, <1>2 DEF HasOperands
  <1>4. op \in PlainOps /\ 0 <= Len(chunk.code)
    BY <1>2 DEF PlainOps
  <1>5. ChunkOK(c, l, constants) /\ Len(c.code) = Len(chunk.code) - 0
    BY <1>1, <1>4, FoldedOK
  <1> HIDE DEF c
  <1>6. Len(c.code) # 0
    BY <1>2, <1>3, <1>5
  <1>7. ChunkOK(Fused(c), l, constants)
    BY <1>2, <1>5, <1>6, FusedOK
  <1>8. opStack' \in Seq(Ops) /\ Len(opStack') = 0
    BY <1>1, EmptySeq
  <1>9. Len(chunk'.code) \in Nat
    <2>1. chunk'.code \in Seq(Instr)
      BY <1>1, <1>7 DEF ChunkOK, LinesOK
    <2> QED BY <2>1, CodeIs
  <1>10. PoolsOK(pools', constants')
    BY <1>1 DEF Inductive
  <1>11. Len(opStack') <= Len(chunk'.code)
    BY <1>8, <1>9
  <1> QED BY <1>1, <1>7, <1>8, <1>10, <1>11 DEF Inductive

\* A string made at run time changes the pool of strings and no chunk.
LEMMA InternStringKeeps ==
  ASSUME Inductive, NEW s \in Strings, InternString(s)
  PROVE  Inductive'
  <1>1. s \in Constants /\ Pool(s) = "strings"
    BY HashAssumption DEF Constants, Pool
  <1>2. /\ pools' = [pools EXCEPT ![Pool(s)] = Interned(s)]
        /\ UNCHANGED <<chunk, opStack, line, constants>>
    BY <1>1 DEF InternString
  <1>3. PoolsOK(pools, constants)
    BY DEF Inductive
  <1>4. PoolsOK(pools', constants)
    BY <1>1, <1>2, <1>3, InternKeeps
  <1> QED BY <1>2, <1>4 DEF Inductive

\* The next chunk is empty; the pools stay.
LEMMA NextChunkKeeps ==
  ASSUME Inductive, NextChunk
  PROVE  Inductive'
  <1>1. /\ chunk' = [code |-> <<>>, ranges |-> <<>>] /\ opStack' = <<>> /\ line' = 1
        /\ UNCHANGED <<pools, constants>>
    BY DEF NextChunk
  <1>2. 1 \in 1 .. MaxLine
    BY BoundAssumption
  <1>3. ChunkOK(chunk', 1, constants) /\ Len(chunk'.code) = 0
    BY <1>1, EmptyOK
  <1>4. opStack' \in Seq(Ops) /\ Len(opStack') = 0
    BY <1>1, EmptySeq
  <1> QED BY <1>1, <1>2, <1>3, <1>4 DEF Inductive

\* The pools are empty at first, and so are the constants.
LEMMA InitInductive ==
  Init => Inductive
  <1> SUFFICES ASSUME Init PROVE Inductive
    OBVIOUS
  <1>1. line \in 1 .. MaxLine /\ line = 1
    BY BoundAssumption DEF Init
  <1>2. ChunkOK(chunk, 1, constants) /\ Len(chunk.code) = 0
    BY EmptyOK DEF Init
  <1>3. opStack \in Seq(Ops) /\ Len(opStack) = 0
    BY EmptySeq DEF Init
  <1>4. <<>> \in Seq(Entry) /\ <<>> \in Seq(Constants) /\ Len(<<>>) = 0
    BY EmptySeq
  <1>5. IsPool(<<>>)
    BY <1>4 DEF IsPool
  <1>6. Valid(<<>>) = {}
    BY <1>4, <1>5, PoolIs
  <1>7. PoolOK(<<>>) /\ Points(<<>>, <<>>)
    BY <1>5, <1>6 DEF PoolOK, Searchable, Unique, Points
  <1>8. pools = [p \in PoolNames |-> <<>>] /\ constants = <<>>
    BY DEF Init, PoolNames
  <1>9. PoolsOK(pools, constants)
    BY <1>4, <1>7, <1>8 DEF PoolsOK, Listed, Once
  <1> QED BY <1>1, <1>2, <1>3, <1>9 DEF Inductive

\* Every step keeps the invariant.
LEMMA StepKeeps ==
  Inductive /\ [Next]_vars => Inductive'
  <1> SUFFICES ASSUME Inductive, [Next]_vars PROVE Inductive'
    OBVIOUS
  <1>1. ASSUME NEW l \in 1 .. MaxLine, NEW v \in Constants,
               Constant(v, l) \/ FoldAdd(v, l) \/ FoldNegate(v, l)
        PROVE  Inductive'
    BY <1>1, ConstantKeeps, FoldAddKeeps, FoldNegateKeeps
  <1>2. ASSUME NEW l \in 1 .. MaxLine, NEW width \in {1, 3}, Other(width, l)
        PROVE  Inductive'
    BY <1>2, OtherKeeps
  <1>3. ASSUME NEW l \in 1 .. MaxLine, NEW op \in {"ADD", "NOT", "NEGATE"},
               Fuse(op, l) \/ Operator(op, l)
        PROVE  Inductive'
    BY <1>3, FuseKeeps, OperatorKeeps
  <1>4. ASSUME NEW l \in 1 .. MaxLine, Literal(l) \/ Local(l) \/ FoldNot(l)
        PROVE  Inductive'
    BY <1>4, LiteralKeeps, LocalKeeps, FoldNotKeeps
  <1>5. ASSUME NEW s \in Strings, InternString(s)
        PROVE  Inductive'
    BY <1>5, InternStringKeeps
  <1>6. CASE NextChunk
    BY <1>6, NextChunkKeeps
  <1>7. CASE UNCHANGED vars
    BY <1>7 DEF vars, Inductive
  <1> QED BY <1>1, <1>2, <1>3, <1>4, <1>5, <1>6, <1>7 DEF Next

-----------------------------------------------------------------------------
(* Theorems                                                                *)

\* The line table covers the code and answers right, the pools can be searched,
\* each constant is in its pool and in the array once, and entries and operands
\* hold what 24 bits keep of its index.
THEOREM ChunkInvariant == Spec => []Inductive
  BY InitInductive, StepKeeps, PTL DEF Spec

\* What getLine answers for the last byte of an instruction.
LEMMA LineIs ==
  ASSUME Inductive, NEW n \in DOMAIN chunk.code
  PROVE  /\ Right(LineOf(n), chunk.code[n]) /\ LineOf(n) \in Nat \ {0}
         /\ chunk.code[n].line \in Nat
         /\ n # 1 => chunk.code[n - 1].line <= LineOf(n)
  <1> DEFINE code == chunk.code
             rs == chunk.ranges
             b == Ends(code)[n] - 1
  <1>1. /\ code \in Seq(Instr) /\ IsTable(rs)
        /\ Covers(rs, code) /\ Fits(rs, code) /\ Behind(rs, code)
    BY DEF Inductive, ChunkOK, LinesOK
  <1>2. n \in 1 .. Len(code) /\ Len(code) \in Nat /\ code[n].line \in Nat
    <2>1. n \in 1 .. Len(code) /\ Len(code) \in Nat
      BY <1>1, CodeIs
    <2> QED BY <1>1, <2>1, CodeIs
  <1>3. LineOf(n) = GetLine(rs, b)
    <2>1. n \in 0 .. Len(code)
      BY <1>2
    <2>2. Prefix(SubSeq(code, 1, n), code, n)
      BY <1>1, <2>1, PrefixIs
    <2> QED BY <2>2 DEF LineOf, LastByte, Prefix
  <1> HIDE DEF code, rs
  <1>4. b \in Nat /\ b + 1 <= Count(code) /\ Count(code) \in Nat
    <2>1. Count(code) = Ends(code)[Len(code)] /\ Ends(code)[0] = 0
      BY <1>1, EndsAre
    <2>2. /\ \A j \in 0 .. Len(code) : Ends(code)[j] \in Nat
          /\ \A i, j \in 0 .. Len(code) : i < j => Ends(code)[i] < Ends(code)[j]
      BY <1>1, EndsGrow
    <2>3. /\ n \in 0 .. Len(code) /\ 0 \in 0 .. Len(code) /\ Len(code) \in 0 .. Len(code)
          /\ 0 < n /\ (n = Len(code) \/ n < Len(code))
      BY <1>2
    <2>4. Ends(code)[n] \in Nat /\ Ends(code)[0] < Ends(code)[n] /\ Ends(code)[Len(code)] \in Nat
      BY <2>2, <2>3
    <2>5. Ends(code)[n] <= Ends(code)[Len(code)]
      BY <2>2, <2>3, <2>4
    <2> QED BY <2>1, <2>4, <2>5
  <1>5. n # 1 => n - 1 \in 1 .. Len(code) /\ Ends(code)[n - 1] \in Nat /\ Ends(code)[n - 1] <= b
    <2> SUFFICES ASSUME n # 1
                 PROVE  n - 1 \in 1 .. Len(code) /\ Ends(code)[n - 1] \in Nat /\ Ends(code)[n - 1] <= b
      OBVIOUS
    <2>1. n - 1 \in 1 .. Len(code) /\ n - 1 \in 0 .. Len(code) /\ n \in 0 .. Len(code) /\ n - 1 < n
      BY <1>2
    <2>2. Ends(code)[n - 1] \in Nat /\ Ends(code)[n] \in Nat /\ Ends(code)[n - 1] < Ends(code)[n]
      BY <1>1, <2>1, EndsGrow
    <2> QED BY <2>1, <2>2
  <1> HIDE DEF b
  <1>6. rs # <<>>
    <2>1. code # <<>>
      BY <1>2, EmptySeq
    <2> QED BY <1>1, <2>1 DEF Covers
  <1>7. b <= rs[Len(rs)].offset
    <2>1. rs[Len(rs)].offset \in Nat
      BY <1>1, <1>6, TableIs
    <2>2. Count(code) <= rs[Len(rs)].offset + 1
      BY <1>1, <1>6 DEF Covers
    <2> QED BY <1>4, <2>1, <2>2
  <1>8. PICK i \in 1 .. Len(rs) : Candidate(rs, b, i) /\ GetLine(rs, b) = rs[i].line
    BY <1>1, <1>4, <1>6, <1>7, GetLineIs
  <1>9. Right(rs[i].line, code[n])
    BY <1>1, <1>2, <1>8 DEF Fits, b
  <1>10. rs[i].line \in Nat \ {0} /\ rs[i].offset \in Nat
    BY <1>1, TableIs
  <1>11. n # 1 => code[n - 1].line <= rs[i].line
    <2>1. rs[i].offset >= b
      BY <1>8 DEF Candidate
    <2>2. n # 1 => n - 1 \in 1 .. Len(code) /\ rs[i].offset >= Ends(code)[n - 1]
      BY <1>4, <1>10, <1>5, <2>1
    <2> QED BY <1>1, <2>2 DEF Behind
  <1> QED BY <1>2, <1>3, <1>8, <1>9, <1>10, <1>11 DEF code

\* runtimeError reports an instruction with operands at its own line (vm.c:123).
THEOREM ErrorLines == Spec => []OperandLines
  <1>1. ASSUME Inductive PROVE OperandLines
    BY <1>1, LineIs DEF OperandLines, Right
  <1> QED BY <1>1, ChunkInvariant, PTL

\* getLine finds a line for every byte, between those of the instruction before and of
\* its own: the byte too many of lineArray_fallback never does more harm.
THEOREM BytesHaveLines == Spec => []LinesFound
  <1>1. ASSUME Inductive PROVE LinesFound
    <2> SUFFICES ASSUME NEW n \in DOMAIN chunk.code
                 PROVE  LineOf(n) \in LineBefore(n) .. chunk.code[n].line
      BY DEF LinesFound
    <2>1. /\ LineOf(n) <= chunk.code[n].line /\ LineOf(n) \in Nat \ {0}
          /\ chunk.code[n].line \in Nat
          /\ n # 1 => chunk.code[n - 1].line <= LineOf(n)
      BY <1>1, LineIs DEF Right
    <2>2. LineBefore(n) <= LineOf(n) /\ LineBefore(n) \in Nat
      <3>1. CASE n = 1
        BY <2>1, <3>1 DEF LineBefore
      <3>2. CASE n # 1
        <4>1. chunk.code[n - 1].line \in Nat
          <5>1. chunk.code \in Seq(Instr)
            BY <1>1 DEF Inductive, ChunkOK, LinesOK
          <5>2. Len(chunk.code) \in Nat /\ n \in 1 .. Len(chunk.code)
            BY <5>1, CodeIs
          <5>3. n - 1 \in 1 .. Len(chunk.code)
            BY <3>2, <5>2
          <5> QED BY <5>1, <5>3, CodeIs
        <4> QED BY <2>1, <3>2, <4>1 DEF LineBefore
      <3> QED BY <3>1, <3>2
    <2> QED BY <2>1, <2>2
  <1> QED BY <1>1, ChunkInvariant, PTL

\* OP_CONSTANT pushes the value the compiler emitted it for, while three bytes can
\* number the constants.
THEOREM OperandsNameValues == Spec => []ConstantsMeant
  <1>1. ASSUME Inductive PROVE ConstantsMeant
    <2> SUFFICES ASSUME Len(constants) <= IndexLimit, NEW n \in DOMAIN chunk.code,
                        chunk.code[n].op \in {"CONSTANT", "OP_CONST"}
                 PROVE  constants[chunk.code[n].index] = chunk.code[n].value
      BY DEF ConstantsMeant, NamesValue
    <2>1. Meant(chunk.code, constants) /\ chunk.code \in Seq(Instr)
      BY <1>1 DEF Inductive, ChunkOK, LinesOK
    <2>2. n \in 1 .. Len(chunk.code)
      BY <2>1, CodeIs
    <2>3. PICK k \in 1 .. Len(constants) :
            Truncated(k) = chunk.code[n].index /\ constants[k] = chunk.code[n].value
      BY <2>1, <2>2 DEF Meant, Names, ConstOps, IsNamed
    <2>4. Len(constants) \in Nat /\ IndexLimit \in Nat
      BY <1>1, BoundAssumption, LenProperties DEF Inductive, PoolsOK
    <2>5. k \in Nat \ {0} /\ k <= IndexLimit
      BY <2>4
    <2> QED BY <2>3, <2>5, TruncatedIs
  <1> QED BY <1>1, ChunkInvariant, PTL

\* makeConstant adds a constant to vm.constants once.
THEOREM NoConstantTwice == Spec => []Deduplicated
  <1>1. ASSUME Inductive PROVE Deduplicated
    <2>1. constants \in Seq(Constants) /\ Once(constants)
      BY <1>1 DEF Inductive, PoolsOK
    <2>2. DOMAIN constants = 1 .. Len(constants)
      BY <2>1, LenProperties
    <2> QED BY <2>1, <2>2 DEF Deduplicated, IsInjective, Once
  <1> QED BY <1>1, ChunkInvariant, PTL

\* findNumberEntry and findStringEntry stop.
THEOREM PoolSearchesEnd == Spec => []PoolSearchEnds
  <1>1. ASSUME Inductive PROVE PoolSearchEnds
    <2> SUFFICES ASSUME NEW p \in DOMAIN pools, pools[p] # <<>>
                 PROVE  Hole \in ToSet(pools[p])
      BY DEF PoolSearchEnds
    <2> DEFINE es == pools[p]
    <2>1. PoolOK(es) /\ es # <<>>
      BY <1>1 DEF Inductive, PoolsOK
    <2> HIDE DEF es
    <2>2. HasHole(es) /\ IsPool(es)
      BY <2>1, PoolOKIs
    <2>3. DOMAIN es = 1 .. Len(es)
      BY <2>2, PoolIs
    <2> QED BY <2>2, <2>3 DEF HasHole, ToSet, es
  <1> QED BY <1>1, ChunkInvariant, PTL
=============================================================================
