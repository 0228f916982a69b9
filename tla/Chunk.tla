--------------------------------- MODULE Chunk ---------------------------------
(***************************************************************************)
(* What the compiler writes: the instructions of a chunk, the line table   *)
(* that says which line each byte came from, the array of constants and    *)
(* the pools of numbers and strings that find a constant's index again.    *)
(*                                                                         *)
(* The optimizer takes instructions back: the line table must fall back    *)
(* with them. An instruction keeps, beside what the code has, the line and *)
(* the value it was written for.                                           *)
(***************************************************************************)
EXTENDS Naturals, Sequences, SequencesExt, FiniteSetsExt

CONSTANTS
  Numbers, Strings,  \* the constants of a program
  Hash,              \* of each of them
  NoKey,             \* of an entry that is not valid
  MinCapacity,       \* 16 in GROW_CAPACITY
  IndexLimit,        \* 2^24: an operand has 3 bytes, UINT24_MAX + 1
  MaxCode, MaxLine   \* bounds: instructions, lines

Constants == Numbers \union Strings

ASSUME HashAssumption ==
  /\ Numbers \intersect Strings = {}
  /\ Hash \in [Constants -> Nat] /\ NoKey \notin Constants
ASSUME BoundAssumption ==
  /\ MinCapacity \in Nat \ {0, 1} /\ IndexLimit \in Nat \ {0}
  /\ MaxCode \in Nat /\ MaxLine \in Nat \ {0}

VARIABLES
  chunk,      \* the instructions, and the ranges of the line table
  opStack,    \* the opcodes the optimizer may look back at
  line,       \* parser.previous.line
  pools,      \* vm.numbers and vm.strings
  constants   \* vm.constants

vars == <<chunk, opStack, line, pools, constants>>

-----------------------------------------------------------------------------
(* lineArray.c: a range is a line and the offset of its last byte.         *)

\* Mutation of WriteLine: a range keeps the offset it was opened with.
WriteLineOnce(ranges, l, offset) ==
  IF ranges # <<>> /\ Last(ranges).line = l THEN ranges
  ELSE Append(ranges, [line |-> l, offset |-> offset])

\* lineArray_write for the bytes of one instruction, the last at offset.
WriteLine(ranges, l, offset) ==
  IF ranges # <<>> /\ Last(ranges).line = l
  THEN [ranges EXCEPT ![Len(ranges)].offset = offset]
  ELSE Append(ranges, [line |-> l, offset |-> offset])

\* Mutation of Kept: no range is dropped.
KeptAll(ranges, n) == ranges

\* The ranges that fallback keeps: the last is the first that ends behind n.
Kept(ranges, n) ==
  SubSeq(ranges, 1, Min({i \in DOMAIN ranges : ranges[i].offset > n}))

\* lineArray_fallback: n bytes are left. The last range then ends at n, where
\* no byte is.
FallLines(ranges, n) ==
  IF ranges = <<>> \/ n >= Last(ranges).offset THEN ranges
  ELSE LET kept == Kept(ranges, n) IN [kept EXCEPT ![Len(kept)].offset = n]

\* getLine: binary search. 0 stands for -1.
GetLine(ranges, offset) ==
  LET find[p \in (1 .. Len(ranges)) \X (1 .. Len(ranges))] ==
        LET low == p[1]  high == p[2]  mid == low + (high - low) \div 2 IN
        IF low >= high
        THEN IF offset <= ranges[low].offset THEN ranges[low].line ELSE 0
        ELSE IF offset > ranges[mid].offset THEN find[<<mid + 1, high>>]
        ELSE IF offset < ranges[mid].offset THEN find[<<low, mid>>]
        ELSE ranges[mid].line
  IN find[<<1, Len(ranges)>>]

-----------------------------------------------------------------------------
(* chunk.c                                                                 *)

\* chunk->count
Count(code) ==
  LET upTo[n \in 0 .. Len(code)] ==   \* the bytes of the first n instructions
        IF n = 0 THEN 0 ELSE upTo[n - 1] + code[n].width
  IN upTo[Len(code)]

Write(c, i) ==
  [code |-> Append(c.code, i),
   ranges |-> WriteLine(c.ranges, i.line, Count(c.code) + i.width - 1)]

\* chunk_fallback, over the last n instructions
Fallback(c, n) ==
  LET code == SubSeq(c.code, 1, Len(c.code) - n) IN
  [code |-> code, ranges |-> FallLines(c.ranges, Count(code))]

Plain(op, width, l) == [op |-> op, width |-> width, line |-> l]

-----------------------------------------------------------------------------
(* The pools: open addressing without deletion. An entry that is valid may *)
(* have no index yet (UINT32_MAX).                                         *)

NoIndex == 0   \* constants are numbered from 1 here

Hole == [key |-> NoKey, index |-> NoIndex]

Pool(v) == IF v \in Numbers THEN "numbers" ELSE "strings"

Size(es) == Len(es)

Slot(es, v, d) == ((Hash[v] + d) % Size(es)) + 1

\* Mutation of FindEntry: an entry with the same hash is taken for v's.
FindEntryByHash(es, v) == Slot(es, v, 0)

\* findNumberEntry, findStringEntry: the entry of v, or the hole for it.
FindEntry(es, v) ==
  LET found(d) == es[Slot(es, v, d)].key \in {v, NoKey} IN
  Slot(es, v, Min({d \in 0 .. Size(es) - 1 : found(d)}))

Has(es, v) == es # <<>> /\ es[FindEntry(es, v)].key = v

Valid(es) == {i \in DOMAIN es : es[i] # Hole}

GrowCapacity(n) == IF n < MinCapacity THEN MinCapacity ELSE 2 * n

\* Mutation of Moved: an entry moves without its index.
MovedKeyOnly(e) == [key |-> e.key, index |-> NoIndex]

\* What adjustNumberCapacity copies of an entry.
Moved(e) == e

\* The new pool once entry e of the old one is moved.
Inserted(new, e) ==
  IF e = Hole THEN new ELSE [new EXCEPT ![FindEntry(new, e.key)] = Moved(e)]

\* The entries of es from left to right, inserted into an empty pool.
Rehash(es) ==
  LET after[n \in 0 .. Size(es)] ==   \* the first n entries are done
        IF n = 0 THEN [i \in 1 .. GrowCapacity(Size(es)) |-> Hole]
        ELSE Inserted(after[n - 1], es[n])
  IN after[Size(es)]

\* Mutation of MustGrow: the pool may fill up.
MustGrowFull(es) == Cardinality(Valid(es)) + 1 > Size(es)

MustGrow(es) == Cardinality(Valid(es)) + 1 > (Size(es) * 3) \div 4

\* tableGetNumberEntry makes room before it looks; tableSet_string runs only
\* for a string that copyString did not find.
Room(es, v) == IF MustGrow(es) /\ ~(v \in Strings /\ Has(es, v)) THEN Rehash(es) ELSE es

\* The pool of v when v is in it.
Interned(v) ==
  LET es == Room(pools[Pool(v)], v)
      i == FindEntry(es, v)
  IN IF es[i] = Hole THEN [es EXCEPT ![i].key = v] ELSE es

\* & UINT24_MAX: what an operand and an entry keep of the index of constant n.
\* addConstant has no limit, and no such index reaches the error of
\* emitConstantCommond, "Too many constants in chunk.": only a function's does.
Truncated(n) == ((n - 1) % IndexLimit) + 1

\* makeConstant: the index of v, the pool and the constants afterwards.
MakeConstant(v) ==
  LET es == Interned(v)
      i == FindEntry(es, v)
      index == IF es[i].index = NoIndex THEN Truncated(Len(constants) + 1) ELSE es[i].index
  IN [index |-> index,
      pool |-> [es EXCEPT ![i].index = index],
      constants |-> IF es[i].index = NoIndex THEN Append(constants, v) ELSE constants]

-----------------------------------------------------------------------------
(* compiler.c. Each action is one emission of the parser at line l.        *)

OnLine(l) ==
  /\ l \in line .. MaxLine
  /\ line' = l
  /\ Len(chunk.code) < MaxCode

\* emitConstant, on a chunk and an opStack that may have fallen back.
EmitConstant(c, ops, v, l) ==
  LET made == MakeConstant(v) IN
  /\ chunk' = Write(c, [op |-> "CONSTANT", width |-> 4, line |-> l,
                        index |-> made.index, value |-> v])
  /\ opStack' = Append(ops, "CONSTANT")
  /\ pools' = [pools EXCEPT ![Pool(v)] = made.pool]
  /\ constants' = made.constants

\* number, string
Constant(v, l) == OnLine(l) /\ EmitConstant(chunk, opStack, v, l)

EmitOp(c, ops, op, l) ==
  /\ chunk' = Write(c, Plain(op, 1, l))
  /\ opStack' = Append(ops, op)
  /\ UNCHANGED <<pools, constants>>

\* literal
Literal(l) == OnLine(l) /\ EmitOp(chunk, opStack, "LITERAL", l)

\* OP_GET_LOCAL
Local(l) ==
  /\ OnLine(l)
  /\ chunk' = Write(chunk, Plain("GET_LOCAL", 3, l))
  /\ opStack' = Append(opStack, "GET_LOCAL")
  /\ UNCHANGED <<pools, constants>>

\* Anything that clears the opStack: a jump, a call, an assignment, a return.
Other(width, l) ==
  /\ OnLine(l)
  /\ chunk' = Write(chunk, Plain("OTHER", width, l))
  /\ opStack' = <<>>
  /\ UNCHANGED <<pools, constants>>

\* opStack_peek
Peek(n) == IF Len(opStack) > n THEN opStack[Len(opStack) - n] ELSE "NONE"

\* The constant an operand names: its three bytes are read again.
Operand(n) == constants[chunk.code[Len(chunk.code) - n].index]

\* The opcode is written first, and taken back with its operands.
Folded(op, n, l) == Fallback(Write(chunk, Plain(op, 1, l)), n + 1)

Without(n) == SubSeq(opStack, 1, Len(opStack) - n)

\* OP_ADD of two constants: the result is a constant of their type.
FoldAdd(v, l) ==
  /\ OnLine(l)
  /\ Peek(0) = "CONSTANT" /\ Peek(1) = "CONSTANT"
  /\ {Pool(Operand(0)), Pool(Operand(1))} = {Pool(v)}
  /\ EmitConstant(Folded("ADD", 2, l), Without(2), v, l)

\* The instructions that left the operands of an operator.
HasOperands(op) == Len(chunk.code) >= (IF op = "ADD" THEN 2 ELSE 1)

\* The opcode of a super instruction, by the operand's opcode.
FusedOp(op) == IF op = "CONSTANT" THEN "OP_CONST" ELSE "OP_LOCAL"

\* An operator whose right operand is a constant (OP_ADD only) or a local is
\* taken back, and the operand's opcode becomes OP_ADD_CONST, OP_NOT_LOCAL ...
Fuse(op, l) ==
  /\ OnLine(l) /\ HasOperands(op)
  /\ \/ op = "ADD" /\ Peek(0) = "CONSTANT" /\ Peek(1) # "CONSTANT"
     \/ Peek(0) = "GET_LOCAL"
  /\ LET c == Folded(op, 0, l) IN
     chunk' = [c EXCEPT !.code[Len(c.code)].op = FusedOp(@)]
  /\ opStack' = <<>>
  /\ UNCHANGED <<pools, constants>>

\* No case of instructionOptimize: the operator stays.
Operator(op, l) ==
  /\ OnLine(l) /\ HasOperands(op)
  /\ Peek(0) \notin {"CONSTANT", "GET_LOCAL"}
  /\ op \in {"NOT", "NEGATE"} => Peek(0) # "LITERAL"
  /\ EmitOp(chunk, opStack, op, l)

\* OP_NEGATE of a number
FoldNegate(v, l) ==
  /\ OnLine(l)
  /\ Peek(0) = "CONSTANT"
  /\ Operand(0) \in Numbers /\ v \in Numbers
  /\ EmitConstant(Folded("NEGATE", 1, l), Without(1), v, l)

\* OP_NOT of a constant or a literal
FoldNot(l) ==
  /\ OnLine(l)
  /\ Peek(0) \in {"CONSTANT", "LITERAL"}
  /\ EmitOp(Folded("NOT", 1, l), Without(1), "LITERAL", l)

\* copyString and connectString at run time: a string in the pool that is no
\* constant.
InternString(s) ==
  /\ pools' = [pools EXCEPT !["strings"] = Interned(s)]
  /\ UNCHANGED <<chunk, opStack, line, constants>>

\* The next function: a chunk of its own, the same pools.
NextChunk ==
  /\ chunk.code # <<>>
  /\ chunk' = [code |-> <<>>, ranges |-> <<>>]
  /\ opStack' = <<>>
  /\ line' = 1
  /\ UNCHANGED <<pools, constants>>

Init ==
  /\ chunk = [code |-> <<>>, ranges |-> <<>>]
  /\ opStack = <<>>
  /\ line = 1
  /\ pools = [p \in {"numbers", "strings"} |-> <<>>]
  /\ constants = <<>>

Next ==
  \/ \E l \in 1 .. MaxLine :
       \/ \E v \in Constants : Constant(v, l) \/ FoldAdd(v, l) \/ FoldNegate(v, l)
       \/ \E width \in {1, 3} : Other(width, l)
       \/ \E op \in {"ADD", "NOT", "NEGATE"} : Fuse(op, l) \/ Operator(op, l)
       \/ Literal(l) \/ Local(l) \/ FoldNot(l)
  \/ \E s \in Strings : InternString(s)
  \/ NextChunk

Spec == Init /\ [][Next]_vars

-----------------------------------------------------------------------------
(* Properties                                                              *)

\* The last byte of instruction n: what runtimeError looks up.
LastByte(n) == Count(SubSeq(chunk.code, 1, n)) - 1

LineOf(n) == GetLine(chunk.ranges, LastByte(n))

\* An error in an instruction with operands is reported at the line it was written
\* for (vm.c:123), whatever was folded.
OperandLines ==
  \A n \in DOMAIN chunk.code : chunk.code[n].width > 1 => LineOf(n) = chunk.code[n].line

\* The line of the instruction before, where an instruction begins.
LineBefore(n) == IF n = 1 THEN 1 ELSE chunk.code[n - 1].line

\* Each byte has a line. lineArray_fallback keeps the number of bytes left where a range
\* has the offset of its last byte, and an instruction of one byte may be found in the
\* range before its own: its line is then too early, but never before the line of
\* the instruction in front of it, and never too late (lineArray.c:54).
LinesFound == \A n \in DOMAIN chunk.code : LineOf(n) \in LineBefore(n) .. chunk.code[n].line

NamesValue(i) == i.op \in {"CONSTANT", "OP_CONST"} => constants[i.index] = i.value

\* As long as three bytes can number the constants, an operand names the value it
\* was emitted for, whatever was interned, folded or rehashed since.
ConstantsMeant ==
  Len(constants) <= IndexLimit => \A n \in DOMAIN chunk.code : NamesValue(chunk.code[n])

\* vm.constants is "deduplicated" (vm.h:32): no number or string is in it twice.
Deduplicated == IsInjective(constants)

\* A search of a pool that is not empty meets a hole at last.
PoolSearchEnds ==
  \A p \in DOMAIN pools : pools[p] # <<>> => Hole \in ToSet(pools[p])
=============================================================================
