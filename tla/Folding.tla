------------------------------- MODULE Folding -------------------------------
(***************************************************************************)
(* The expression compiler of compiler.c with its optimizer: constant      *)
(* folding and super instructions, decided from opStack, the opcodes       *)
(* emitted since the last clearOpStack(); and the handlers of vm.c that    *)
(* run the code.                                                           *)
(*                                                                         *)
(* An expression is compiled and run against Eval, its meaning. It refers  *)
(* to one local variable x and one global variable g. ADD, SUBTRACT, LESS  *)
(* and EQUAL stand for the arithmetic and the comparison operators.        *)
(***************************************************************************)
EXTENDS Integers, Sequences, SequencesExt

CONSTANTS
  Expressions,  \* the expressions compiled
  XValues,      \* values of the local variable
  GValues       \* values of the global variable

VARIABLES
  code,    \* chunk->code: the instructions
  want,    \* the meaning of the expression: its value, and x afterwards
  status,  \* "rejected" at compile time, "run", or "failed" at run time
  ip,      \* frame->ip - chunk->code, in bytes
  stk,     \* the operands the expression pushed
  x,       \* the slot of the local variable
  g,       \* the value of the global variable
  expr     \* the expression, for the properties

vars == <<code, want, status, ip, stk, x, g, expr>>

-----------------------------------------------------------------------------
(* Values: numbers, strings, booleans and nil, as <<type, contents>>. *)

Nil == <<"nil", 0>>
Error == <<"error", 0>>
Num(n) == <<"num", n>>
Str(n) == <<"str", n>>
Bool(b) == <<"bool", IF b THEN 1 ELSE 0>>

IsFalsey(v) == v \in {Nil, Bool(FALSE)}

Both(t, a, b) == a[1] = t /\ b[1] = t

\* BINARY_OP, OP_ADD and OP_EQUAL. Concatenation keeps the order.
Binary(op, a, b) ==
  CASE op = "EQUAL"                          -> Bool(a = b)
    [] op = "ADD" /\ Both("num", a, b)       -> Num(a[2] + b[2])
    [] op = "ADD" /\ Both("str", a, b)       -> Str(10 * a[2] + b[2])
    [] op = "SUBTRACT" /\ Both("num", a, b)  -> Num(a[2] - b[2])
    [] op = "LESS" /\ Both("num", a, b)      -> Bool(a[2] < b[2])
    [] OTHER                                 -> Error

Unary(op, a) ==
  CASE op = "NOT"                      -> Bool(IsFalsey(a))
    [] op = "NEGATE" /\ a[1] = "num"   -> Num(-a[2])
    [] OTHER                           -> Error

\* An array is read with a number, an instance with a string.
Subscript(a, i) ==
  CASE a[1] = "array" /\ i[1] = "num"     -> Num(i[2] + 20)
    [] a[1] = "instance" /\ i[1] = "str"  -> Str(i[2] + 5)
    [] OTHER                              -> Error

-----------------------------------------------------------------------------
(* Expressions: <<"value", v>>, <<"x">>, <<"g">>, <<"unary", op, e>>,      *)
(* <<"binary", op, e, f>>, <<"and", e, f>>, <<"or", e, f>>,                *)
(* <<"assign", e>> for x = e, and <<"index", e>> for g[e].                 *)

\* The value of e and the value of x afterwards, from left to right.
RECURSIVE Eval(_, _, _)
Eval(e, xv, gv) ==
  LET l == Eval(e[Len(e) - 1], xv, gv)    \* the left operand, or the only one
      r == Eval(e[Len(e)], l[2], gv)
      only == Eval(e[Len(e)], xv, gv)
      OrError(v, w) == IF v[1] = Error THEN v ELSE w
  IN CASE e[1] = "value"  -> <<e[2], xv>>
       [] e[1] = "x"      -> <<xv, xv>>
       [] e[1] = "g"      -> <<gv, xv>>
       [] e[1] = "unary"  -> OrError(only, <<Unary(e[2], only[1]), only[2]>>)
       [] e[1] = "assign" -> OrError(only, <<only[1], only[1]>>)
       [] e[1] = "index"  -> OrError(only, <<Subscript(gv, only[1]), only[2]>>)
       [] e[1] = "binary" -> OrError(l, OrError(r, <<Binary(e[2], l[1], r[1]), r[2]>>))
       [] e[1] = "and"    -> OrError(l, IF IsFalsey(l[1]) THEN l ELSE r)
       [] e[1] = "or"     -> OrError(l, IF IsFalsey(l[1]) THEN r ELSE l)

RECURSIVE Parts(_)
Parts(e) ==   \* the subexpressions of e
  {e} \union
  CASE e[1] \in {"value", "x", "g"}            -> {}
    [] e[1] \in {"unary", "assign", "index"}   -> Parts(e[Len(e)])
    [] OTHER                                   -> Parts(e[Len(e) - 1]) \union Parts(e[Len(e)])

-----------------------------------------------------------------------------
(* Emission. A compiler is the code so far, opStack and parser.hadError.   *)
(* An instruction has an opcode, where its right operand comes from (the   *)
(* stack, or for OP_XXX_CONST and OP_XXX_LOCAL the instruction), and its   *)
(* argument.                                                               *)

NewCompiler == [code |-> <<>>, ops |-> <<>>, hadError |-> FALSE]

Instruction(op, from, arg) == [op |-> op, from |-> from, arg |-> arg]

\* Bytes an instruction takes.
Width(i) ==
  CASE i.op \in {"CONSTANT", "GET_GLOBAL", "GET_INDEX", "GET_PROPERTY"} -> 4
    [] i.from = "constant" -> 4
    [] i.from = "local" \/ i.op \in {"GET_LOCAL", "SET_LOCAL", "JUMP_IF_FALSE", "JUMP_IF_TRUE"} -> 3
    [] OTHER -> 1

Bytes(is) == FoldLeft(LAMBDA n, i : n + Width(i), 0, is)

\* Mutation of EmitCleared: clearOpStack() is not called.
EmitOnly(c, op, arg) == [c EXCEPT !.code = Append(@, Instruction(op, "stack", arg))]

EmitCleared(c, op, arg) ==
  [c EXCEPT !.code = Append(@, Instruction(op, "stack", arg)), !.ops = <<>>]

\* emitOpStack
Emit(c, op, arg) ==
  [c EXCEPT !.code = Append(@, Instruction(op, "stack", arg)), !.ops = Append(@, op)]

EmitValue(c, v) ==
  Emit(c, CASE v = Nil         -> "NIL"
            [] v = Bool(TRUE)  -> "TRUE"
            [] v = Bool(FALSE) -> "FALSE"
            [] OTHER           -> "CONSTANT", v)

\* opStack_peek
PeekOp(c, d) == IF Len(c.ops) > d THEN c.ops[Len(c.ops) - d] ELSE "none"

\* chunk_fallback and opStack_fallback over the last n instructions.
Fallback(c, n) ==
  [c EXCEPT !.code = SubSeq(@, 1, Len(@) - n), !.ops = SubSeq(@, 1, Len(@) - n)]

LastArg(c, d) == c.code[Len(c.code) - d].arg

\* The last load is turned into the operation on what it loads.
Fuse(c, op, from) ==
  [c EXCEPT !.code[Len(c.code)] = Instruction(op, from, @.arg), !.ops = <<>>]

Reject(c) == [c EXCEPT !.hadError = TRUE]

-----------------------------------------------------------------------------
(* instructionOptimize *)

\* A binary operator: both operands are constants, or the right one is a
\* constant or a local variable, or neither.
MergeBinary(c, op) ==
  LET v == Binary(op, LastArg(c, 1), LastArg(c, 0)) IN
  CASE PeekOp(c, 0) = "CONSTANT" /\ PeekOp(c, 1) = "CONSTANT" ->
         IF v = Error THEN Reject(c) ELSE EmitValue(Fallback(c, 2), v)
    [] PeekOp(c, 0) = "CONSTANT" /\ PeekOp(c, 1) # "CONSTANT" -> Fuse(c, op, "constant")
    [] PeekOp(c, 0) = "GET_LOCAL" -> Fuse(c, op, "local")
    [] OTHER -> Emit(c, op, Nil)

Literals == {"NIL", "TRUE", "FALSE"}

MergeUnary(c, op) ==
  LET v == Unary(op, LastArg(c, 0)) IN
  CASE PeekOp(c, 0) \in Literals \union {"CONSTANT"} ->
         IF v = Error THEN Reject(c) ELSE EmitValue(Fallback(c, 1), v)
    [] PeekOp(c, 0) = "GET_LOCAL" -> Fuse(c, op, "local")
    [] OTHER -> Emit(c, op, Nil)

\* mergeSubscript, and the end of subscript, of a read: an assignment to a subscript
\* is not among the expressions.
MergeSubscript(c) ==
  IF PeekOp(c, 0) = "CONSTANT"
  THEN Fuse(c, IF LastArg(c, 0)[1] = "num" THEN "GET_INDEX" ELSE "GET_PROPERTY", "constant")
  ELSE EmitCleared(c, "GET_SUBSCRIPT", Nil)

\* Mutation of PatchJump: the jump lands one byte short.
PatchShort(c, n) == [c EXCEPT !.code[n].arg = Bytes(c.code) - 1]

\* patchJump: the jump emitted as the n-th instruction lands here. opStack
\* stays as it is.
PatchJump(c, n) == [c EXCEPT !.code[n].arg = Bytes(c.code)]

RECURSIVE Compile(_, _)
Compile(e, c) ==
  CASE e[1] = "value"  -> EmitValue(c, e[2])
    [] e[1] = "x"      -> Emit(c, "GET_LOCAL", Nil)
    [] e[1] = "g"      -> EmitCleared(c, "GET_GLOBAL", Nil)
    [] e[1] = "unary"  -> MergeUnary(Compile(e[3], c), e[2])
    [] e[1] = "assign" -> Emit(Compile(e[2], c), "SET_LOCAL", Nil)
    [] e[1] = "index"  -> MergeSubscript(Compile(e[2], EmitCleared(c, "GET_GLOBAL", Nil)))
    [] e[1] = "binary" -> MergeBinary(Compile(e[4], Compile(e[3], c)), e[2])
    [] OTHER           ->   \* and_, or_
         LET jump == EmitCleared(Compile(e[2], c),
                                 IF e[1] = "and" THEN "JUMP_IF_FALSE" ELSE "JUMP_IF_TRUE", Nil)
         IN PatchJump(Compile(e[3], EmitCleared(jump, "POP", Nil)), Len(jump.code))

-----------------------------------------------------------------------------
(* The run loop *)

Init ==
  /\ expr \in Expressions
  /\ x \in XValues
  /\ g \in GValues
  /\ LET c == Compile(expr, NewCompiler) IN
       /\ code = c.code
       /\ status = IF c.hadError THEN "rejected" ELSE "run"
  /\ want = Eval(expr, x, g)
  /\ ip = 0
  /\ stk = <<>>

Start(n) == Bytes(SubSeq(code, 1, n - 1))

\* i is the instruction at ip.
Fetch(i) == status = "run" /\ \E n \in DOMAIN code : Start(n) = ip /\ i = code[n]

Fetched(ops) == {i \in Range(code) : i.op \in ops /\ Fetch(i)}

Needs(i) ==
  CASE i.op \in Literals \union {"CONSTANT", "GET_LOCAL", "GET_GLOBAL"} -> 0
    [] i.op \in {"ADD", "SUBTRACT", "LESS", "EQUAL"} /\ i.from = "stack" -> 2
    [] i.op = "GET_SUBSCRIPT" -> 2
    [] i.op \in {"NOT", "NEGATE"} /\ i.from = "local" -> 0
    [] OTHER -> 1

Operand(d) == stk[Len(stk) - d]

\* n operands are replaced by v, or the program fails.
Replace(n, v) ==
  /\ Len(stk) >= n
  /\ stk' = Append(SubSeq(stk, 1, Len(stk) - n), v)
  /\ status' = IF v = Error THEN "failed" ELSE status

Advance(i) == ip' = ip + Width(i)

Load ==
  \E i \in Fetched(Literals \union {"CONSTANT", "GET_LOCAL", "GET_GLOBAL"}) :
    /\ Replace(0, CASE i.op = "GET_LOCAL" -> x [] i.op = "GET_GLOBAL" -> g [] OTHER -> i.arg)
    /\ Advance(i)
    /\ UNCHANGED <<code, want, x, g, expr>>

SetLocal ==
  \E i \in Fetched({"SET_LOCAL"}) :
    /\ x' = Operand(0)
    /\ Advance(i)
    /\ UNCHANGED <<code, want, status, stk, g, expr>>

Operate ==
  \E i \in Fetched({"ADD", "SUBTRACT", "LESS", "EQUAL"}) :
    /\ Len(stk) >= Needs(i)
    /\ CASE i.from = "stack"    -> Replace(2, Binary(i.op, Operand(1), Operand(0)))
         [] i.from = "constant" -> Replace(1, Binary(i.op, Operand(0), i.arg))
         [] i.from = "local"    -> Replace(1, Binary(i.op, Operand(0), x))
    /\ Advance(i)
    /\ UNCHANGED <<code, want, x, g, expr>>

OperateUnary ==
  \E i \in Fetched({"NOT", "NEGATE"}) :
    /\ IF i.from = "local" THEN Replace(0, Unary(i.op, x))
                           ELSE Replace(1, Unary(i.op, Operand(0)))
    /\ Advance(i)
    /\ UNCHANGED <<code, want, x, g, expr>>

GetSubscript ==
  \E i \in Fetched({"GET_INDEX", "GET_PROPERTY", "GET_SUBSCRIPT"}) :
    /\ IF i.op = "GET_SUBSCRIPT" THEN Replace(2, Subscript(Operand(1), Operand(0)))
                                 ELSE Replace(1, Subscript(Operand(0), i.arg))
    /\ Advance(i)
    /\ UNCHANGED <<code, want, x, g, expr>>

Jump ==
  \E i \in Fetched({"JUMP_IF_FALSE", "JUMP_IF_TRUE"}) :
    /\ ip' = IF IsFalsey(Operand(0)) <=> i.op = "JUMP_IF_FALSE" THEN i.arg ELSE ip + Width(i)
    /\ UNCHANGED <<code, want, status, stk, x, g, expr>>

Pop ==
  \E i \in Fetched({"POP"}) :
    /\ stk' = SubSeq(stk, 1, Len(stk) - 1)
    /\ Advance(i)
    /\ UNCHANGED <<code, want, status, x, g, expr>>

Next == Load \/ SetLocal \/ Operate \/ OperateUnary \/ GetSubscript \/ Jump \/ Pop

Spec == Init /\ [][Next]_vars

-----------------------------------------------------------------------------
(* Properties *)

Finished == status = "run" /\ ip = Bytes(code)

\* The optimizer rejects an expression only if one of its parts fails
\* whatever the variables are.
RejectsErrors ==
  status = "rejected" =>
    \E e \in Parts(expr) : \A xv \in XValues, gv \in GValues : Eval(e, xv, gv)[1] = Error

\* Folding and super instructions do not change what an expression means:
\* the code leaves its value on the stack, and nothing else, and assigns x as
\* the expression does; and it fails only where the expression has no value.
SameValue ==
  /\ Finished => stk = <<want[1]>> /\ x = want[2]
  /\ status = "failed" => want[1] = Error

\* Control stays on instruction boundaries, where the operands of the next
\* instruction are on the stack: a jump never lands inside an instruction
\* that the optimizer shortened or moved. And there is code for each expression
\* but those with a part that has no value.
WellFormed ==
  /\ status = "run" =>
       \/ Finished
       \/ \E i \in Range(code) : Fetch(i) /\ Len(stk) >= Needs(i)
  /\ RejectsErrors
=============================================================================
