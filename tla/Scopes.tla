-------------------------------- MODULE Scopes --------------------------------
(***************************************************************************)
(* Local variables and closures: how the compiler resolves names in nested *)
(* functions, the slots and upvalues it assigns, the code it emits where   *)
(* scopes, loops, break, continue and return leave variables behind, and   *)
(* the run of that code.                                                   *)
(*                                                                         *)
(* What a name means is said without slots and upvalues: `visible' is the  *)
(* lexical scope, env and store are the environment and the store of an    *)
(* interpreter that follows it.  They are no part of the program; the      *)
(* properties compare the program with them.                               *)
(*                                                                         *)
(* Conditions are left open: a conditional jump may go either way.         *)
(***************************************************************************)
EXTENDS Integers, Sequences, SequencesExt, TLC

CONSTANTS
  Functions,   \* the function bodies compiled, sequences of statements
  Escapes,     \* whether break and continue may leave the scope of a
               \* variable that a closure has captured
  FramesMax,   \* FRAMES_MAX
  Variables    \* bound: how many variables come to be in a run

ASSUME EscapesAssumption == Escapes \in BOOLEAN
ASSUME BoundAssumption == FramesMax \in Nat \ {0} /\ Variables \in Nat

VARIABLES
  calls,     \* what the parser will call, in order (see Parse)
  compiler,  \* current, with the compilers around it
  code,      \* the functions: their instructions, upvalues and arity
  frames,    \* vm.frames: function, ip, slots, the closure's upvalues, and env
  stack,     \* the slots: which variable is in each, and its value
  classes,   \* the classes made: their methods and the cached initializer
  upvalues,  \* the upvalues ever made: open on a slot, or closed with its content
  store      \* the value that each variable that came to be should have

compilation == <<calls, compiler>>
machine == <<code, frames, stack, classes, upvalues, store>>
vars == <<compilation, machine>>

-----------------------------------------------------------------------------
(* Statements: <<"var", n, e>>, <<"const", n, e>>, <<"fun", n, ps, b>>,     *)
(* <<"expr", e>>, <<"return", e>>, <<"block", b>>, <<"branch", b>> with its *)
(* cases in order, <<"else", s, t>>, <<"while", s>>, <<"do", s>>,           *)
(* <<"for", n, s>>, <<"break">>, <<"continue">>, <<"leave">> which returns   *)
(* nothing, <<"class", n, super, ms>> with methods <<"method", m, ps, b>>.  *)
(* Expressions: <<"lit", k>>, <<"get", n>>, <<"set", n, e>>,                *)
(* <<"call", n, es>>, <<"lambda", ps, b>>, <<"invoke", n, m, es>> for       *)
(* n.m(es), <<"super", m, es>>, <<"this">>.                                 *)
(* A declaration is a site; sites are numbered.                             *)
(*                                                                          *)
(* The compiler is one pass: Parse lists the calls that the recursive       *)
(* descent makes, in their order, and each of them is a step.  `kept' are   *)
(* C locals of calls that have not returned: positions in the code, and the *)
(* variables to be assigned to.                                             *)

Temp == [n |-> 0, const |-> FALSE]    \* a slot that holds no variable

NoCompiler ==
  [hadError |-> FALSE, escapes |-> FALSE, visible |-> <<>>, functions |-> <<>>, sites |-> 0,
   classes |-> <<>>]

\* initCompiler; slot 0 is the callee's, and has no name, or the receiver's.
\* `classes' says of each class around (currentClass) whether it has a superclass.
InitCompiler(c, type) ==
  [code |-> <<>>, upvalues |-> <<>>, depth |-> 0, loops |-> <<>>, kept |-> <<>>,
   scopes |-> <<>>, enclosing |-> c,
   type |-> type, classes |-> c.classes,
   locals |-> <<[name |-> IF type = "FUNCTION" THEN "" ELSE "this", depth |-> 0,
                 isCaptured |-> FALSE, isConst |-> FALSE]>>,
   visible |-> c.visible, functions |-> c.functions, sites |-> c.sites,
   escapes |-> FALSE, hadError |-> FALSE]

Here(c) == Len(c.code) + 1

EmitAt(c, op, arg, site) == [c EXCEPT !.code = Append(@, [op |-> op, arg |-> arg, site |-> site])]
Emit(c, op, arg) == EmitAt(c, op, arg, Temp)
Fail(c) == [c EXCEPT !.hadError = TRUE]
FailIf(c, wrong) == IF wrong THEN Fail(c) ELSE c

\* emitPopCount
EmitPops(c, n) == IF n = 0 THEN c ELSE Emit(c, "POP_N", n)

\* The C local that was kept k before the last one, and its end.
Keep(c, x) == [c EXCEPT !.kept = Append(@, x)]
Kept(c, k) == c.kept[Len(c.kept) - k]
Release(c, k) == [c EXCEPT !.kept = RemoveAt(@, Len(@) - k)]

EmitJump(c, op) == Keep(Emit(c, op, 0), Here(c))
PatchJump(c, k) == Release([c EXCEPT !.code[Kept(c, k)].arg = Here(c)], k)

-----------------------------------------------------------------------------
(* Names *)

\* resolveLocal: the last local of that name, or 0.
Local(c, name) ==
  SelectLastInSeq(c.locals, LAMBDA l : l.name = name)

Unready(c, i) == c.locals[i].depth = -1

\* Mutation of SameUpvalue: a local and an upvalue of the same index are one.
SameIndex(u, index, isLocal) == u.index = index

SameUpvalue(u, index, isLocal) == u.index = index /\ u.isLocal = isLocal

\* addUpvalue
AddUpvalue(c, index, isLocal, isConst) ==
  LET known == SelectInSeq(c.upvalues, LAMBDA u : SameUpvalue(u, index, isLocal)) IN
  IF known # 0 THEN [c |-> c, arg |-> known - 1, isConst |-> isConst]
  ELSE [c |-> [c EXCEPT !.upvalues = Append(@, [index |-> index, isLocal |-> isLocal])],
        arg |-> Len(c.upvalues), isConst |-> isConst]

NotFound(c) == [c |-> c, arg |-> -1, isConst |-> FALSE]

\* Mutation of ConstThrough: a function may assign to the constants around it.
ConstForgotten(found) == FALSE

ConstThrough(found) == found.isConst

\* resolveUpvalue: a local of the function around, which is then captured, or an
\* upvalue that function has or gets.
RECURSIVE ResolveUpvalue(_, _)
ResolveUpvalue(c, name) ==
  IF c.enclosing = NoCompiler THEN NotFound(c)
  ELSE LET i == Local(c.enclosing, name) IN
    IF i # 0
    THEN AddUpvalue([FailIf(c, Unready(c.enclosing, i)) EXCEPT
                       !.enclosing.locals[i].isCaptured = TRUE],
                    i - 1, TRUE, ConstThrough(c.enclosing.locals[i]))
    ELSE LET up == ResolveUpvalue(c.enclosing, name) IN
         IF up.arg = -1 THEN NotFound(c)
         ELSE AddUpvalue([c EXCEPT !.enclosing = up.c], up.arg, FALSE, ConstThrough(up))

\* namedVariable, before the assignment's expression. A name that is not found is
\* a global's (module Table); no function of Functions has one.
Resolve(c, name) ==
  LET i == Local(c, name)
      found == IF i # 0
               THEN [c |-> FailIf(c, Unready(c, i)), arg |-> i - 1, isConst |-> c.locals[i].isConst]
               ELSE ResolveUpvalue(c, name)
  IN [c |-> FailIf(found.c, found.arg = -1), arg |-> found.arg, isConst |-> found.isConst,
      isLocal |-> i # 0]

\* The declaration that a name means here.
Site(c, name) == IF name \in DOMAIN c.visible THEN c.visible[name] ELSE Temp

\* The parser has met `return;' or the end: an initializer returns its receiver.
EmitReturn(c) ==
  Emit(IF c.type = "INITIALIZER" THEN EmitAt(c, "GET_LOCAL", 0, Site(c, "this"))
                                 ELSE Emit(c, "CONSTANT", 0), "RETURN", 0)

\* endCompiler. The compiler around it goes on, with all functions made so far.
EndCompiler(c, arity) ==
  LET done == EmitReturn(c) IN
  [c.enclosing EXCEPT
     !.functions = Append(c.functions, [code |-> done.code, upvalues |-> c.upvalues, arity |-> arity]),
     !.sites = c.sites, !.escapes = @ \/ c.escapes, !.hadError = @ \/ c.hadError]

GetVariable(c, name) ==
  LET r == Resolve(c, name) IN
  EmitAt(r.c, IF r.isLocal THEN "GET_LOCAL" ELSE "GET_UPVALUE", r.arg, Site(c, name))

\* An assignment, before and behind its expression.
SetTarget(c, name) ==
  LET r == Resolve(c, name) IN
  Keep(r.c, [op |-> IF r.isLocal THEN "SET_LOCAL" ELSE "SET_UPVALUE", arg |-> r.arg,
             isConst |-> r.isConst, site |-> Site(c, name)])

SetVariable(c) ==
  LET r == Kept(c, 0) IN
  EmitAt(FailIf(Release(c, 0), r.isConst), r.op, r.arg, r.site)

\* declareVariable and addLocal
DeclareVariable(c, name) ==
  [FailIf(c, \E i \in DOMAIN c.locals :
               c.locals[i].name = name /\ c.locals[i].depth \notin 0..c.depth - 1) EXCEPT
     !.locals = Append(@, [name |-> name, depth |-> -1, isCaptured |-> FALSE, isConst |-> FALSE])]

\* markInitialized: from here on the name is visible.
MarkInitialized(c, isConst) ==
  LET n == Len(c.locals) IN
  [c EXCEPT !.locals[n].depth = c.depth, !.locals[n].isConst = isConst,
            !.sites = @ + 1,
            !.visible = c.locals[n].name :> [n |-> c.sites + 1, const |-> isConst] @@ @]

\* defineVariable and defineConst. "DECLARE" is no instruction: it tells the
\* properties that the variable of this site begins here.
DefineVariable(c, isConst) ==
  LET made == MarkInitialized(c, isConst)  local == Last(made.locals) IN
  EmitAt(made, "DECLARE", Len(c.locals) - 1, Site(made, local.name))

\* `scopes' remembers what the names mean outside.
BeginScope(c) == [c EXCEPT !.depth = @ + 1, !.scopes = Append(@, c.visible)]

\* The receiver is a variable of the method.
BeginFunction(c, type) ==
  LET inner == BeginScope(InitCompiler(c, type))  this == [n |-> c.sites + 1, const |-> FALSE] IN
  IF type = "FUNCTION" THEN inner
  ELSE EmitAt([inner EXCEPT !.sites = @ + 1, !.visible = "this" :> this @@ @], "DECLARE", 0, this)

\* Mutation of EndScope: it does not look at isCaptured.
EndScopePops(c) ==
  LET n == Len(SelectSeq(c.locals, LAMBDA l : l.depth > c.depth - 1)) IN
  [EmitPops(c, n) EXCEPT !.depth = @ - 1, !.locals = SubSeq(@, 1, Len(@) - n)]

\* From the last variable on, those that are captured are closed, and the
\* others are popped, as many as possible at a time.
EndScope(c) ==
  LET step(acc, l) ==
        IF l.isCaptured THEN [c |-> Emit(EmitPops(acc.c, acc.pops), "CLOSE_UPVALUE", 0), pops |-> 0]
                        ELSE [acc EXCEPT !.pops = @ + 1]
      left == SelectSeq(c.locals, LAMBDA l : l.depth > c.depth - 1)
      done == FoldLeft(step, [c |-> c, pops |-> 0], Reverse(left))
  IN [EmitPops(done.c, done.pops) EXCEPT
        !.depth = @ - 1, !.locals = SubSeq(@, 1, Len(@) - Len(left))]

\* Behind a block the names mean what they meant before it.
EndBlock(c) ==
  [EndScope(c) EXCEPT !.visible = Last(c.scopes), !.scopes = Front(@)]

-----------------------------------------------------------------------------
(* Loops *)

\* LoopContext: where continue goes, localCount at its entry, break's jumps.
EnterLoop(c, k) ==
  [Release(c, k) EXCEPT
     !.loops = Append(@, [start |-> Kept(c, k), enter |-> Len(c.locals), breaks |-> {}])]

\* Every break lands behind the loop.
LeaveLoop(c) ==
  [c EXCEPT !.code = [n \in DOMAIN @ |-> IF n \in Last(c.loops).breaks
                                         THEN [@[n] EXCEPT !.arg = Here(c)] ELSE @[n]],
            !.loops = Front(@)]

\* Mutation of PopLocals: break and continue leave the variables on the stack.
PopNothing(c) == c

\* break and continue pop the variables declared in the loop, captured or not.
PopLocals(c) ==
  LET enter == Last(c.loops).enter IN
  [EmitPops(c, Len(c.locals) - enter) EXCEPT
     !.escapes = @ \/ \E n \in enter + 1 .. Len(c.locals) : c.locals[n].isCaptured]

Break(c) ==
  IF c.loops = <<>> THEN Fail(c)
  ELSE LET jump == Emit(PopLocals(c), "JUMP", 0) IN
       [jump EXCEPT !.loops[Len(c.loops)].breaks = @ \union {Len(jump.code)}]

LoopTo(c, k) == Release(Emit(c, "LOOP", Kept(c, k)), k)
EmitLoop(c) == Emit(c, "LOOP", Last(c.loops).start)
Continue(c) == IF c.loops = <<>> THEN Fail(c) ELSE EmitLoop(PopLocals(c))

-----------------------------------------------------------------------------
(* Expressions and statements *)

RECURSIVE Parse(_), ParseAll(_), ParseBranch(_)

ParseAll(ss) == IF ss = <<>> THEN <<>> ELSE Parse(Head(ss)) \o ParseAll(Tail(ss))

\* function(); a lambda has no name.
ParseFunction(n, type, ps, b) ==
  <<<<"function", type>>>> \o ParseAll([i \in DOMAIN ps |-> <<"parameter", ps[i]>>])
    \o ParseAll(b) \o <<<<"endFunction", Len(ps), n>>>>

ParseVariable(n, e, isConst) == <<<<"declare", n>>>> \o Parse(e) \o <<<<"define", isConst>>>>

\* The last two calls patch thenJump and elseJump.
ParseIf(s, t) ==
  <<<<"jump", "JUMP_IF_FALSE_POP">>>> \o s \o <<<<"jump", "JUMP">>, <<"patch", 1>>>>
    \o t \o <<<<"patch", 0>>>>

\* branchCaseStatement: the code of nested ifs; the last case may be `none'.
ParseBranch(cases) ==
  CASE cases = <<>> -> <<>>
    [] cases # <<>> /\ Head(cases)[1] = "none" -> Parse(Head(cases)[2])
    [] OTHER -> ParseIf(Parse(Head(cases)), ParseBranch(Tail(cases)))

ParseWhile(s) ==
  <<<<"here">>, <<"jump", "JUMP_IF_FALSE_POP">>, <<"enterLoop", 1>>>> \o Parse(s)
    \o <<<<"loop">>, <<"patch", 0>>, <<"leaveLoop">>>>

\* continue goes to the body, past the condition.
ParseDoWhile(s) ==
  <<<<"here">>, <<"enterLoop", 0>>>> \o Parse(s)
    \o <<<<"jump", "JUMP_IF_FALSE_POP">>, <<"loop">>, <<"patch", 0>>, <<"leaveLoop">>>>

\* Initializer, condition, increment, body; the increment jumps back to the
\* condition, and the body to the increment.
ParseFor(n, s) ==
  <<<<"beginScope">>>> \o ParseVariable(n, <<"lit", 0>>, FALSE)
    \o <<<<"here">>, <<"jump", "JUMP_IF_FALSE_POP">>, <<"jump", "JUMP">>,
         <<"here">>, <<"loopTo", 3>>, <<"patch", 1>>, <<"enterLoop", 0>>>>
    \o Parse(s) \o <<<<"loop">>, <<"patch", 0>>, <<"leaveLoop">>, <<"endBlock">>>>

\* classDeclaration: the class, the scope of `super', and the class again for its
\* methods.
ParseClass(n, super, methods) ==
  <<<<"declare", n>>, <<"class">>, <<"define", FALSE>>>>
    \o (IF super = "" THEN <<>>
        ELSE <<<<"superclass", super, n>>, <<"beginScope">>, <<"declare", "super">>,
               <<"define", FALSE>>, <<"get", n>>, <<"inherit">>>>)
    \o <<<<"get", n>>>> \o ParseAll(methods) \o <<<<"endClass">>>>

MethodType(m) == IF m = "init" THEN "INITIALIZER" ELSE "METHOD"

Parse(s) ==
  CASE s[1] \in {"lit", "get", "this", "break", "continue", "leave"} -> <<s>>
    [] s[1] = "set"       -> <<<<"target", s[2]>>>> \o Parse(s[3]) \o <<<<"set">>>>
    [] s[1] = "call"      -> <<<<"get", s[2]>>>> \o ParseAll(s[3]) \o <<<<"call", Len(s[3])>>>>
    [] s[1] = "invoke"    -> <<<<"get", s[2]>>>> \o ParseAll(s[4])
                             \o <<<<"invoke", s[3], Len(s[4])>>>>
    [] s[1] = "super"     -> <<<<"receiver">>>> \o ParseAll(s[3])
                             \o <<<<"get", "super">>, <<"superInvoke", s[2], Len(s[3])>>>>
    [] s[1] = "class"     -> ParseClass(s[2], s[3], s[4])
    [] s[1] = "method"    -> ParseFunction("", MethodType(s[2]), s[3], s[4])
                             \o <<<<"method", s[2]>>>>
    [] s[1] = "lambda"    -> ParseFunction("", "FUNCTION", s[2], s[3])
    [] s[1] = "parameter" -> <<<<"declare", s[2]>>, <<"define", FALSE>>>>
    [] s[1] = "var"       -> ParseVariable(s[2], s[3], FALSE)
    [] s[1] = "const"     -> ParseVariable(s[2], s[3], TRUE)
    [] s[1] = "fun"       -> <<<<"declare", s[2]>>, <<"initialize">>>>
                             \o ParseFunction(s[2], "FUNCTION", s[3], s[4])
    [] s[1] = "expr"      -> Parse(s[2]) \o <<<<"pop">>>>
    [] s[1] = "return"    -> Parse(s[2]) \o <<<<"return">>>>
    [] s[1] = "block"     -> <<<<"beginScope">>>> \o ParseAll(s[2]) \o <<<<"endBlock">>>>
    [] s[1] = "branch"    -> ParseBranch(s[2])
    [] s[1] = "else"      -> ParseIf(Parse(s[2]), Parse(s[3]))
    [] s[1] = "while"     -> ParseWhile(s[2])
    [] s[1] = "do"        -> ParseDoWhile(s[2])
    [] s[1] = "for"       -> ParseFor(s[2], s[3])

\* returnStatement, behind its expression.
ReturnValue(c) == Emit(FailIf(c, c.type = "INITIALIZER"), "RETURN", 0)

\* endCompiler, and the closure of the function in the code around it.
EndFunction(c, arity, name) ==
  LET around == EndCompiler(c, arity) IN
  EmitAt(around, "CLOSURE", Len(around.functions), Site(around, name))

\* The class, with no superclass yet; the one it inherits from; the end of both scopes.
NewClass(c) == [Emit(c, "CLASS", 0) EXCEPT !.classes = Append(@, FALSE)]
Superclass(c, super, name) == FailIf(GetVariable(c, super), super = name)
Inherit(c) == [Emit(c, "INHERIT", 0) EXCEPT !.classes[Len(c.classes)] = TRUE]
EndClass(c) ==
  LET done == [EmitPops(c, 1) EXCEPT !.classes = Front(@)]
  IN IF Last(c.classes) THEN EndBlock(done) ELSE done

\* this_ needs a class around: slot 0 of a module is named `this' as well.
This(c) == GetVariable(FailIf(c, c.classes = <<>>), "this")

\* super_: it needs a class around that has a superclass, and its receiver.
SuperReceiver(c) ==
  GetVariable(FailIf(c, c.classes = <<>> \/ ~Last(c.classes)), "this")

\* After an error nothing is run; the parser's search for more is left out.
Calls(name) == calls # <<>> /\ Head(calls)[1] = name /\ ~compiler.hadError
Operand == Head(calls)[2]
Compiles(c) == compiler' = c /\ calls' = Tail(calls) /\ UNCHANGED machine

Compile ==
  \/ Calls("lit") /\ Compiles(Emit(compiler, "CONSTANT", Operand))
  \/ Calls("get") /\ Compiles(GetVariable(compiler, Operand))
  \/ Calls("target") /\ Compiles(SetTarget(compiler, Operand))
  \/ Calls("set") /\ Compiles(SetVariable(compiler))
  \/ Calls("call") /\ Compiles(Emit(compiler, "CALL", Operand))
  \/ Calls("declare") /\ Compiles(DeclareVariable(compiler, Operand))
  \/ Calls("initialize") /\ Compiles(MarkInitialized(compiler, FALSE))
  \/ Calls("define") /\ Compiles(DefineVariable(compiler, Operand))
  \/ Calls("function") /\ Compiles(BeginFunction(compiler, Operand))
  \/ Calls("endFunction") /\ Compiles(EndFunction(compiler, Operand, Head(calls)[3]))
  \/ Calls("pop") /\ Compiles(EmitPops(compiler, 1))
  \/ Calls("return") /\ Compiles(ReturnValue(compiler))
  \/ Calls("leave") /\ Compiles(EmitReturn(compiler))
  \/ Calls("class") /\ Compiles(NewClass(compiler))
  \/ Calls("superclass") /\ Compiles(Superclass(compiler, Operand, Head(calls)[3]))
  \/ Calls("inherit") /\ Compiles(Inherit(compiler))
  \/ Calls("method") /\ Compiles(Emit(compiler, "METHOD", Operand))
  \/ Calls("endClass") /\ Compiles(EndClass(compiler))
  \/ Calls("this") /\ Compiles(This(compiler))
  \/ Calls("receiver") /\ Compiles(SuperReceiver(compiler))
  \/ Calls("invoke") /\ Compiles(Emit(compiler, "INVOKE", Tail(Head(calls))))
  \/ Calls("superInvoke") /\ Compiles(Emit(compiler, "SUPER_INVOKE", Tail(Head(calls))))
  \/ Calls("beginScope") /\ Compiles(BeginScope(compiler))
  \/ Calls("endBlock") /\ Compiles(EndBlock(compiler))
  \/ Calls("here") /\ Compiles(Keep(compiler, Here(compiler)))
  \/ Calls("jump") /\ Compiles(EmitJump(compiler, Operand))
  \/ Calls("patch") /\ Compiles(PatchJump(compiler, Operand))
  \/ Calls("loopTo") /\ Compiles(LoopTo(compiler, Operand))
  \/ Calls("enterLoop") /\ Compiles(EnterLoop(compiler, Operand))
  \/ Calls("loop") /\ Compiles(EmitLoop(compiler))
  \/ Calls("leaveLoop") /\ Compiles(LeaveLoop(compiler))
  \/ Calls("break") /\ Compiles(Break(compiler))
  \/ Calls("continue") /\ Compiles(Continue(compiler))

-----------------------------------------------------------------------------
(* The run loop *)

\* Values: numbers, closures, classes and instances of a class.
Literal(k) == [kind |-> "literal", n |-> k, upvalues |-> <<>>, env |-> <<>>]
Closure(f, refs, env) == [kind |-> "closure", n |-> f, upvalues |-> refs, env |-> env]
Class(k) == [kind |-> "class", n |-> k, upvalues |-> <<>>, env |-> <<>>]
Instance(k) == [kind |-> "instance", n |-> k, upvalues |-> <<>>, env |-> <<>>]

Frame == Last(frames)
Instr == code[Frame.function].code[Frame.ip]
At(op) == frames # <<>> /\ Instr.op = op
Arg == Instr.arg
Slot(i) == Frame.base + i + 1    \* the index in the stack of a slot of the frame

Enter(closure, base) ==
  [function |-> closure.n, ip |-> 1, base |-> base,
   upvalues |-> closure.upvalues, env |-> closure.env]

Goto(ip) == frames' = [frames EXCEPT ![Len(frames)].ip = ip]
Continues == Goto(Frame.ip + 1)

Push(v) == stack' = Append(stack, [id |-> Temp, val |-> v])
Top == Last(stack).val

\* compile() of a module, whose own variables are locals too.
Init ==
  /\ calls \in {ParseAll(f) : f \in Functions}
  /\ compiler = BeginScope(InitCompiler(NoCompiler, "MODULE"))
  /\ code = <<>> /\ frames = <<>> /\ stack = <<>> /\ classes = <<>> /\ upvalues = <<>> /\ store = <<>>

\* interpret() runs what was compiled without an error.
Start ==
  LET done == EndCompiler(compiler, 0) IN
  /\ calls = <<>> /\ compiler # NoCompiler
  /\ ~done.hadError /\ (done.escapes => Escapes)
  /\ compiler' = NoCompiler
  /\ code' = done.functions
  /\ frames' = <<Enter(Closure(Len(code'), <<>>, <<>>), 0)>>
  /\ stack' = <<[id |-> Temp, val |-> Literal(0)]>>
  /\ UNCHANGED <<calls, classes, upvalues, store>>

Constant ==
  /\ At("CONSTANT")
  /\ Push(Literal(Arg)) /\ Continues
  /\ UNCHANGED <<compilation, code, classes, upvalues, store>>

GetLocal ==
  /\ At("GET_LOCAL")
  /\ Push(stack[Slot(Arg)].val) /\ Continues
  /\ UNCHANGED <<compilation, code, classes, upvalues, store>>

\* What the variable should have from now on.
Assigned == store' = [store EXCEPT ![Frame.env[Instr.site]].val = Top]

SetLocal ==
  /\ At("SET_LOCAL")
  /\ stack' = [stack EXCEPT ![Slot(Arg)].val = Top]
  /\ Assigned /\ Continues
  /\ UNCHANGED <<compilation, code, classes, upvalues>>

Upvalue == upvalues[Frame.upvalues[Arg + 1]]

\* Where location points.
Content(u) == IF u.open THEN stack[u.slot] ELSE [id |-> u.id, val |-> u.val]

GetUpvalue ==
  /\ At("GET_UPVALUE")
  /\ Push(Content(Upvalue).val) /\ Continues
  /\ UNCHANGED <<compilation, code, classes, upvalues, store>>

SetUpvalue ==
  /\ At("SET_UPVALUE")
  /\ IF Upvalue.open
     THEN /\ stack' = [stack EXCEPT ![Upvalue.slot].val = Top]
          /\ UNCHANGED upvalues
     ELSE /\ upvalues' = [upvalues EXCEPT ![Frame.upvalues[Arg + 1]].val = Top]
          /\ UNCHANGED stack
  /\ Assigned /\ Continues
  /\ UNCHANGED <<compilation, code, classes>>

NewLocation == Len(store) + 1
MayDeclare == Len(store) < Variables

\* A variable comes to be: its slot holds its initial value. It takes no step of
\* the program.
Declare ==
  /\ At("DECLARE") /\ MayDeclare
  /\ stack' = [stack EXCEPT ![Slot(Arg)].id = Instr.site]
  /\ store' = Append(store, [site |-> Instr.site, val |-> stack[Slot(Arg)].val])
  /\ frames' = [frames EXCEPT ![Len(frames)].ip = @ + 1,
                              ![Len(frames)].env = Instr.site :> NewLocation @@ @]
  /\ UNCHANGED <<compilation, code, classes, upvalues>>

\* captureUpvalue shares the open upvalue of the slot, if there is one.
CaptureUpvalue(made, slot, id) ==
  LET known == SelectInSeq(made.upvalues, LAMBDA u : u.open /\ u.slot = slot) IN
  IF known # 0 THEN [made EXCEPT !.refs = Append(@, known)]
  ELSE [upvalues |-> Append(made.upvalues,
                            [open |-> TRUE, slot |-> slot, id |-> id, val |-> Literal(0)]),
        refs |-> Append(made.refs, Len(made.upvalues) + 1)]

\* The closure is pushed before it captures, so that a function may capture itself.
MakeClosure ==
  LET declares == Instr.site # Temp
      env == IF declares THEN Instr.site :> NewLocation @@ Frame.env ELSE Frame.env
      id(slot) == IF slot > Len(stack) THEN Instr.site ELSE stack[slot].id
      capture(made, u) ==
        IF u.isLocal THEN CaptureUpvalue(made, Slot(u.index), id(Slot(u.index)))
        ELSE [made EXCEPT !.refs = Append(@, Frame.upvalues[u.index + 1])]
      made == FoldLeft(capture, [upvalues |-> upvalues, refs |-> <<>>], code[Arg].upvalues)
      closure == Closure(Arg, made.refs, env)
  IN /\ At("CLOSURE")
     /\ declares => MayDeclare
     /\ stack' = Append(stack, [id |-> Instr.site, val |-> closure])
     /\ upvalues' = made.upvalues
     /\ store' = IF declares THEN Append(store, [site |-> Instr.site, val |-> closure]) ELSE store
     /\ frames' = [frames EXCEPT ![Len(frames)].ip = @ + 1, ![Len(frames)].env = env]
     /\ UNCHANGED <<compilation, code, classes>>

PopN ==
  /\ At("POP_N")
  /\ stack' = SubSeq(stack, 1, Len(stack) - Arg) /\ Continues
  /\ UNCHANGED <<compilation, code, classes, upvalues, store>>

\* closeUpvalues: from this slot on.
Closed(from) ==
  [u \in DOMAIN upvalues |->
     IF upvalues[u].open /\ upvalues[u].slot >= from
     THEN [open |-> FALSE, slot |-> 0] @@ Content(upvalues[u]) ELSE upvalues[u]]

CloseUpvalue ==
  /\ At("CLOSE_UPVALUE")
  /\ upvalues' = Closed(Len(stack))
  /\ stack' = Front(stack) /\ Continues
  /\ UNCHANGED <<compilation, code, classes, store>>

Jump ==
  /\ \/ At("JUMP") \/ At("LOOP") \/ At("JUMP_IF_FALSE_POP")
  /\ \/ Goto(Arg)
     \/ At("JUMP_IF_FALSE_POP") /\ Continues
  /\ UNCHANGED <<compilation, code, classes, stack, upvalues, store>>

\* call(); arguments that are missing are nil. An error ends the run (module VmStack).
CallOn(closure, argCount, values) ==
  /\ argCount <= code[closure.n].arity /\ Len(frames) < FramesMax
  /\ frames' = Append([frames EXCEPT ![Len(frames)].ip = @ + 1],
                      Enter(closure, Len(values) - argCount - 1))
  /\ stack' = values \o [i \in 1 .. code[closure.n].arity - argCount |->
                           [id |-> Temp, val |-> Literal(0)]]
  /\ UNCHANGED <<compilation, code, classes, upvalues, store>>

Peek(distance) == stack[Len(stack) - distance].val

CallClosure ==
  /\ At("CALL") /\ Peek(Arg).kind = "closure"
  /\ CallOn(Peek(Arg), Arg, stack)

\* The callee's slot becomes the instance's, which the initializer has as `this'.
CallClass ==
  /\ At("CALL") /\ Peek(Arg).kind = "class"
  /\ LET made == [stack EXCEPT ![Len(stack) - Arg].val = Instance(Peek(Arg).n)]
         initializer == classes[Peek(Arg).n].initializer
     IN \/ /\ initializer.kind = "closure"
           /\ CallOn(initializer, Arg, made)
        \/ /\ initializer.kind # "closure" /\ Arg = 0
           /\ stack' = made /\ Continues
           /\ UNCHANGED <<compilation, code, classes, upvalues, store>>

InvokeFromClass(k, name, argCount, values) ==
  /\ name \in DOMAIN classes[k].methods
  /\ CallOn(classes[k].methods[name], argCount, values)

\* No instance has a field, so that a method is what is invoked.
Invoke ==
  /\ At("INVOKE") /\ Peek(Arg[2]).kind = "instance"
  /\ InvokeFromClass(Peek(Arg[2]).n, Arg[1], Arg[2], stack)

SuperInvoke ==
  /\ At("SUPER_INVOKE")
  /\ InvokeFromClass(Top.n, Arg[1], Arg[2], Front(stack))

MakeClass ==
  /\ At("CLASS")
  /\ Push(Class(Len(classes) + 1)) /\ Continues
  /\ classes' = Append(classes, [methods |-> <<>>, initializer |-> Literal(0)])
  /\ UNCHANGED <<compilation, code, upvalues, store>>

DefineMethod ==
  /\ At("METHOD")
  /\ classes' = [classes EXCEPT
        ![Peek(1).n].methods = Arg :> Top @@ @,
        ![Peek(1).n].initializer = IF Arg = "init" THEN Top ELSE @]
  /\ stack' = Front(stack) /\ Continues
  /\ UNCHANGED <<compilation, code, upvalues, store>>

\* The methods are copied, and the cached initializer is not.
InheritMethods ==
  /\ At("INHERIT") /\ Peek(1).kind = "class"
  /\ classes' = [classes EXCEPT ![Top.n].methods = classes[Peek(1).n].methods @@ @]
  /\ stack' = Front(stack) /\ Continues
  /\ UNCHANGED <<compilation, code, upvalues, store>>

Return ==
  /\ At("RETURN")
  /\ upvalues' = Closed(Slot(0))
  /\ stack' = IF Len(frames) = 1 THEN <<>>
              ELSE Append(SubSeq(stack, 1, Frame.base), [id |-> Temp, val |-> Top])
  /\ frames' = Front(frames)
  /\ UNCHANGED <<compilation, code, classes, store>>

Next ==
  \/ Compile \/ Start
  \/ Constant \/ GetLocal \/ SetLocal \/ GetUpvalue \/ SetUpvalue \/ Declare
  \/ MakeClosure \/ PopN \/ CloseUpvalue \/ Jump \/ CallClosure
  \/ CallClass \/ Invoke \/ SuperInvoke \/ MakeClass \/ DefineMethod \/ InheritMethods \/ Return

Spec == Init /\ [][Next]_vars

-----------------------------------------------------------------------------
(* Properties *)

\* The slot the compiler counted for a variable is the slot the variable gets, on
\* every path through loops, break and continue: its initial value is there, and
\* every slot of the frame below it holds a variable.
SlotsAgree ==
  At("DECLARE") =>
    /\ Slot(Arg) <= Len(stack) /\ stack[Slot(Arg)].id = Temp
    /\ \A i \in 1..Arg - 1 : stack[Slot(i)].id # Temp

\* An open upvalue is on a slot that still holds the variable it was made
\* for: the variable does not leave the stack before its upvalue is closed,
\* or the closure would read and write whatever takes the slot next.
UpvalueOwnsSlot ==
  \A u \in Range(upvalues) : u.open => u.slot <= Len(stack) /\ stack[u.slot].id = u.id

\* Wherever the code reads or writes a variable, in a slot of the frame, in an open
\* upvalue of any frame below, or in a closed one, it finds the variable that the
\* name means in its lexical scope, in the instance the closure was made with, and
\* the value assigned to it last, by whichever function: closures share variables.
NamesMean ==
  At("GET_LOCAL") \/ At("SET_LOCAL") \/ At("GET_UPVALUE") \/ At("SET_UPVALUE") =>
    LET isLocal == At("GET_LOCAL") \/ At("SET_LOCAL")
        meant == Frame.env[Instr.site]
        there(place) == place.id = Instr.site /\ place.val = store[meant].val
    IN /\ Instr.site \in DOMAIN Frame.env
       /\ isLocal => Slot(Arg) <= Len(stack) /\ there(stack[Slot(Arg)])
       /\ ~isLocal => /\ Arg < Len(Frame.upvalues)
                      /\ Upvalue.open => Upvalue.slot <= Len(stack)
                      /\ there(Content(Upvalue))

\* "const" holds: no function, however deep inside the scope of a constant, compiles
\* to code that assigns to it.
ConstantsStay ==
  [][\A l \in DOMAIN store : store[l].site.const => store'[l] = store[l]]_vars
=============================================================================
