-------------------------------- MODULE VmStack --------------------------------
(***************************************************************************)
(* The stack of the virtual machine as memory: stack_push, which may move  *)
(* it, the call frames and open upvalues that point into it, the handlers  *)
(* that call, return, import and fail, and the lines of the REPL.          *)
(*                                                                         *)
(* A pointer is a block of memory and an index; realloc may answer another *)
(* block. Which instruction comes next is left open, as far as compiled    *)
(* code may choose it: operands lie above the variables of the frame.      *)
(***************************************************************************)
EXTENDS Naturals, Sequences, SequencesExt

CONSTANTS
  Functions,   \* closures of functions
  Modules,     \* absolute paths of scripts; also the closures of their code
  Arity,       \* parameters of each closure
  Literals,    \* what instructions push
  FrameMax,    \* FRAMES_MAX
  InitialSize, \* STACK_INITIAL_SIZE
  MinCapacity, \* 16 in GROW_CAPACITY
  StackMax,    \* UINT24_COUNT
  MaxArgs      \* bound: arguments of a call

Closures == Functions \union Modules

ASSUME SizeAssumption ==
  /\ FrameMax \in Nat \ {0} /\ InitialSize \in Nat \ {0, 1}
  /\ MinCapacity \in Nat \ {0} /\ StackMax \in Nat /\ MaxArgs \in Nat
ASSUME ArityAssumption ==
  /\ Arity \in [Closures -> Nat]
  /\ \A m \in Modules : Arity[m] = 0

VARIABLES
  mem,      \* the stack: its block, its slots, and stackTop
  frames,   \* vm.frames: the closure, and the pointer slots
  openUp,   \* vm.openUpvalues: pointers to their slots
  cached,   \* vm.scripts
  compiled, \* how often each path was compiled without error
  status    \* "ready" for a line, "run", "exit", or "undefined" behaviour. A loop
            \* that runs without a frame is not followed further

vars == <<mem, frames, openUp, cached, compiled, status>>

\* What a slot can hold, as far as a call and an import tell it apart: "object"
\* is a class or a bound method. realloc leaves the new slots undefined.
Value == Closures \union {"nil", "string", "native", "object", "instance", "junk"}

ASSUME LiteralAssumption == Literals \subseteq Value

Capacity(m) == Len(m.slots)

GrowCapacity(n) == IF n < MinCapacity THEN MinCapacity ELSE 2 * n

\* stack_reset; slots are numbered from 1 here, so that slot n is below
\* stackTop if n <= top.
Reset(m) == [m EXCEPT !.top = 0, !.slots = [i \in 1 .. Capacity(m) |-> "nil"]]

-----------------------------------------------------------------------------
(* stack_push writes, then grows when no slot is left. The set of what the *)
(* stack may become: realloc moves it, or does not.                        *)

Written(m, v) == [m EXCEPT !.slots[m.top + 1] = v, !.top = m.top + 1]

Grown(m) ==
  LET size == GrowCapacity(Capacity(m)) IN
  [m EXCEPT !.slots = @ \o [i \in 1 .. size - Len(@) |-> "junk"]]

\* Mutation of Push: the boundary is tested before the write.
PushTestsFirst(m, v) ==
  IF m.top < Capacity(m) THEN {Written(m, v)}
  ELSE {Written(Grown(m), v), Written([Grown(m) EXCEPT !.block = @ + 1], v)}

Push(m, v) ==
  LET w == Written(m, v) IN
  IF w.top < Capacity(m) THEN {w}
  ELSE {Grown(w), [Grown(w) EXCEPT !.block = @ + 1]}

\* There is room for n more values without "Stack overflow.".
Fits(n) == mem.top + n < Capacity(mem) \/ GrowCapacity(Capacity(mem)) <= StackMax

\* What stacks become by one more nil.
PushNil(ms) == UNION {Push(x, "nil") : x \in ms}

\* The missing parameters of a call.
PushNils(m, n) ==
  LET after[k \in 0 .. n] == IF k = 0 THEN {m} ELSE PushNil(after[k - 1])
  IN after[n]

Replace(m, d, v) == [m EXCEPT !.slots[m.top - d] = v]  \* STACK_PEEK(d) = v

Peek(d) == mem.slots[mem.top - d]

Running == Last(frames)

\* The running frame points into the stack as it is now.
Valid(f) == f.block = mem.block

\* Operands of the running frame: what is above its variables. (By its own
\* count where its pointer is stale.)
Operands == mem.top - Running.base - Arity[Running.closure]

-----------------------------------------------------------------------------
(* The end of a line: interpret_repl resets the stack, whatever the result;*)
(* runtimeError and throwError have done it before.                        *)

\* stack_reset, and what becomes of the run loop.
ResetAs(m, s) ==
  /\ mem' = Reset(m)
  /\ frames' = <<>>
  /\ openUp' = {}
  /\ status' = s

\* Mutation of EndLine: the handler does not return from the run loop.
EndLineRuns == ResetAs(mem, "run")

EndLine == ResetAs(mem, "ready")

\* Mutation of CallFails: the test comes one frame too late.
CallFailsLate(c, argc) == argc > Arity[c] \/ Len(frames) > FrameMax

\* call: too many arguments, or too many frames.
CallFails(c, argc) == argc > Arity[c] \/ Len(frames) = FrameMax

\* Mutation of Call: slots is computed before the missing parameters are pushed.
CallCountsArgs(m, c, argc) ==
  /\ mem' = m
  /\ frames' = Append(frames, [closure |-> c, block |-> m.block, base |-> m.top - argc])

\* call, from a stack that holds the callee and argc arguments.
Call(m, c, argc) ==
  \E x \in PushNils(m, Arity[c] - argc) :
    /\ mem' = x
    /\ frames' = Append(frames, [closure |-> c, block |-> x.block, base |-> x.top - Arity[c]])

\* Where the missing parameters do not fit, stack_push resets the stack under
\* them, and slots is below the stack.
CallOrFail(m, c, argc) ==
  /\ UNCHANGED <<cached, compiled>>
  /\ \/ CallFails(c, argc) /\ EndLine
     \/ /\ ~CallFails(c, argc) /\ Fits(Arity[c] - argc)
        /\ Call(m, c, argc)
        /\ UNCHANGED <<openUp, status>>
     \/ /\ ~CallFails(c, argc) /\ ~Fits(Arity[c] - argc)
        /\ ResetAs(mem, "undefined")

\* interpret: compile the line, push the closure of the script, call it.
Interpret(f) ==
  /\ status = "ready"
  /\ Arity[f] = 0
  /\ \E m \in Push(mem, f) : Call(m, f, 0)
  /\ status' = "run"
  /\ UNCHANGED <<openUp, cached, compiled>>

RuntimeError ==
  /\ status = "run"
  /\ EndLine
  /\ UNCHANGED <<cached, compiled>>

-----------------------------------------------------------------------------
(* Handlers                                                                *)

\* n operands are there, and no closure has captured them as variables.
Step(n) ==
  /\ status = "run"
  /\ frames # <<>>
  /\ Operands >= n
  /\ \A p \in openUp : p.index <= mem.top - n

PushConstant(v) ==
  /\ Step(0)
  /\ Fits(1)
  /\ mem' \in Push(mem, v)
  /\ UNCHANGED <<frames, openUp, cached, compiled, status>>

Pop ==
  /\ Step(1)
  /\ mem' = [mem EXCEPT !.top = @ - 1]
  /\ UNCHANGED <<frames, openUp, cached, compiled, status>>

\* Mutation of Locals: slots is one too low.
LocalsOneLower == Running.base - 1 .. mem.top

\* The variables and temporaries of the running frame, its callee excepted.
Locals == Running.base + 1 .. mem.top

\* The slot of the callee has a name in methods only: `this` (compiler.c:269).
IsThis(n) == \E i \in DOMAIN frames : n = frames[i].base /\ mem.slots[n] = "instance"

\* What the running function can read and capture.
Named == {n \in Running.base .. mem.top : n = Running.base => IsThis(n)}

\* OP_GET_LOCAL
GetLocal(n) ==
  /\ Step(0)
  /\ Valid(Running)
  /\ n \in Named
  /\ Fits(1)
  /\ mem' \in Push(mem, mem.slots[n])
  /\ UNCHANGED <<frames, openUp, cached, compiled, status>>

\* OP_SET_LOCAL
SetLocal(n) ==
  /\ Step(1)
  /\ Valid(Running)
  /\ n \in Locals
  /\ mem' = [mem EXCEPT !.slots[n] = Peek(0)]
  /\ UNCHANGED <<frames, openUp, cached, compiled, status>>

\* OP_CLOSURE: captureUpvalue(frame->slots + index)
CaptureUpvalue(n) ==
  /\ Step(0)
  /\ Valid(Running)
  /\ n \in Named
  /\ openUp' = openUp \union {[block |-> Running.block, index |-> n]}
  /\ UNCHANGED <<mem, frames, cached, compiled, status>>

\* OP_SET_UPVALUE through an open upvalue; `this` cannot be assigned to
\* (compiler.c:1538).
SetUpvalue(p) ==
  /\ Step(1)
  /\ Valid(p)
  /\ ~IsThis(p.index)
  /\ mem' = [mem EXCEPT !.slots[p.index] = Peek(0)]
  /\ UNCHANGED <<frames, openUp, cached, compiled, status>>

\* closeUpvalues(last): the upvalues that stay open.
OpenBelow(last) == {p \in openUp : p.index < last}

\* OP_CLOSE_UPVALUE
CloseUpvalue ==
  /\ Step(0)
  /\ Operands >= 1
  /\ [block |-> mem.block, index |-> mem.top] \in openUp
  /\ \A p \in openUp : Valid(p)
  /\ openUp' = OpenBelow(mem.top)
  /\ mem' = [mem EXCEPT !.top = @ - 1]
  /\ UNCHANGED <<frames, cached, compiled, status>>

\* OP_RETURN. The last frame ends the line with INTERPRET_OK.
Return ==
  /\ Step(1)
  /\ Valid(Running)
  /\ \A p \in openUp : Valid(p)
  /\ UNCHANGED <<cached, compiled>>
  /\ \/ /\ Len(frames) = 1
        /\ EndLine
     \/ /\ Len(frames) > 1
        /\ mem' = [mem EXCEPT !.slots[Running.base] = Peek(0), !.top = Running.base]
        /\ openUp' = OpenBelow(Running.base)
        /\ frames' = Front(frames)
        /\ UNCHANGED status

-----------------------------------------------------------------------------
(* Calls: OP_CALL and OP_INVOKE find the callee below argc arguments.      *)

CallClosure(argc) ==
  /\ Step(argc + 1)
  /\ Peek(argc) \in Closures
  /\ CallOrFail(mem, Peek(argc), argc)

\* A bound method: its receiver takes the slot of the callee; a class: a new
\* instance does. c is the method, or the initializer.
CallMethod(argc, c) ==
  /\ Step(argc + 1)
  /\ Peek(argc) = "object"
  /\ CallOrFail(Replace(mem, argc, "instance"), c, argc)

\* A class without an initializer: arguments are an error.
CallPlainClass ==
  /\ Step(1)
  /\ Peek(0) = "object"
  /\ mem' = Replace(mem, 0, "instance")
  /\ UNCHANGED <<frames, openUp, cached, compiled, status>>

\* call_native restores stackTop, and puts the result where the callee was.
NativeResult(m, argc, v) == [m EXCEPT !.top = mem.top - argc, !.slots[mem.top - argc] = v]

\* A native pushes n values to keep them from the collector. If that moves the
\* stack, the stackTop to restore is in the old block. If they do not fit, the
\* stack is reset, the native goes on, and so does the loop.
CallNative(argc, n, v) ==
  /\ Step(argc + 1)
  /\ Peek(argc) = "native"
  /\ UNCHANGED <<cached, compiled>>
  /\ \/ /\ Fits(n)
        /\ \E m \in PushNils(mem, n) :
             IF m.block = mem.block
             THEN mem' = NativeResult(m, argc, v) /\ UNCHANGED status
             ELSE mem' = m /\ status' = "undefined"
        /\ UNCHANGED <<frames, openUp>>
     \/ /\ ~Fits(n)
        /\ mem' = NativeResult(Reset(mem), argc, v)
        /\ frames' = <<>>
        /\ openUp' = {}
        /\ UNCHANGED status

\* An instruction that follows frame->slots or an open upvalue into a block
\* that is not the stack any more.
UseStale ==
  /\ Step(0)
  /\ ~Valid(Running) \/ \E p \in openUp : ~Valid(p)
  /\ status' = "undefined"
  /\ UNCHANGED <<mem, frames, openUp, cached, compiled>>

-----------------------------------------------------------------------------
(* OP_IMPORT: getCachedScript compiles a path that is not cached; the      *)
(* closure replaces the path, and is called.                               *)

\* addConstant pushes each constant of a script, and its function, and pops it
\* again: a stack with one slot left grows.
AfterCompiling(path) ==
  IF path \in cached THEN {mem} ELSE {[m EXCEPT !.top = mem.top] : m \in Push(mem, "string")}

\* The script is cached, or what it pushes fits.
Compiles(path) == path \in cached \/ Fits(1)

\* The compiler reports an error, with or without a constant before it: nothing
\* is cached, and the line ends.
ImportError(path) ==
  /\ Step(1)
  /\ Peek(0) = "string"
  /\ path \notin cached
  /\ \E m \in {mem} \union {x \in AfterCompiling(path) : Fits(1)} : ResetAs(m, "ready")
  /\ UNCHANGED <<cached, compiled>>

\* What addConstant pushes does not fit: stack_push resets the stack, and
\* addConstant pops a value below it.
CompileAtLimit(path) ==
  /\ Step(1)
  /\ Peek(0) = "string"
  /\ ~Compiles(path)
  /\ ResetAs(mem, "undefined")
  /\ UNCHANGED <<cached, compiled>>

\* readFile leaves the process (exit(74)).
ImportMissing ==
  /\ Step(1)
  /\ Peek(0) = "string"
  /\ status' = "exit"
  /\ UNCHANGED <<mem, frames, openUp, cached, compiled>>

\* Mutation of Cache: tableSet_script is forgotten.
CacheForgets(path) ==
  /\ compiled[path] < 2
  /\ cached' = cached
  /\ compiled' = [compiled EXCEPT ![path] = @ + 1]

\* getCachedScript
Cache(path) ==
  /\ cached' = cached \union {path}
  /\ compiled' = IF path \in cached THEN compiled ELSE [compiled EXCEPT ![path] = @ + 1]

Import(path) ==
  /\ Step(1)
  /\ Peek(0) = "string"
  /\ ~CallFails(path, 0)
  /\ Compiles(path)
  /\ Cache(path)
  /\ \E m \in AfterCompiling(path) : Call(Replace(m, 0, path), path, 0)
  /\ UNCHANGED <<openUp, status>>

-----------------------------------------------------------------------------
(* At the limits. stack_reset has run, and the handler goes on: the loop   *)
(* has no frame left.                                                      *)

\* No frame is left for the script: the answer of call() is ignored, and the
\* loop takes frames[frameCount - 1].
ImportAtLimit(path) ==
  /\ Step(1)
  /\ Peek(0) = "string"
  /\ CallFails(path, 0)
  /\ Compiles(path)
  /\ Cache(path)
  /\ \E m \in AfterCompiling(path) : ResetAs(m, "run")

\* stack_push reports "Stack overflow." and returns.
PushAtLimit ==
  /\ Step(0)
  /\ ~Fits(1)
  /\ ResetAs(mem, "run")
  /\ UNCHANGED <<cached, compiled>>

-----------------------------------------------------------------------------

Init ==
  /\ mem = [block |-> 0, top |-> 0, slots |-> [i \in 1 .. InitialSize |-> "nil"]]
  /\ frames = <<>>
  /\ openUp = {}
  /\ cached = {}
  /\ compiled = [m \in Modules |-> 0]
  /\ status = "ready"

Locate == 1 .. Capacity(mem)

Next ==
  \/ \E f \in Functions : Interpret(f)
  \/ RuntimeError
  \/ \E v \in Literals : PushConstant(v)
  \/ Pop
  \/ \E n \in Locate : GetLocal(n) \/ SetLocal(n) \/ CaptureUpvalue(n)
  \/ \E p \in openUp : SetUpvalue(p)
  \/ CloseUpvalue
  \/ Return
  \/ \E argc \in 0 .. MaxArgs :
       \/ CallClosure(argc)
       \/ \E c \in Functions : CallMethod(argc, c)
       \/ \E n \in 0 .. 1, v \in Literals : CallNative(argc, n, v)
  \/ CallPlainClass
  \/ UseStale
  \/ \E path \in Modules :
       ImportError(path) \/ CompileAtLimit(path) \/ Import(path) \/ ImportAtLimit(path)
  \/ ImportMissing
  \/ PushAtLimit

Spec == Init /\ [][Next]_vars

-----------------------------------------------------------------------------
(* Properties                                                              *)

TypeOK ==
  /\ mem.block \in Nat
  /\ mem.slots \in Seq(Value)
  /\ mem.top \in 0 .. Capacity(mem)
  /\ frames \in Seq([closure : Closures, block : 0 .. mem.block, base : 1 .. Capacity(mem)])
  /\ Len(frames) <= FrameMax
  /\ openUp \subseteq [block : 0 .. mem.block, index : 1 .. Capacity(mem)]
  /\ cached \subseteq Modules
  /\ compiled \in [Modules -> Nat]
  /\ status \in {"ready", "run", "exit", "undefined"}

\* stack_push writes before it tests: there is always a slot to write to, and
\* one for each value pushed in between (vm.c:147).
RoomForPush == mem.top < Capacity(mem)

\* The first slot of a frame holds its callee, or the receiver of a method, and
\* its parameters follow, below the next frame (vm.c:517-526). Neither a return
\* nor a native, nor growth, drops or overwrites them.
FramesOnStack ==
  \A i \in 1 .. Len(frames) :
    /\ mem.slots[frames[i].base] \in {frames[i].closure, "instance"}
    /\ frames[i].base + Arity[frames[i].closure] <
         IF i < Len(frames) THEN frames[i + 1].base ELSE mem.top + 1

CallerSlotsKept ==
  frames # <<>> /\ frames' # <<>> =>
    \A i \in 1 .. Running.base - 1 :
      \/ mem'.slots[i] = mem.slots[i]
      \/ [block |-> mem.block, index |-> i] \in openUp

\* Whatever a function does, calls and natives it calls included, the slots of
\* its callers keep their values, unless it assigns through an open upvalue.
CallersUntouched == [][CallerSlotsKept]_vars

\* The run loop runs a frame (vm.c:1686: "we entered the function").
RunHasFrame == status = "run" => frames # <<>>

LostAtLimit ==
  RunHasFrame /\ ~RunHasFrame' => Len(frames) = FrameMax \/ ~Fits(1)

\* The run loop loses its frame only at a limit: when all frames are in use, or
\* the stack is full and cannot grow. Whatever else fails leaves the loop.
FrameLostAtLimits == [][LostAtLimit]_vars

\* A script is compiled once, however often it is imported (README.md:179).
CompiledOnce == \A m \in Modules : compiled[m] <= 1

\* CallFrame.slots and ObjUpvalue.location point into the stack (vm.h:21).
PointersIntoStack == \A p \in ToSet(frames) \union openUp : Valid(p)
=============================================================================
