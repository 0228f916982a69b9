-------------------------------- MODULE VmHeap --------------------------------
(***************************************************************************)
(* The instruction handlers of vm.c that read, move, store or allocate     *)
(* collectable objects, over the heap and the collector of Collector.      *)
(* A handler that allocates suspends in Request and has one action per     *)
(* allocation; everything a handler does between two allocations is one    *)
(* step.                                                                   *)
(*                                                                         *)
(* The bytecode is abstracted to the guarantees the compiler gives: an     *)
(* instruction finds its operands above the slots of the running frame,    *)
(* and a local that a closure captured leaves the stack by                 *)
(* OP_CLOSE_UPVALUE or by OP_RETURN, never by OP_POP (endScope).           *)
(***************************************************************************)
EXTENDS Collector, FiniteSets

CONSTANTS
  Programs,    \* sets of instructions: what the bytecode may contain
  Pool,        \* Pool[p][k]: addresses mem_realloc hands program p for kind k
  MaxUpvalues, \* bound: upvalues of one function
  MaxPadding,  \* bound: missing arguments of one call
  MaxGlobals,  \* bound: objects the global table refers to
  MaxFields    \* bound: objects the fields of one instance refer to

ASSUME ProgramAssumption ==
  /\ \A p \in Programs : p \subseteq STRING
  /\ Pool \in [Programs -> [Kind -> SUBSET Objects]]
  /\ MaxUpvalues \in Nat
  /\ MaxPadding \in Nat
  /\ MaxGlobals \in Nat
  /\ MaxFields \in Nat

VARIABLES
  base,  \* vm.frames[i].slots - vm.stack
  loc,   \* ObjUpvalue.location - vm.stack, while the upvalue is open
  program  \* the instructions and natives that occur in the bytecode

vars == <<gcVars, rootVars, base, loc, program>>

Slots == 0 .. StackMax - 1

Init ==
  /\ heap = {}
  /\ kind = [o \in Addr |-> "class"]
  /\ slot = [o \in Addr |-> NoRefs]
  /\ isMarked = [o \in Addr |-> o = EmptyClass]
  /\ gcMark = TRUE
  /\ gray = {}
  /\ phase = "run"
  /\ pend = Idle
  /\ stack = [i \in Slots |-> Nil]
  /\ top = 0
  /\ closureOf = [i \in 0 .. FramesMax - 1 |-> Nil]
  /\ frameCount = 0
  /\ openUp = {}
  /\ globals = {}
  /\ base = [i \in 0 .. FramesMax - 1 |-> 0]
  /\ loc = [o \in Objects |-> 0]
  /\ program \in Programs

-----------------------------------------------------------------------------
(* Reading and writing the stack *)

\* The run loop dispatches op, an opcode (or a native) of the program.
Running(op) == phase = "run" /\ frameCount > 0 /\ op \in program
Resumed(op) == phase = "resume" /\ pend.op = op

Fresh(k) == Pool[program][k] \ heap

Frame == base[frameCount - 1]     \* frame->slots
Current == closureOf[frameCount - 1]  \* frame->closure

Peek(d) == stack[top - 1 - d]  \* STACK_PEEK

\* The n topmost slots are temporaries: above frame->slots[0], not captured.
Operands(n) ==
  /\ top - n > Frame
  /\ \A u \in openUp : loc[u] < top - n

IsKind(v, k) == v \in heap /\ kind[v] = k

\* Slots a variable of the program names: slot 0 only as "this".
Locals == {i \in Frame .. top - 1 : i > Frame \/ IsKind(stack[i], "instance")}

\* s with the slots from n upwards dropped (vm.stackTop = n).
Cut(s, n) == [i \in Slots |-> IF i < n THEN s[i] ELSE Nil]

Push(v) ==
  /\ top < StackMax
  /\ stack' = [stack EXCEPT ![top] = v]
  /\ top' = top + 1

\* Pop n values, then stack_replace(v).
PopReplace(n, v) ==
  /\ stack' = Cut([stack EXCEPT ![top - 1 - n] = v], top - n)
  /\ top' = top - n

\* A handler that only moves values on the stack.
MovesOnly == UNCHANGED <<gcVars, closureOf, frameCount, openUp, globals, base, loc, program>>

\* Nothing but the heap, the stack and the control of the handler changes.
FramesAside ==
  UNCHANGED <<gcMark, gray, closureOf, frameCount, openUp, globals, base, loc, program>>

PushConstant ==   \* OP_CONSTANT, OP_NIL, OP_TRUE, OP_FALSE, OP_MODULE_BUILTIN
  /\ Running("OP_CONSTANT")
  /\ Push(Nil)
  /\ MovesOnly

GetLocal ==
  /\ Running("OP_GET_LOCAL")
  /\ \E i \in Locals : Push(stack[i])
  /\ MovesOnly

SetLocal ==
  /\ Running("OP_SET_LOCAL")
  /\ Operands(1)
  /\ \E i \in Locals \ {Frame, top - 1} :
       /\ stack' = [stack EXCEPT ![i] = Peek(0)]
       /\ UNCHANGED top
  /\ MovesOnly

\* OP_POP, and OP_POP_N repeated.
Pop ==
  /\ Running("OP_POP")
  /\ Operands(1)
  /\ stack' = Cut(stack, top - 1)
  /\ top' = top - 1
  /\ MovesOnly

-----------------------------------------------------------------------------
(* Globals *)

GetGlobal ==
  /\ Running("OP_GET_GLOBAL")
  /\ \E v \in globals \union {Nil} : Push(v)
  /\ MovesOnly

\* OP_DEFINE_GLOBAL and OP_SET_GLOBAL: tableSet may grow the table, with the
\* value still on the stack.
DefineGlobal ==
  /\ \E op \in {"OP_DEFINE_GLOBAL", "OP_SET_GLOBAL"} :
       Running(op) /\ Request(op, Nil, Peek(0), 0, 0)
  /\ Operands(1)
  /\ UNCHANGED <<heap, kind, slot, isMarked, stack, top>>
  /\ FramesAside

\* The entry may have held another object, which it no longer does.
StoreGlobal ==
  /\ \E old \in globals \union {Nil} : globals' = (globals \ {old}) \union Obj(pend.b)
  /\ Cardinality(globals') <= MaxGlobals
  /\ Done
  /\ UNCHANGED <<heap, kind, slot, isMarked, gcMark, gray, closureOf, frameCount, openUp, base, loc, program>>

DefineGlobalEnd ==
  /\ Resumed("OP_DEFINE_GLOBAL")
  /\ StoreGlobal
  /\ stack' = Cut(stack, top - 1)
  /\ top' = top - 1

SetGlobalEnd ==
  /\ Resumed("OP_SET_GLOBAL")
  /\ StoreGlobal
  /\ UNCHANGED <<stack, top>>

-----------------------------------------------------------------------------
(* Arrays *)

NewArray ==
  /\ Running("OP_NEW_ARRAY")
  /\ top < StackMax
  /\ \E n \in 0 .. StackMax : Operands(n) /\ Request("NewArray", Nil, Nil, n, 0)
  /\ UNCHANGED <<heap, kind, slot, isMarked, stack, top>>
  /\ FramesAside

\* Pushed before reserveArray, which allocates.
NewArrayPush ==
  /\ Resumed("NewArray")
  /\ \E o \in Fresh("array") : Put(o, "array", NoRefs) /\ Push(o)
  /\ IF pend.n > 0 THEN Request("ReserveArray", Nil, Nil, pend.n, 0) ELSE Done
  /\ FramesAside

NewArrayFill ==
  /\ Resumed("ReserveArray")
  /\ slot' = [slot EXCEPT ![Peek(0)]["elements"] =
                {stack[i] : i \in top - 1 - pend.n .. top - 2} \ {Nil}]
  /\ PopReplace(pend.n, Peek(0))
  /\ Done
  /\ UNCHANGED <<heap, kind, isMarked>>
  /\ FramesAside

\* OP_GET_INDEX and OP_GET_SUBSCRIPT on an array: an element, or nil.
GetElement ==
  /\ Running("OP_GET_INDEX")
  /\ Operands(1)
  /\ IsKind(Peek(0), "array")
  /\ \E v \in slot[Peek(0)]["elements"] \union {Nil} : PopReplace(0, v)
  /\ MovesOnly

\* OP_SET_INDEX and OP_SET_SUBSCRIPT on an array.
SetElement ==
  /\ Running("OP_SET_INDEX")
  /\ Operands(2)
  /\ IsKind(Peek(1), "array")
  /\ \E old \in slot[Peek(1)]["elements"] \union {Nil} :
       slot' = [slot EXCEPT ![Peek(1)]["elements"] = (@ \ {old}) \union Obj(Peek(0))]
  /\ PopReplace(1, Peek(0))
  /\ UNCHANGED <<heap, kind, isMarked, phase, pend>>
  /\ FramesAside

\* @array.push(array, value): callee, array and value are on the stack while
\* reserveArray allocates.
PushNative ==
  /\ Running("@array.push")
  /\ Operands(3)
  /\ Peek(2) = Nil
  /\ IsKind(Peek(1), "array")
  /\ Request("PushNative", Peek(1), Peek(0), 0, 0)
  /\ UNCHANGED <<heap, kind, slot, isMarked, stack, top>>
  /\ FramesAside

PushNativeEnd ==
  /\ Resumed("PushNative")
  /\ slot' = [slot EXCEPT ![pend.a]["elements"] = @ \union Obj(pend.b)]
  /\ PopReplace(2, Nil)
  /\ Done
  /\ UNCHANGED <<heap, kind, isMarked>>
  /\ FramesAside

\* @array.slice(array): the result is pushed before its payload is reserved.
SliceNative ==
  /\ Running("@array.slice")
  /\ Operands(2)
  /\ top < StackMax
  /\ Peek(1) = Nil
  /\ IsKind(Peek(0), "array")
  /\ Request("SliceNative", Peek(0), Nil, 0, 0)
  /\ UNCHANGED <<heap, kind, slot, isMarked, stack, top>>
  /\ FramesAside

\* Mutation of SliceNativePush: the result is kept in a C local only.
SliceNativeUnpushed ==
  /\ Resumed("SliceNative")
  /\ \E o \in Fresh("array") :
       /\ Put(o, "array", NoRefs)
       /\ Request("SliceReserve", pend.a, o, 0, 0)
  /\ UNCHANGED <<stack, top>>
  /\ FramesAside

SliceNativePush ==
  /\ Resumed("SliceNative")
  /\ \E o \in Fresh("array") :
       /\ Put(o, "array", NoRefs)
       /\ Push(o)
       /\ Request("SliceReserve", pend.a, o, 0, 0)
  /\ FramesAside

\* call_native restores the top it saved and replaces the callee.
SliceNativeEnd ==
  /\ Resumed("SliceReserve")
  /\ \E E \in SUBSET slot[pend.a]["elements"] :
       slot' = [slot EXCEPT ![pend.b]["elements"] = E]
  /\ PopReplace(2, pend.b)
  /\ Done
  /\ UNCHANGED <<heap, kind, isMarked>>
  /\ FramesAside

\* @sys.gc()
GcNative ==
  /\ Running("@sys.gc")
  /\ Operands(1)
  /\ Peek(0) = Nil
  /\ pend' = [Idle EXCEPT !.op = "GcNative"]
  /\ phase' = "roots"
  /\ UNCHANGED <<heap, kind, slot, isMarked, stack, top>>
  /\ FramesAside

GcNativeEnd ==
  /\ Resumed("GcNative")
  /\ PopReplace(0, Nil)
  /\ Done
  /\ UNCHANGED <<heap, kind, slot, isMarked>>
  /\ FramesAside

-----------------------------------------------------------------------------
(* Closures and upvalues *)

\* interpret(): the closure of the compiled script has no upvalues.
Interpret ==
  /\ phase = "run"
  /\ frameCount = 0
  /\ Request("Interpret", Nil, Nil, 0, 0)
  /\ UNCHANGED <<heap, kind, slot, isMarked, stack, top>>
  /\ FramesAside

InterpretCall ==
  /\ Resumed("Interpret")
  /\ \E o \in Fresh("closure") :
       /\ Put(o, "closure", NoRefs)
       /\ Push(o)
       /\ closureOf' = [closureOf EXCEPT ![0] = o]
  /\ base' = [base EXCEPT ![0] = top]
  /\ frameCount' = 1
  /\ Done
  /\ UNCHANGED <<gcMark, gray, openUp, globals, loc, program>>

\* OP_CLOSURE of a function with n upvalues: newClosure allocates the array
\* of upvalue pointers, if there are any, and then the object.
NewClosure ==
  /\ Running("OP_CLOSURE")
  /\ top < StackMax
  /\ \E n \in 0 .. MaxUpvalues :
       /\ n = 0 \/ "OP_GET_UPVALUE" \in program
       /\ IF n = 0 THEN Request("NewClosure", Nil, Nil, 0, 0)
                   ELSE Request("UpvalueArray", Nil, Nil, n, 0)
  /\ UNCHANGED <<heap, kind, slot, isMarked, stack, top>>
  /\ FramesAside

UpvalueArrayEnd ==
  /\ Resumed("UpvalueArray")
  /\ Request("NewClosure", Nil, Nil, pend.n, 0)
  /\ UNCHANGED <<heap, kind, slot, isMarked, stack, top>>
  /\ FramesAside

\* The next upvalue of the closure under construction, or the end.
CaptureRest(n) ==
  IF n = 0 THEN Done ELSE /\ phase' = "resume"
                          /\ pend' = [Idle EXCEPT !.op = "Capture", !.n = n]

\* Pushed before its upvalues are captured, which allocates.
NewClosurePush ==
  /\ Resumed("NewClosure")
  /\ \E o \in Fresh("closure") : Put(o, "closure", NoRefs) /\ Push(o)
  /\ CaptureRest(pend.n)
  /\ FramesAside

AddUpvalue(u) == slot' = [slot EXCEPT ![Peek(0)]["upvalues"] = @ \union {u}]

\* Mutation of CaptureLocal: the open upvalues are not searched.
CaptureLocalAnew ==
  /\ Resumed("Capture")
  /\ \E i \in Locals : Request("NewUpvalue", Nil, Nil, pend.n, i)
  /\ UNCHANGED <<heap, kind, slot, isMarked, stack, top>>
  /\ FramesAside

\* captureUpvalue(frame->slots + index): the open upvalue of that slot is
\* shared, or a new one is allocated. The slot may be the closure's own.
CaptureLocal ==
  /\ Resumed("Capture")
  /\ \E i \in Locals :
       \/ \E u \in openUp :
            /\ loc[u] = i
            /\ AddUpvalue(u)
            /\ CaptureRest(pend.n - 1)
       \/ /\ \A u \in openUp : loc[u] # i
          /\ Request("NewUpvalue", Nil, Nil, pend.n, i)
          /\ UNCHANGED slot
  /\ UNCHANGED <<heap, kind, isMarked, stack, top>>
  /\ FramesAside

NewUpvalue ==
  /\ Resumed("NewUpvalue")
  /\ \E u \in Fresh("upvalue") :
       /\ heap' = heap \union {u}
       /\ kind' = [kind EXCEPT ![u] = "upvalue"]
       /\ isMarked' = [isMarked EXCEPT ![u] = NewMark]
       /\ slot' = [slot EXCEPT ![u] = NoRefs, ![Peek(0)]["upvalues"] = @ \union {u}]
       /\ openUp' = openUp \union {u}
       /\ loc' = [loc EXCEPT ![u] = pend.at]
  /\ CaptureRest(pend.n - 1)
  /\ UNCHANGED <<gcMark, gray, stack, top, closureOf, frameCount, globals, base, program>>

CaptureEnclosing ==
  /\ Resumed("Capture")
  /\ \E u \in slot[Current]["upvalues"] : AddUpvalue(u)
  /\ CaptureRest(pend.n - 1)
  /\ UNCHANGED <<heap, kind, isMarked, stack, top>>
  /\ FramesAside

\* v is what *upvalue->location reads.
Holds(u, v) ==
  IF u \in openUp THEN v = stack[loc[u]] ELSE Obj(v) = slot[u]["closed"]

GetUpvalue ==
  /\ Running("OP_GET_UPVALUE")
  /\ \E u \in slot[Current]["upvalues"], v \in Value : Holds(u, v) /\ Push(v)
  /\ MovesOnly

SetUpvalue ==
  /\ Running("OP_SET_UPVALUE")
  /\ Operands(1)
  /\ \E u \in slot[Current]["upvalues"] :
       IF u \in openUp
       THEN stack' = [stack EXCEPT ![loc[u]] = Peek(0)] /\ UNCHANGED slot
       ELSE slot' = [slot EXCEPT ![u]["closed"] = Obj(Peek(0))] /\ UNCHANGED stack
  /\ UNCHANGED <<heap, kind, isMarked, phase, pend, top>>
  /\ FramesAside

\* Mutation of CloseUpvalues: the upvalue on the slot n itself stays open.
CloseUpvaluesAbove(n) ==
  /\ slot' = [o \in Addr |-> IF o \in openUp /\ loc[o] > n
                             THEN [slot[o] EXCEPT !["closed"] = Obj(stack[loc[o]])]
                             ELSE slot[o]]
  /\ openUp' = {u \in openUp : loc[u] <= n}
  /\ loc' = [u \in Objects |-> IF u \in openUp /\ loc[u] > n THEN 0 ELSE loc[u]]

\* closeUpvalues(vm.stack + n)
CloseUpvalues(n) ==
  /\ slot' = [o \in Addr |-> IF o \in openUp /\ loc[o] >= n
                             THEN [slot[o] EXCEPT !["closed"] = Obj(stack[loc[o]])]
                             ELSE slot[o]]
  /\ openUp' = {u \in openUp : loc[u] < n}
  /\ loc' = [u \in Objects |-> IF u \in openUp /\ loc[u] >= n THEN 0 ELSE loc[u]]

CloseUpvalue ==
  /\ Running("OP_CLOSE_UPVALUE")
  /\ top - 1 > Frame
  /\ CloseUpvalues(top - 1)
  /\ stack' = Cut(stack, top - 1)
  /\ top' = top - 1
  /\ UNCHANGED <<heap, kind, isMarked, gcMark, gray, phase, pend, closureOf, frameCount, globals, base, program>>

\* A script returns at its end only, where the compiler pushed nil: its
\* return leaves the stack empty and ends interpret().
Return ==
  /\ Running("OP_RETURN")
  /\ Operands(1)
  /\ frameCount = 1 => top = 2
  /\ CloseUpvalues(Frame)
  /\ frameCount' = frameCount - 1
  /\ top' = IF frameCount = 1 THEN 0 ELSE Frame + 1
  /\ stack' = Cut([stack EXCEPT ![Frame] = Peek(0)], top')
  /\ closureOf' = [closureOf EXCEPT ![frameCount - 1] = Nil]
  /\ base' = [base EXCEPT ![frameCount - 1] = 0]
  /\ UNCHANGED <<heap, kind, isMarked, gcMark, gray, phase, pend, globals, program>>

-----------------------------------------------------------------------------
(* Classes and instances *)

NewClass ==   \* OP_CLASS
  /\ Running("OP_CLASS")
  /\ top < StackMax
  /\ Request("NewClass", Nil, Nil, 0, 0)
  /\ UNCHANGED <<heap, kind, slot, isMarked, stack, top>>
  /\ FramesAside

NewClassPush ==
  /\ Resumed("NewClass")
  /\ \E o \in Fresh("class") : Put(o, "class", NoRefs) /\ Push(o)
  /\ Done
  /\ FramesAside

\* defineMethod(); n = 1 when the name is "init". The table may grow while
\* method and klass are C locals.
Method ==
  /\ Running("OP_METHOD")
  /\ Operands(2)
  /\ IsKind(Peek(0), "closure")
  /\ IsKind(Peek(1), "class")
  /\ \E n \in {0, 1} : Request("Method", Peek(1), Peek(0), n, 0)
  /\ UNCHANGED <<heap, kind, slot, isMarked, stack, top>>
  /\ FramesAside

\* A method of the same name, say an inherited one, is replaced.
MethodEnd ==
  /\ Resumed("Method")
  /\ \E old \in slot[pend.a]["methods"] \union {Nil} :
       /\ pend.n = 1 \/ old \notin slot[pend.a]["initializer"]
       /\ slot' = [slot EXCEPT
                     ![pend.a]["methods"] = (@ \ {old}) \union {pend.b},
                     ![pend.a]["initializer"] = IF pend.n = 1 THEN {pend.b} ELSE @]
  /\ stack' = Cut(stack, top - 1)
  /\ top' = top - 1
  /\ Done
  /\ UNCHANGED <<heap, kind, isMarked>>
  /\ FramesAside

\* Mutation of Inherit: "Superclass must be a class." is not tested.
InheritUntested ==
  /\ Running("OP_INHERIT")
  /\ Operands(2)
  /\ IsKind(Peek(0), "class")
  /\ Peek(1) # Peek(0)
  /\ Request("Inherit", Nil, Nil, 0, 0)
  /\ UNCHANGED <<heap, kind, slot, isMarked, stack, top>>
  /\ FramesAside

\* OP_INHERIT: tableAddAll copies one method at a time, and each copy may
\* grow the table of the subclass. The initializer cache is not copied.
Inherit ==
  /\ Running("OP_INHERIT")
  /\ Operands(2)
  /\ IsKind(Peek(0), "class")
  /\ IsKind(Peek(1), "class")
  /\ Peek(0) # Peek(1)
  /\ Request("Inherit", Nil, Nil, 0, 0)
  /\ UNCHANGED <<heap, kind, slot, isMarked, stack, top>>
  /\ FramesAside

InheritCopy ==
  /\ Resumed("Inherit")
  /\ \E m \in slot[Peek(1)]["methods"] \ slot[Peek(0)]["methods"] :
       slot' = [slot EXCEPT ![Peek(0)]["methods"] = @ \union {m}]
  /\ Request("Inherit", Nil, Nil, 0, 0)
  /\ UNCHANGED <<heap, kind, isMarked, stack, top>>
  /\ FramesAside

InheritEnd ==
  /\ Resumed("Inherit")
  /\ slot[Peek(1)]["methods"] \subseteq slot[Peek(0)]["methods"]
  /\ stack' = Cut(stack, top - 1)
  /\ top' = top - 1
  /\ Done
  /\ UNCHANGED <<heap, kind, slot, isMarked>>
  /\ FramesAside

NewObject ==   \* OP_NEW_OBJECT
  /\ Running("OP_NEW_OBJECT")
  /\ top < StackMax
  /\ Request("NewObject", Nil, Nil, 0, 0)
  /\ UNCHANGED <<heap, kind, slot, isMarked, stack, top>>
  /\ FramesAside

NewObjectPush ==
  /\ Resumed("NewObject")
  /\ \E o \in Fresh("instance") :
       /\ Put(o, "instance", [NoRefs EXCEPT !["klass"] = {EmptyClass}])
       /\ Push(o)
  /\ Done
  /\ FramesAside

\* OP_SET_PROPERTY, OP_SET_SUBSCRIPT (n = 1, the value stays) and
\* OP_NEW_PROPERTY (n = 0, the instance stays).
SetProperty ==
  /\ Running("OP_SET_PROPERTY")
  /\ Operands(2)
  /\ IsKind(Peek(1), "instance")
  /\ \E n \in {0, 1} : Request("SetProperty", Peek(1), Peek(0), n, 0)
  /\ UNCHANGED <<heap, kind, slot, isMarked, stack, top>>
  /\ FramesAside

\* The property may have held another value; nil deletes it (or, in
\* OP_NEW_PROPERTY, is stored).
SetPropertyEnd ==
  /\ Resumed("SetProperty")
  /\ \E old \in slot[pend.a]["fields"] \union {Nil} :
       slot' = [slot EXCEPT ![pend.a]["fields"] = (@ \ {old}) \union Obj(pend.b)]
  /\ Cardinality(slot'[pend.a]["fields"]) <= MaxFields
  /\ PopReplace(1, IF pend.n = 1 THEN pend.b ELSE pend.a)
  /\ Done
  /\ UNCHANGED <<heap, kind, isMarked>>
  /\ FramesAside

\* OP_GET_PROPERTY and OP_GET_SUBSCRIPT on an instance: a field, or nil.
GetField ==
  /\ Running("OP_GET_PROPERTY")
  /\ Operands(1)
  /\ IsKind(Peek(0), "instance")
  /\ \E v \in slot[Peek(0)]["fields"] \union {Nil} : PopReplace(0, v)
  /\ MovesOnly

\* ... or a method of its class: bindMethod holds the receiver and the
\* method in C locals while it allocates.
GetMethod ==
  /\ Running("OP_GET_PROPERTY")
  /\ Operands(1)
  /\ IsKind(Peek(0), "instance")
  /\ \E k \in slot[Peek(0)]["klass"] : \E m \in slot[k]["methods"] :
       Request("BindMethod", Peek(0), m, 0, 0)
  /\ UNCHANGED <<heap, kind, slot, isMarked, stack, top>>
  /\ FramesAside

\* OP_GET_SUPER: the superclass is popped before the allocation. The
\* compiler pushed it from the upvalue "super" of the running method.
GetSuper ==
  /\ Running("OP_GET_SUPER")
  /\ Operands(2)
  /\ IsKind(Peek(0), "class")
  /\ IsKind(Peek(1), "instance")
  /\ \E u \in slot[Current]["upvalues"] : Holds(u, Peek(0))
  /\ \/ /\ \E m \in slot[Peek(0)]["methods"] : Request("BindMethod", Peek(1), m, 0, 0)
        /\ stack' = Cut(stack, top - 1)
        /\ top' = top - 1
     \/ /\ PopReplace(1, Nil)  \* no method of that name
        /\ UNCHANGED <<phase, pend>>
  /\ UNCHANGED <<heap, kind, slot, isMarked>>
  /\ FramesAside

BindMethodEnd ==
  /\ Resumed("BindMethod")
  /\ \E o \in Fresh("bound") :
       /\ Put(o, "bound", [NoRefs EXCEPT !["receiver"] = {pend.a}, !["method"] = {pend.b}])
       /\ PopReplace(0, o)
  /\ Done
  /\ FramesAside

-----------------------------------------------------------------------------
(* Calls *)

\* Mutation of Enter: FRAMES_MAX is tested one frame too late.
EnterPastLimit(c, argc, s, t) ==
  /\ frameCount <= FramesMax
  /\ stack' = Cut(s, t)
  /\ top' = t
  /\ closureOf' = [closureOf EXCEPT ![frameCount] = c]
  /\ base' = [base EXCEPT ![frameCount] = t - 1 - argc]
  /\ frameCount' = frameCount + 1

\* call() on the stack s cut to height t: missing arguments are padded with
\* nil (n of them), and the slot below the arguments becomes slot 0 of a new
\* frame.
Enter(c, argc, s, t) ==
  /\ frameCount < FramesMax
  /\ \E n \in 0 .. MaxPadding :
       /\ t + n <= StackMax
       /\ top' = t + n
  /\ stack' = Cut(s, t)
  /\ closureOf' = [closureOf EXCEPT ![frameCount] = c]
  /\ base' = [base EXCEPT ![frameCount] = t - 1 - argc]
  /\ frameCount' = frameCount + 1

\* callValue() on a closure, or on a bound method, whose receiver takes the
\* place of the callee.
EnterValue(c, argc, s) ==
  \/ IsKind(c, "closure") /\ Enter(c, argc, s, top)
  \/ /\ IsKind(c, "bound")
     /\ \E r \in slot[c]["receiver"], m \in slot[c]["method"] :
          Enter(m, argc, [s EXCEPT ![top - 1 - argc] = r], top)

CallOnly == UNCHANGED <<gcVars, openUp, globals, loc, program>>

Call ==   \* OP_CALL
  /\ Running("OP_CALL")
  /\ \E argc \in 0 .. StackMax : Operands(argc + 1) /\ EnterValue(Peek(argc), argc, stack)
  /\ CallOnly

\* OP_INVOKE: a field that holds a callable shadows the method.
Invoke ==
  /\ Running("OP_INVOKE")
  /\ \E argc \in 0 .. StackMax :
       /\ Operands(argc + 1)
       /\ IsKind(Peek(argc), "instance")
       /\ \/ \E c \in slot[Peek(argc)]["fields"] :
              EnterValue(c, argc, [stack EXCEPT ![top - 1 - argc] = c])
          \/ \E k \in slot[Peek(argc)]["klass"] : \E m \in slot[k]["methods"] :
              Enter(m, argc, stack, top)
  /\ CallOnly

\* OP_SUPER_INVOKE: as OP_GET_SUPER, without a bound method.
SuperInvoke ==
  /\ Running("OP_SUPER_INVOKE")
  /\ Operands(2)
  /\ IsKind(Peek(0), "class")
  /\ \E u \in slot[Current]["upvalues"] : Holds(u, Peek(0))
  /\ \E argc \in 0 .. StackMax, m \in slot[Peek(0)]["methods"] :
       /\ Operands(argc + 2)
       /\ IsKind(Peek(argc + 1), "instance")
       /\ Enter(m, argc, stack, top - 1)
  /\ CallOnly

\* callValue() on a class: klass is a C local while the instance is allocated.
CallClass ==
  /\ Running("OP_CALL")
  /\ \E argc \in 0 .. StackMax :
       /\ Operands(argc + 1)
       /\ IsKind(Peek(argc), "class")
       /\ Request("CallClass", Peek(argc), Nil, argc, 0)
  /\ UNCHANGED <<heap, kind, slot, isMarked, stack, top>>
  /\ FramesAside

\* ... from OP_INVOKE of a field that holds a class.
InvokeClass ==
  /\ Running("OP_INVOKE")
  /\ \E argc \in 0 .. StackMax :
       /\ Operands(argc + 1)
       /\ IsKind(Peek(argc), "instance")
       /\ \E c \in slot[Peek(argc)]["fields"] :
            /\ IsKind(c, "class")
            /\ Request("CallClass", c, Nil, argc, 0)
            /\ stack' = [stack EXCEPT ![top - 1 - argc] = c]
  /\ UNCHANGED <<heap, kind, slot, isMarked, top>>
  /\ FramesAside

\* The instance replaces the class; the cached initializer runs, if any.
CallClassEnd ==
  /\ Resumed("CallClass")
  /\ \E o \in Fresh("instance") :
       LET s == [stack EXCEPT ![top - 1 - pend.n] = o] IN
       /\ Put(o, "instance", [NoRefs EXCEPT !["klass"] = {pend.a}])
       /\ \/ \E i \in slot[pend.a]["initializer"] : Enter(i, pend.n, s, top)
          \/ /\ slot[pend.a]["initializer"] = {}
             /\ pend.n = 0
             /\ stack' = s
             /\ UNCHANGED <<top, closureOf, base, frameCount>>
  /\ Done
  /\ UNCHANGED <<gcMark, gray, openUp, globals, loc, program>>

-----------------------------------------------------------------------------
StackNext == PushConstant \/ GetLocal \/ SetLocal \/ Pop

GlobalNext == GetGlobal \/ DefineGlobal \/ DefineGlobalEnd \/ SetGlobalEnd

ArrayNext ==
  \/ NewArray \/ NewArrayPush \/ NewArrayFill
  \/ GetElement \/ SetElement
  \/ PushNative \/ PushNativeEnd
  \/ SliceNative \/ SliceNativePush \/ SliceNativeEnd
  \/ GcNative \/ GcNativeEnd

ClosureNext ==
  \/ Interpret \/ InterpretCall
  \/ NewClosure \/ UpvalueArrayEnd \/ NewClosurePush
  \/ CaptureLocal \/ NewUpvalue \/ CaptureEnclosing
  \/ GetUpvalue \/ SetUpvalue \/ CloseUpvalue

ClassNext ==
  \/ NewClass \/ NewClassPush
  \/ Method \/ MethodEnd
  \/ Inherit \/ InheritCopy \/ InheritEnd
  \/ NewObject \/ NewObjectPush
  \/ SetProperty \/ SetPropertyEnd \/ GetField
  \/ GetMethod \/ GetSuper \/ BindMethodEnd

CallNext ==
  \/ Call \/ Invoke \/ SuperInvoke
  \/ CallClass \/ InvokeClass \/ CallClassEnd
  \/ Return

CollectNext == Collect /\ UNCHANGED <<base, loc, program>>

\* A program may stop anywhere: a runtime error, exit(1) when memory is
\* exhausted, or the end of its code.
Next ==
  \/ StackNext \/ GlobalNext \/ ArrayNext \/ ClosureNext \/ ClassNext \/ CallNext
  \/ CollectNext

Spec == Init /\ [][Next]_vars

\* The collector is a loop of the interpreter's only thread: it cannot stop.
FairSpec == Spec /\ WF_vars(CollectNext)

-----------------------------------------------------------------------------
(* Properties *)

\* The places where a handler suspends.
Suspended ==
  {"none", "OP_DEFINE_GLOBAL", "OP_SET_GLOBAL", "NewArray", "ReserveArray",
   "PushNative", "SliceNative", "SliceReserve", "GcNative", "Interpret",
   "UpvalueArray", "NewClosure", "Capture", "NewUpvalue", "NewClass", "Method",
   "Inherit", "NewObject", "SetProperty", "BindMethod", "CallClass"}

TypeOK ==
  /\ heap \subseteq Objects
  /\ kind \in [Addr -> Kind]
  /\ slot \in [Addr -> [Role -> SUBSET Addr]]
  /\ \A o \in Addr, r \in Role \ {"klass"} : EmptyClass \notin slot[o][r]
  /\ isMarked \in [Addr -> BOOLEAN]
  /\ gcMark \in BOOLEAN
  /\ gray \subseteq Addr
  /\ phase \in Phase
  /\ pend \in [op : Suspended, a : Value, b : Value, n : Nat, at : Nat]
  /\ stack \in [Slots -> Value]
  /\ top \in 0 .. StackMax
  /\ closureOf \in [0 .. FramesMax - 1 -> Value]
  /\ frameCount \in 0 .. FramesMax
  /\ openUp \subseteq Objects
  /\ globals \subseteq Objects
  /\ base \in [0 .. FramesMax - 1 -> Nat]
  /\ loc \in [Objects -> Nat]
  /\ program \in Programs

\* No dangling reference: whatever the roots of the VM or a field of a live
\* object refers to is itself live. (gc.c frees by reachability; every
\* handler relies on it at every dereference.)
NoDangling ==
  /\ Roots \subseteq heap
  /\ \A o \in heap, r \in Role : slot[o][r] \subseteq heap \union {EmptyClass}

\* A handler resumes after a collection with C locals that are still live:
\* each handler that allocates left them on the stack or reachable from it
\* ("push to prevent gc", vm.c:1323; "can not dec first", vm.c:1269).
LocalsLive == {pend.a, pend.b} \ {Nil} \subseteq heap

\* Flip marking: outside a collection no live object carries the current
\* mark, so that the next markObject does not skip it (gc.c:74, 216;
\* object.c:58).
Unmarked ==
  phase \in {"run", "resume", "roots"} =>
    /\ gray = {}
    /\ \A o \in heap : isMarked[o] # gcMark

\* While tracing, a marked object that left the gray stack refers to marked
\* objects only, through every field it has and not only those blackenObject
\* visits; and the roots are marked.
TriColour ==
  phase = "trace" =>
    /\ gray \subseteq Marked
    /\ Roots \subseteq Marked
    /\ Marked \subseteq heap \union {EmptyClass}
    /\ \A o \in Marked \ gray, r \in Role : slot[o][r] \subseteq Marked

\* A slot has one open upvalue, which all closures over its variable share, though
\* captureUpvalue allocates, and may collect, between its search and the insertion.
OpenUpvalues ==
  /\ \A u, w \in openUp : loc[u] = loc[w] => u = w
  /\ \A u \in openUp : kind[u] = "upvalue"

\* OP_RETURN and OP_CLOSE_UPVALUE leave no open upvalue on a slot they drop. Other
\* instructions drop operands only: the code of break and continue, which drops
\* variables too (see Scopes), is not among the programs of this module.
UpvaluesInUse == \A u \in openUp : loc[u] < top

\* How many operands on the stack a suspended handler still needs.
OperandCount ==
  CASE pend.op \in {"OP_DEFINE_GLOBAL", "OP_SET_GLOBAL", "GcNative", "BindMethod"} -> 1
    [] pend.op \in {"SliceNative", "Method", "Inherit", "SetProperty"} -> 2
    [] pend.op \in {"PushNative", "SliceReserve"} -> 3
    [] pend.op = "NewArray" -> pend.n
    [] pend.op \in {"ReserveArray", "CallClass"} -> pend.n + 1
    [] OTHER -> 0

\* S, and what objects of S refer to.
Kids(S) == S \union UNION {slot[o][r] : o \in S, r \in Role}

\* Objects at most three references away from the roots.
Protected == Kids(Kids(Kids(Roots)))

\* The operands of a suspended handler stay on the stack, as temporaries of
\* the running frame, until it is done; its C locals are these operands. The
\* method bindMethod holds (vm.c:611) is the exception: it is a few
\* references away from the receiver, or from the running closure. A slot for
\* which captureUpvalue allocates has no open upvalue yet.
OperandsHeld ==
  /\ OperandCount > 0 => frameCount > 0 /\ Operands(OperandCount)
  /\ pend.op \in {"OP_DEFINE_GLOBAL", "OP_SET_GLOBAL"} => pend.b = Peek(0)
  /\ pend.op \in {"SliceNative", "BindMethod"} => pend.a = Peek(0)
  /\ pend.op \in {"PushNative", "SliceReserve", "Method", "SetProperty"} =>
       pend.a = Peek(1) /\ pend.b = Peek(0)
  /\ pend.op = "CallClass" => pend.a = Peek(pend.n)
  /\ pend.op \in {"UpvalueArray", "NewClosure", "Capture", "NewUpvalue"} => frameCount > 0
  /\ pend.op \in {"Capture", "NewUpvalue"} => pend.n > 0
  /\ pend.op = "NewUpvalue" => pend.at < top /\ \A u \in openUp : loc[u] # pend.at
  /\ {pend.a, pend.b} \ {Nil} \subseteq Protected

\* ... and they keep the types the handler tested before it allocated.
OperandKinds ==
  /\ pend.op \in {"PushNative", "SliceNative", "SliceReserve"} => IsKind(pend.a, "array")
  /\ pend.op = "SliceReserve" => IsKind(pend.b, "array")
  /\ pend.op = "ReserveArray" => IsKind(Peek(0), "array")
  /\ pend.op \in {"Capture", "NewUpvalue"} => top > 0 /\ IsKind(Peek(0), "closure")
  /\ pend.op = "Method" => IsKind(pend.a, "class") /\ IsKind(pend.b, "closure")
  /\ pend.op = "BindMethod" => IsKind(pend.a, "instance") /\ IsKind(pend.b, "closure")
  /\ pend.op = "Inherit" => IsKind(Peek(0), "class") /\ IsKind(Peek(1), "class")
  /\ pend.op = "SetProperty" => IsKind(pend.a, "instance")
  /\ pend.op = "CallClass" => IsKind(pend.a, "class")

\* The type a field is read with, without a test (AS_CLOSURE and AS_CLASS in
\* vm.c:567, 589, 614; the ObjXxx pointers of object.h).
FieldKind(r) ==
  CASE r = "upvalues" -> "upvalue"
    [] r \in {"methods", "initializer", "method"} -> "closure"
    [] r = "klass" -> "class"

\* An object refers to others only through the fields blackenObject visits
\* for its type, and these hold what they are read as.
FieldsOfKind ==
  /\ \A o \in heap : \A r \in Role \ TracedRoles(kind[o]) : slot[o][r] = {}
  /\ \A o \in heap, r \in {"upvalues", "methods", "initializer", "method", "klass"} :
       \A v \in slot[o][r] : kind[v] = FieldKind(r)
  /\ slot[EmptyClass] = NoRefs
  /\ kind[EmptyClass] = "class"

\* The inductive invariant of VmHeapProofs.
Inductive ==
  /\ TypeOK
  /\ phase = "run" => pend = Idle
  /\ OperandsHeld
  /\ OperandKinds
  /\ FieldsOfKind
  /\ NoDangling
  /\ Unmarked
  /\ phase # "trace" => \A o \in Objects : isMarked[o] # gcMark  \* free ones too
  /\ TriColour
  /\ OpenUpvalues
  /\ UpvaluesInUse

\* The heap promised to the program: see ReachHeap.
Abstract == INSTANCE ReachHeap WITH
  roots <- Roots,
  refs <- [o \in Objects |-> (UNION {slot[o][r] : r \in Role}) \ {EmptyClass}]

\* The collector frees exactly what is unreachable, and no handler makes an
\* unreachable object reachable again.
ImplementsReachHeap == Abstract!Spec

\* A collection ends: each round of traceReferences blackens one object, and
\* no object is gray twice.
CollectionEnds == phase = "roots" ~> phase = "resume"
=============================================================================
