----------------------------- MODULE VmHeapProofs -----------------------------
(***************************************************************************)
(* Proofs about VmHeap, for every set of objects, every program and every  *)
(* bound: the flip of the mark is harmless, and Inductive is an inductive  *)
(* invariant, so that no reference dangles whatever the moment of each     *)
(* collection.  Lemmas about the helpers of the handlers come first; then  *)
(* every handler preserves Core, in one lemma for each disjunct of         *)
(* MutatorNext, with one case for each action; marking and sweep follow,   *)
(* and the theorems.                                                       *)
(***************************************************************************)
EXTENDS VmHeap, TLAPS

\* A step of an instruction handler.
MutatorNext ==
  \/ StackNext \/ GlobalNext \/ ArrayNext \/ ClosureNext \/ ClassNext \/ CallNext

\* The handler allocates the object o, or no object.
Allocates(o) ==
  /\ o \in Objects \ heap
  /\ heap' = heap \union {o}
  /\ isMarked' = [isMarked EXCEPT ![o] = ~gcMark]

NoAllocation == UNCHANGED <<heap, isMarked>>

Quiet == {"run", "resume"}

\* What a handler does to the collector's own state: it runs outside a
\* collection, allocates one object at most, and leaves the marks alone.
MutatorStep ==
  /\ phase \in Quiet
  /\ phase' \in Quiet \union {"roots"}
  /\ UNCHANGED <<gcMark, gray, program>>
  /\ NoAllocation \/ \E o \in Objects : Allocates(o)

-----------------------------------------------------------------------------
(* Handlers and the collector's state *)

\* mem_realloc hands out addresses that are free.
LEMMA FreshObjects ==
  ASSUME program \in Programs, NEW k \in Kind
  PROVE  Fresh(k) \subseteq Objects \ heap
  BY ProgramAssumption DEF Fresh

\* Put allocates one object.
LEMMA PutAllocates ==
  ASSUME program \in Programs, NEW k \in Kind, NEW o \in Fresh(k), NEW refs, Put(o, k, refs)
  PROVE  Allocates(o)
  BY FreshObjects DEF Put, Allocates, NewMark

\* Every handler is a MutatorStep.
LEMMA HandlersAreMutators ==
  ASSUME program \in Programs, MutatorNext
  PROVE  MutatorStep
<1> USE DEF MutatorStep, Quiet, NoAllocation, Running, Resumed, Idle, Done, Request
<1>1. CASE StackNext
  BY <1>1 DEF StackNext, PushConstant, GetLocal, SetLocal, Pop, MovesOnly, gcVars
<1>2. CASE GlobalNext
  <2>1. CASE GetGlobal
    BY <2>1 DEF GetGlobal, MovesOnly, gcVars
  <2>2. CASE DefineGlobal
    BY <2>2 DEF DefineGlobal, FramesAside
  <2>3. CASE DefineGlobalEnd \/ SetGlobalEnd
    BY <2>3 DEF DefineGlobalEnd, SetGlobalEnd, StoreGlobal
  <2> QED BY <1>2, <2>1, <2>2, <2>3 DEF GlobalNext
<1>3. CASE ArrayNext
  <2>1. CASE NewArray
    BY <2>1 DEF NewArray, FramesAside
  <2>2. CASE NewArrayPush
    <3>1. PICK o \in Fresh("array") : Put(o, "array", NoRefs)
      BY <2>2 DEF NewArrayPush
    <3>2. Allocates(o) /\ o \in Objects
      BY <3>1, PutAllocates DEF Kind, Allocates
    <3> QED BY <2>2, <3>2 DEF NewArrayPush, FramesAside
  <2>3. CASE NewArrayFill
    BY <2>3 DEF NewArrayFill, FramesAside
  <2>4. CASE GetElement
    BY <2>4 DEF GetElement, MovesOnly, gcVars
  <2>5. CASE SetElement
    BY <2>5 DEF SetElement, FramesAside
  <2>6. CASE PushNative \/ PushNativeEnd
    BY <2>6 DEF PushNative, PushNativeEnd, FramesAside
  <2>7. CASE SliceNative \/ SliceNativeEnd
    BY <2>7 DEF SliceNative, SliceNativeEnd, FramesAside
  <2>8. CASE SliceNativePush
    <3>1. PICK o \in Fresh("array") : Put(o, "array", NoRefs) /\ phase' \in Quiet \union {"roots"}
      BY <2>8 DEF SliceNativePush
    <3>2. Allocates(o) /\ o \in Objects
      BY <3>1, PutAllocates DEF Kind, Allocates
    <3> QED BY <2>8, <3>1, <3>2 DEF SliceNativePush, FramesAside
  <2>9. CASE GcNative \/ GcNativeEnd
    BY <2>9 DEF GcNative, GcNativeEnd, FramesAside
  <2> QED BY <1>3, <2>1, <2>2, <2>3, <2>4, <2>5, <2>6, <2>7, <2>8, <2>9 DEF ArrayNext
<1>4. CASE ClosureNext
  <2> USE DEF CaptureRest
  <2>1. CASE Interpret
    BY <2>1 DEF Interpret, FramesAside
  <2>2. CASE InterpretCall
    <3>1. PICK o \in Fresh("closure") : Put(o, "closure", NoRefs)
      BY <2>2 DEF InterpretCall
    <3>2. Allocates(o) /\ o \in Objects
      BY <3>1, PutAllocates DEF Kind, Allocates
    <3> QED BY <2>2, <3>2 DEF InterpretCall
  <2>3. CASE NewClosure \/ UpvalueArrayEnd
    BY <2>3 DEF NewClosure, UpvalueArrayEnd, FramesAside
  <2>4. CASE NewClosurePush
    <3>1. PICK o \in Fresh("closure") : Put(o, "closure", NoRefs)
      BY <2>4 DEF NewClosurePush
    <3>2. Allocates(o) /\ o \in Objects
      BY <3>1, PutAllocates DEF Kind, Allocates
    <3> QED BY <2>4, <3>2 DEF NewClosurePush, FramesAside
  <2>5. CASE CaptureLocal
    BY <2>5 DEF CaptureLocal, FramesAside
  <2>6. CASE NewUpvalue
    <3>1. PICK u \in Fresh("upvalue") :
            heap' = heap \union {u} /\ isMarked' = [isMarked EXCEPT ![u] = NewMark]
      BY <2>6 DEF NewUpvalue
    <3>2. Allocates(u) /\ u \in Objects
      BY <3>1, FreshObjects DEF Kind, Allocates, NewMark
    <3> QED BY <2>6, <3>2 DEF NewUpvalue
  <2>7. CASE CaptureEnclosing
    BY <2>7 DEF CaptureEnclosing, FramesAside
  <2>8. CASE GetUpvalue
    BY <2>8 DEF GetUpvalue, MovesOnly, gcVars
  <2>9. CASE SetUpvalue
    BY <2>9 DEF SetUpvalue, FramesAside
  <2>10. CASE CloseUpvalue
    BY <2>10 DEF CloseUpvalue
  <2> QED BY <1>4, <2>1, <2>2, <2>3, <2>4, <2>5, <2>6, <2>7, <2>8, <2>9, <2>10 DEF ClosureNext
<1>5. CASE ClassNext
  <2>1. CASE NewClass
    BY <2>1 DEF NewClass, FramesAside
  <2>2. CASE NewClassPush
    <3>1. PICK o \in Fresh("class") : Put(o, "class", NoRefs)
      BY <2>2 DEF NewClassPush
    <3>2. Allocates(o) /\ o \in Objects
      BY <3>1, PutAllocates DEF Kind, Allocates
    <3> QED BY <2>2, <3>2 DEF NewClassPush, FramesAside
  <2>3. CASE Method \/ MethodEnd
    BY <2>3 DEF Method, MethodEnd, FramesAside
  <2>4. CASE Inherit \/ InheritCopy \/ InheritEnd
    BY <2>4 DEF Inherit, InheritCopy, InheritEnd, FramesAside
  <2>5. CASE NewObject
    BY <2>5 DEF NewObject, FramesAside
  <2>6. CASE NewObjectPush
    <3>1. PICK o \in Fresh("instance") :
            Put(o, "instance", [NoRefs EXCEPT !["klass"] = {EmptyClass}])
      BY <2>6 DEF NewObjectPush
    <3>2. Allocates(o) /\ o \in Objects
      BY <3>1, PutAllocates DEF Kind, Allocates
    <3> QED BY <2>6, <3>2 DEF NewObjectPush, FramesAside
  <2>7. CASE SetProperty \/ SetPropertyEnd
    BY <2>7 DEF SetProperty, SetPropertyEnd, FramesAside
  <2>8. CASE GetField
    BY <2>8 DEF GetField, MovesOnly, gcVars
  <2>9. CASE GetMethod \/ GetSuper
    BY <2>9 DEF GetMethod, GetSuper, FramesAside
  <2>10. CASE BindMethodEnd
    <3>1. PICK o \in Fresh("bound") :
            Put(o, "bound", [NoRefs EXCEPT !["receiver"] = {pend.a}, !["method"] = {pend.b}])
      BY <2>10 DEF BindMethodEnd
    <3>2. Allocates(o) /\ o \in Objects
      BY <3>1, PutAllocates DEF Kind, Allocates
    <3> QED BY <2>10, <3>2 DEF BindMethodEnd, FramesAside
  <2> QED BY <1>5, <2>1, <2>2, <2>3, <2>4, <2>5, <2>6, <2>7, <2>8, <2>9, <2>10 DEF ClassNext
<1>6. CASE CallNext
  <2>1. CASE Call \/ Invoke \/ SuperInvoke
    BY <2>1 DEF Call, Invoke, SuperInvoke, CallOnly, gcVars
  <2>2. CASE CallClass \/ InvokeClass
    BY <2>2 DEF CallClass, InvokeClass, FramesAside
  <2>3. CASE CallClassEnd
    <3>1. PICK o \in Fresh("instance") :
            Put(o, "instance", [NoRefs EXCEPT !["klass"] = {pend.a}])
      BY <2>3 DEF CallClassEnd
    <3>2. Allocates(o) /\ o \in Objects
      BY <3>1, PutAllocates DEF Kind, Allocates
    <3> QED BY <2>3, <3>2 DEF CallClassEnd
  <2>4. CASE Return
    BY <2>4 DEF Return
  <2> QED BY <1>6, <2>1, <2>2, <2>3, <2>4 DEF CallNext
<1> QED BY <1>1, <1>2, <1>3, <1>4, <1>5, <1>6 DEF MutatorNext

-----------------------------------------------------------------------------
(* Flip marking *)

\* The part of TypeOK that flip marking needs, and Unmarked.
MarkInvariant ==
  /\ program \in Programs
  /\ heap \subseteq Objects
  /\ isMarked \in [Addr -> BOOLEAN]
  /\ gcMark \in BOOLEAN
  /\ phase \in Phase
  /\ Unmarked

\* Each step preserves MarkInvariant.
LEMMA MarkInvariantStep ==
  MarkInvariant /\ [Next]_vars => MarkInvariant'
<1> SUFFICES ASSUME MarkInvariant, [Next]_vars
             PROVE  MarkInvariant'
  OBVIOUS
<1> USE DEF MarkInvariant, Phase
<1>1. CASE MutatorNext
  <2>1. MutatorStep
    BY <1>1, HandlersAreMutators
  <2>2. CASE NoAllocation
    BY <2>1, <2>2 DEF MutatorStep, NoAllocation, Quiet, Unmarked
  <2>3. ASSUME NEW o \in Objects, Allocates(o)
        PROVE  MarkInvariant'
    BY <2>1, <2>3 DEF MutatorStep, Allocates, Quiet, Unmarked, Addr
  <2> QED BY <2>1, <2>2, <2>3 DEF MutatorStep
<1>2. CASE CollectNext /\ MarkRoots
  BY <1>2 DEF CollectNext, MarkRoots, MarkAll, Unmarked
<1>3. CASE CollectNext /\ Blacken
  BY <1>3 DEF CollectNext, Blacken, MarkAll, Unmarked
<1>4. CASE CollectNext /\ Sweep
  BY <1>4 DEF CollectNext, Sweep, FlippedMark, Marked, Unmarked, Addr
<1>5. CASE UNCHANGED vars
  BY <1>5 DEF vars, gcVars, Unmarked
<1> QED BY <1>1, <1>2, <1>3, <1>4, <1>5 DEF Next, MutatorNext, CollectNext, Collect

\* Outside a collection no live object carries the current mark, so that the
\* next collection visits each of them: the mark is flipped when the sweep is
\* over (gc.c:216) and objects are born with the other one (object.c:58).
THEOREM FlipMarking == Spec => []Unmarked
<1>1. Init => MarkInvariant
  BY DEF Init, MarkInvariant, Unmarked, Phase, Addr
<1>2. MarkInvariant /\ [Next]_vars => MarkInvariant'
  BY MarkInvariantStep
<1>3. MarkInvariant => Unmarked
  BY DEF MarkInvariant
<1> QED BY <1>1, <1>2, <1>3, PTL DEF Spec

-----------------------------------------------------------------------------
(* The invariant Inductive of VmHeap in parts, and what each kind of handler *)
(* step does to a part: to the types, to the heap as a graph, to the stack, *)
(* to the operands of a handler that suspends.                             *)

\* The parts of TypeOK.

HeapOK ==
  /\ heap \subseteq Objects
  /\ kind \in [Addr -> Kind]
  /\ slot \in [Addr -> [Role -> SUBSET Addr]]
  /\ \A o \in Addr, r \in Role \ {"klass"} : EmptyClass \notin slot[o][r]
  /\ isMarked \in [Addr -> BOOLEAN]
  /\ gcMark \in BOOLEAN
  /\ gray \subseteq Addr

ControlOK ==
  /\ phase \in Phase
  /\ pend \in [op : Suspended, a : Value, b : Value, n : Nat, at : Nat]
  /\ program \in Programs

StackOK ==
  /\ stack \in [Slots -> Value]
  /\ top \in 0 .. StackMax

FramesOK ==
  /\ closureOf \in [0 .. FramesMax - 1 -> Value]
  /\ frameCount \in 0 .. FramesMax
  /\ openUp \subseteq Objects
  /\ globals \subseteq Objects
  /\ base \in [0 .. FramesMax - 1 -> Nat]
  /\ loc \in [Objects -> Nat]

\* TypeOK is the conjunction of its parts, before and after a step.
LEMMA TypeParts ==
  /\ TypeOK <=> HeapOK /\ ControlOK /\ StackOK /\ FramesOK
  /\ TypeOK' <=> HeapOK' /\ ControlOK' /\ StackOK' /\ FramesOK'
  BY DEF TypeOK, HeapOK, ControlOK, StackOK, FramesOK

-----------------------------------------------------------------------------
(* Types of the helpers *)

\* Dropping slots leaves an array of values.
LEMMA CutType ==
  ASSUME NEW s \in [Slots -> Value], NEW n
  PROVE  Cut(s, n) \in [Slots -> Value]
  BY DEF Cut, Value

\* STACK_PUSH keeps the stack within its bound.
LEMMA PushType ==
  ASSUME StackOK, NEW v \in Value, Push(v)
  PROVE  StackOK'
  BY BoundAssumption DEF StackOK, Push, Slots

\* STACK_PEEK below the top reads a value.
LEMMA PeekType ==
  ASSUME StackOK, NEW d \in Nat, d < top
  PROVE  Peek(d) \in Value
  BY BoundAssumption DEF StackOK, Peek, Slots

\* Popping n values and replacing the next keeps the types of the stack.
LEMMA PopReplaceType ==
  ASSUME StackOK, NEW n \in Nat, n <= top, NEW v \in Value, PopReplace(n, v)
  PROVE  StackOK'
<1>1. [stack EXCEPT ![top - 1 - n] = v] \in [Slots -> Value]
  BY DEF StackOK
<1>2. top - n \in 0 .. StackMax
  BY BoundAssumption DEF StackOK
<1> QED BY <1>1, <1>2, CutType DEF PopReplace, StackOK

\* STACK_POP keeps the types of the stack.
LEMMA PopType ==
  ASSUME StackOK, top > 0, stack' = Cut(stack, top - 1), top' = top - 1
  PROVE  StackOK'
<1>1. top - 1 \in 0 .. StackMax
  BY BoundAssumption DEF StackOK
<1> QED BY <1>1, CutType DEF StackOK

\* The operands of an instruction are values, above the slot 0 of the frame.
LEMMA OperandsType ==
  ASSUME StackOK, FramesOK, frameCount > 0, NEW n \in Nat, Operands(n)
  PROVE  /\ top \in Nat
         /\ n < top
         /\ \A d \in 0 .. n : Peek(d) \in Value
<1>1. Frame \in Nat
  BY BoundAssumption DEF FramesOK, Frame
<1>2. top \in Nat /\ n < top
  BY <1>1, BoundAssumption DEF Operands, StackOK
<1> QED BY <1>2, PeekType

\* A handler that suspends leaves a well-typed control state.
LEMMA RequestType ==
  ASSUME NEW op \in Suspended, NEW a \in Value, NEW b \in Value, NEW n \in Nat, NEW at \in Nat,
         program \in Programs, program' = program, Request(op, a, b, n, at)
  PROVE  ControlOK'
  BY DEF Request, ControlOK, Phase

\* So does a handler that is done.
LEMMA DoneType ==
  ASSUME program \in Programs, program' = program, Done
  PROVE  ControlOK'
<1>1. Idle \in [op : Suspended, a : Value, b : Value, n : Nat, at : Nat]
  BY DEF Idle, Value, Suspended
<1> QED BY <1>1 DEF Done, ControlOK, Phase

-----------------------------------------------------------------------------
(* Inductive, regrouped *)

\* The suspended handler and what it relies on.
Held ==
  /\ phase = "run" => pend = Idle
  /\ OperandsHeld
  /\ OperandKinds

\* OpenUpvalues and UpvaluesInUse.
UpvaluesOK ==
  /\ \A u, w \in openUp : loc[u] = loc[w] => u = w
  /\ \A u \in openUp : loc[u] < top /\ kind[u] = "upvalue"

\* What the handlers preserve by themselves.
Core ==
  /\ HeapOK /\ ControlOK /\ StackOK /\ FramesOK
  /\ Held
  /\ FieldsOfKind
  /\ NoDangling
  /\ UpvaluesOK

Marks ==
  /\ Unmarked
  /\ phase # "trace" => \A o \in Objects : isMarked[o] # gcMark
  /\ TriColour

\* Inductive is Core and Marks, before and after a step.
LEMMA InductiveParts ==
  /\ Inductive <=> Core /\ Marks
  /\ Inductive' <=> Core' /\ Marks'
<1>1. UpvaluesOK <=> OpenUpvalues /\ UpvaluesInUse
  BY DEF UpvaluesOK, OpenUpvalues, UpvaluesInUse
<1>2. UpvaluesOK' <=> OpenUpvalues' /\ UpvaluesInUse'
  BY DEF UpvaluesOK, OpenUpvalues, UpvaluesInUse
<1> QED BY <1>1, <1>2, TypeParts DEF Inductive, Core, Held, Marks

\* Nothing is held when no handler is suspended.
LEMMA IdleHeld ==
  ASSUME pend' = Idle
  PROVE  Held'
<1>1. pend'.op = "none" /\ pend'.a = Nil /\ pend'.b = Nil
  BY DEF Idle
<1>2. OperandCount' = 0
  BY <1>1 DEF OperandCount
<1>3. OperandsHeld'
  BY <1>1, <1>2 DEF OperandsHeld
<1>4. OperandKinds'
  BY <1>1 DEF OperandKinds
<1> QED BY <1>3, <1>4 DEF Held

\* The marks are the business of the collector and of allocateObject.
LEMMA MutatorMarks ==
  ASSUME HeapOK, ControlOK, Marks, MutatorNext
  PROVE  Marks'
<1>1. MutatorStep
  BY HandlersAreMutators DEF ControlOK
<1>2. phase # "trace" /\ phase' # "trace"
  BY <1>1 DEF MutatorStep, Quiet
<1>3. \A o \in Objects : isMarked'[o] # gcMark'
  <2>1. CASE NoAllocation
    BY <1>1, <1>2, <2>1 DEF MutatorStep, NoAllocation, Marks
  <2>2. ASSUME NEW o \in Objects, Allocates(o)
        PROVE  \A w \in Objects : isMarked'[w] # gcMark'
    BY <1>1, <1>2, <2>2 DEF MutatorStep, Allocates, Marks, HeapOK, Addr
  <2> QED BY <1>1, <2>1, <2>2 DEF MutatorStep
<1>4. gray' = {} /\ heap' \subseteq Objects
  BY <1>1 DEF MutatorStep, NoAllocation, Allocates, Quiet, Marks, Unmarked, HeapOK
<1> QED BY <1>2, <1>3, <1>4 DEF Marks, Unmarked, TriColour

-----------------------------------------------------------------------------
(* The heap as a graph *)

Live(s, t, H) == \A i \in 0 .. t - 1 : s[i] \in H \union {Nil}

Framed(c, n, H) == \A i \in 0 .. n - 1 : c[i] \in H

\* The roots are live when each of the places they lie in holds live objects.
LEMMA RootsLive ==
  ASSUME NEW H
  PROVE  /\ Roots \subseteq H <=> /\ Live(stack, top, H)
                                  /\ Framed(closureOf, frameCount, H)
                                  /\ openUp \subseteq H
                                  /\ globals \subseteq H
         /\ Roots' \subseteq H <=> /\ Live(stack', top', H)
                                   /\ Framed(closureOf', frameCount', H)
                                   /\ openUp' \subseteq H
                                   /\ globals' \subseteq H
<1>1. StackRoots \subseteq H <=> Live(stack, top, H)
  BY DEF StackRoots, Live
<1>2. StackRoots' \subseteq H <=> Live(stack', top', H)
  BY DEF StackRoots, Live
<1>3. FrameRoots \subseteq H <=> Framed(closureOf, frameCount, H)
  BY DEF FrameRoots, Framed
<1>4. FrameRoots' \subseteq H <=> Framed(closureOf', frameCount', H)
  BY DEF FrameRoots, Framed
<1> QED BY <1>1, <1>2, <1>3, <1>4 DEF Roots

Typed == {"upvalues", "methods", "initializer", "method", "klass"}

Graph == HeapOK /\ NoDangling /\ FieldsOfKind

\* A step that leaves the heap alone and keeps the roots in it.
LEMMA SameGraph ==
  ASSUME Graph, UNCHANGED <<heap, kind, slot, isMarked, gcMark, gray>>, Roots' \subseteq heap
  PROVE  Graph'
  BY DEF Graph, HeapOK, NoDangling, FieldsOfKind

\* Fields that an object of type k may be born with.
Fits(k, refs) ==
  /\ refs \in [Role -> SUBSET Addr]
  /\ \A r \in Role \ {"klass"} : EmptyClass \notin refs[r]
  /\ \A r \in Role \ TracedRoles(k) : refs[r] = {}
  /\ \A r \in Role : refs[r] \subseteq heap \union {EmptyClass}
  /\ \A r \in Typed : \A v \in refs[r] : kind[v] = FieldKind(r)

\* Every type of object may be born without references.
LEMMA NoRefsFit == ASSUME NEW k PROVE Fits(k, NoRefs)
<1>1. NoRefs \in [Role -> SUBSET Addr] /\ \A r \in Role : NoRefs[r] = {}
  BY DEF NoRefs
<1> QED BY <1>1 DEF Fits, Typed, Role

\* An object is allocated and becomes reachable.
LEMMA PutGraph ==
  ASSUME Graph, ControlOK, NEW k \in Kind, NEW o \in Fresh(k), NEW refs, Fits(k, refs),
         Put(o, k, refs), UNCHANGED <<gcMark, gray>>, Roots' \subseteq heap \union {o}
  PROVE  Graph'
<1>1. o \in Objects \ heap /\ o # EmptyClass
  BY FreshObjects, AddressAssumption DEF ControlOK
<1>2. HeapOK'
  BY <1>1 DEF Graph, HeapOK, Put, Addr, Fits, NewMark
<1>3. heap' = heap \union {o}
  BY DEF Put
<1>4. /\ \A w \in heap \union {EmptyClass} : slot'[w] = slot[w] /\ kind'[w] = kind[w]
      /\ slot'[o] = refs /\ kind'[o] = k
  BY <1>1 DEF Put, Graph, HeapOK, Addr
<1>5. NoDangling'
  BY <1>3, <1>4 DEF Graph, NoDangling, Fits
<1>6. \A w \in heap' : \A r \in Role \ TracedRoles(kind'[w]) : slot'[w][r] = {}
  BY <1>3, <1>4 DEF Graph, FieldsOfKind, Fits
<1>7. \A w \in heap', r \in Typed : \A v \in slot'[w][r] : kind'[v] = FieldKind(r)
  <2> TAKE w \in heap', r \in Typed
  <2>1. slot'[w][r] \subseteq heap \union {EmptyClass}
    BY <1>3, <1>4 DEF Graph, NoDangling, Fits, Typed, Role
  <2>2. \A v \in slot'[w][r] : kind[v] = FieldKind(r)
    BY <1>3, <1>4 DEF Graph, FieldsOfKind, Fits, Typed
  <2> QED BY <1>4, <2>1, <2>2
<1>8. slot'[EmptyClass] = NoRefs /\ kind'[EmptyClass] = "class"
  BY <1>4 DEF Graph, FieldsOfKind
<1> QED BY <1>2, <1>5, <1>6, <1>7, <1>8 DEF Graph, FieldsOfKind, Typed

\* One field of a live object is assigned.
LEMMA FieldGraph ==
  ASSUME Graph, NEW o \in heap, NEW r \in TracedRoles(kind[o]) \ {"klass"}, r \in Role,
         NEW S \in SUBSET heap, r \in Typed => \A v \in S : kind[v] = FieldKind(r),
         slot' = [slot EXCEPT ![o][r] = S],
         UNCHANGED <<heap, kind, isMarked, gcMark, gray>>, Roots' \subseteq heap
  PROVE  Graph'
<1>1. o \in Objects /\ o # EmptyClass /\ S \subseteq Objects
  BY AddressAssumption DEF Graph, HeapOK
<1>2. slot' \in [Addr -> [Role -> SUBSET Addr]]
  BY <1>1 DEF Graph, HeapOK, Addr
<1>3. \A w \in Addr, q \in Role : slot'[w][q] = IF w = o /\ q = r THEN S ELSE slot[w][q]
  BY <1>1 DEF Graph, HeapOK, Addr
<1>4. HeapOK'
  BY <1>1, <1>2, <1>3, AddressAssumption DEF Graph, HeapOK
<1>5. heap \subseteq Addr /\ EmptyClass \in Addr
  BY DEF Graph, HeapOK, Addr
<1>6. NoDangling'
  BY <1>3, <1>5 DEF Graph, NoDangling
<1>7. \A w \in heap' : \A q \in Role \ TracedRoles(kind'[w]) : slot'[w][q] = {}
  BY <1>3, <1>5 DEF Graph, FieldsOfKind
<1>8. \A w \in heap', q \in Typed : \A v \in slot'[w][q] : kind'[v] = FieldKind(q)
  BY <1>3, <1>5 DEF Graph, FieldsOfKind, Typed, Role
<1>9. slot'[EmptyClass] = NoRefs
  BY <1>1, <1>5 DEF Graph, FieldsOfKind, HeapOK
<1> QED BY <1>4, <1>6, <1>7, <1>8, <1>9 DEF Graph, FieldsOfKind, Typed

-----------------------------------------------------------------------------
(* The stack *)

\* STACK_PUSH of a live value.
LEMMA PushLive ==
  ASSUME StackOK, NEW H, Live(stack, top, H), NEW v \in Value, v \in H \union {Nil}, Push(v)
  PROVE  /\ StackOK'
         /\ Live(stack', top', H)
         /\ top \in Nat /\ top' = top + 1
         /\ Peek(0)' = v
         /\ \A i \in 0 .. top - 1 : stack'[i] = stack[i]
<1>1. top \in Nat /\ top' = top + 1 /\ stack' = [stack EXCEPT ![top] = v] /\ top \in Slots
  BY BoundAssumption DEF StackOK, Push, Slots
<1>2. \A i \in 0 .. top - 1 : stack'[i] = stack[i]
  BY <1>1 DEF StackOK, Slots
<1>3. stack'[top] = v
  BY <1>1 DEF StackOK
<1> QED BY <1>1, <1>2, <1>3, PushType DEF Live, Peek

\* Popping n values and replacing the next by a live one.
LEMMA PopReplaceLive ==
  ASSUME StackOK, NEW n \in Nat, n < top, NEW H, Live(stack, top, H),
         NEW v \in Value, v \in H \union {Nil}, PopReplace(n, v)
  PROVE  StackOK' /\ Live(stack', top', H) /\ top' = top - n
<1>1. top \in Nat /\ top' = top - n /\ top' \in 0 .. StackMax
  BY BoundAssumption DEF StackOK, PopReplace
<1>2. \A i \in 0 .. top' - 1 : stack'[i] = IF i = top - 1 - n THEN v ELSE stack[i]
  BY <1>1, BoundAssumption DEF StackOK, PopReplace, Cut, Slots
<1>3. Live(stack', top', H)
  BY <1>1, <1>2 DEF Live
<1> QED BY <1>1, <1>3, PopReplaceType

\* STACK_POP.
LEMMA PopLive ==
  ASSUME StackOK, top > 0, NEW H, Live(stack, top, H),
         stack' = Cut(stack, top - 1), top' = top - 1
  PROVE  StackOK' /\ Live(stack', top', H)
<1>1. top \in Nat /\ top' = top - 1 /\ top' \in 0 .. StackMax
  BY BoundAssumption DEF StackOK
<1>2. \A i \in 0 .. top' - 1 : stack'[i] = stack[i]
  BY <1>1, BoundAssumption DEF StackOK, Cut, Slots
<1> QED BY <1>1, <1>2, PopType DEF Live

\* STACK_PEEK below the top reads a live value or Nil.
LEMMA PeekLive ==
  ASSUME StackOK, NEW H, Live(stack, top, H), NEW d \in Nat, d < top
  PROVE  Peek(d) \in Value /\ Peek(d) \in H \union {Nil}
BY PeekType, BoundAssumption DEF StackOK, Live, Peek

-----------------------------------------------------------------------------
(* Handlers in general *)

\* Core in terms of the graph and of the places of the roots.
LEMMA CoreRoots ==
  ASSUME Core
  PROVE  /\ Graph
         /\ Live(stack, top, heap)
         /\ Framed(closureOf, frameCount, heap)
         /\ openUp \subseteq heap
         /\ globals \subseteq heap
         /\ heap \subseteq Objects
  BY RootsLive DEF Core, Graph, NoDangling, HeapOK

\* The operands of an instruction: values, and live.
LEMMA CoreOperands ==
  ASSUME Core, frameCount > 0, NEW n \in Nat, Operands(n)
  PROVE  /\ top \in Nat /\ Frame \in Nat /\ frameCount \in Nat
         /\ n < top
         /\ \A d \in 0 .. n : Peek(d) \in Value /\ Peek(d) \in heap \union {Nil}
         /\ \A u \in openUp : loc[u] < top - n
         /\ Current \in heap
<1>1. n < top /\ top \in Nat
  BY OperandsType DEF Core
<1>2. Frame \in Nat /\ frameCount \in Nat /\ frameCount - 1 \in 0 .. frameCount - 1
  BY BoundAssumption DEF Core, FramesOK, Frame
<1>3. \A d \in 0 .. n : Peek(d) \in Value /\ Peek(d) \in heap \union {Nil}
  BY <1>1, PeekLive, CoreRoots DEF Core
<1>4. Current \in heap
  BY <1>2, CoreRoots DEF Framed, Current
<1> QED BY <1>1, <1>2, <1>3, <1>4 DEF Operands

\* A handler that leaves frames, globals and open upvalues as they are.
LEMMA AsideCore ==
  ASSUME Core, FramesAside, Graph', ControlOK', StackOK', Held',
         \A o \in heap : kind'[o] = kind[o],
         \A u \in openUp : loc[u] < top'
  PROVE  Core'
<1>1. FramesOK'
  BY DEF FramesAside, Core, FramesOK
<1>2. UpvaluesOK'
  BY CoreRoots DEF FramesAside, Core, UpvaluesOK
<1> QED BY <1>1, <1>2 DEF Core, Graph

\* The roots after a step that changes the stack only.
LEMMA AsideRoots ==
  ASSUME Core, UNCHANGED <<closureOf, frameCount, openUp, globals>>,
         NEW H, heap \subseteq H, Live(stack', top', H)
  PROVE  Roots' \subseteq H
<1>1. Framed(closureOf', frameCount', H) /\ openUp' \subseteq H /\ globals' \subseteq H
  BY CoreRoots DEF Framed
<1> QED BY <1>1, RootsLive

\* A handler that touches neither the heap nor the frames.
LEMMA StackCore ==
  ASSUME Core, FramesAside, UNCHANGED <<heap, kind, slot, isMarked>>,
         ControlOK', StackOK', Held', Live(stack', top', heap),
         \A u \in openUp : loc[u] < top'
  PROVE  Core'
<1>1. Roots' \subseteq heap
  BY AsideRoots DEF FramesAside
<1>2. Graph'
  BY <1>1, SameGraph, CoreRoots DEF FramesAside
<1> QED BY <1>2, AsideCore

\* ... and goes on with the next instruction.
LEMMA MovesCore ==
  ASSUME Core, MovesOnly, phase = "run", StackOK', Live(stack', top', heap),
         \A u \in openUp : loc[u] < top'
  PROVE  Core'
<1>1. pend' = Idle
  BY DEF Core, Held, MovesOnly, gcVars
<1>2. ControlOK'
  BY DEF Core, ControlOK, MovesOnly, gcVars
<1> QED BY <1>1, <1>2, IdleHeld, StackCore DEF MovesOnly, gcVars, FramesAside

\* A handler that suspends before it changed anything.
LEMMA SuspendCore ==
  ASSUME Core, FramesAside, UNCHANGED <<heap, kind, slot, isMarked, stack, top>>,
         ControlOK', Held'
  PROVE  Core'
<1>1. StackOK' /\ Live(stack', top', heap)
  BY CoreRoots DEF Core, StackOK
<1>2. \A u \in openUp : loc[u] < top'
  BY DEF Core, UpvaluesOK
<1> QED BY <1>1, <1>2, StackCore

\* A handler that allocates the object o.
LEMMA PutCore ==
  ASSUME Core, FramesAside, NEW k \in Kind, NEW o \in Fresh(k), NEW refs, Fits(k, refs),
         Put(o, k, refs), ControlOK', StackOK', Held', Live(stack', top', heap \union {o}),
         \A u \in openUp : loc[u] < top'
  PROVE  Core'
<1>1. Roots' \subseteq heap \union {o}
  BY AsideRoots DEF FramesAside
<1>2. Graph'
  BY <1>1, PutGraph, CoreRoots DEF FramesAside, Core
<1>3. o \notin heap /\ \A w \in heap : kind'[w] = kind[w]
  BY FreshObjects DEF Core, ControlOK, Put, HeapOK, Addr
<1> QED BY <1>2, <1>3, AsideCore

\* A handler that assigns a field.
LEMMA FieldCore ==
  ASSUME Core, FramesAside, NEW o \in heap, NEW r \in TracedRoles(kind[o]) \ {"klass"}, r \in Role,
         NEW S \in SUBSET heap, r \in Typed => \A v \in S : kind[v] = FieldKind(r),
         slot' = [slot EXCEPT ![o][r] = S], UNCHANGED <<heap, kind, isMarked>>,
         ControlOK', StackOK', Held', Live(stack', top', heap),
         \A u \in openUp : loc[u] < top'
  PROVE  Core'
<1>1. Roots' \subseteq heap
  BY AsideRoots DEF FramesAside
<1>2. Graph'
  BY <1>1, FieldGraph, CoreRoots DEF FramesAside
<1> QED BY <1>2, AsideCore

\* A handler that is done holds nothing.
LEMMA DoneHeld ==
  ASSUME Core, program' = program, Done
  PROVE  ControlOK' /\ Held'
  BY DoneType, IdleHeld DEF Done, Core, ControlOK

\* The C locals of a handler that suspends.
LEMMA RequestControl ==
  ASSUME Core, program' = program, NEW op \in Suspended, NEW a \in Value, NEW b \in Value,
         NEW n \in Nat, NEW at \in Nat, Request(op, a, b, n, at)
  PROVE  /\ ControlOK'
         /\ pend'.op = op /\ pend'.a = a /\ pend'.b = b /\ pend'.n = n /\ pend'.at = at
         /\ phase' # "run"
  BY RequestType DEF Core, ControlOK, Request

\* What a live object refers to is live; only klass may be &vm.emptyClass.
LEMMA FieldLive ==
  ASSUME Graph, NEW o \in heap, NEW r \in Role \ {"klass"}
  PROVE  slot[o][r] \subseteq heap
  BY DEF Graph, HeapOK, NoDangling, Addr

\* What lies on the stack is protected.
LEMMA PeekProtected ==
  ASSUME StackOK', NEW d \in Nat, d < top'
  PROVE  Peek(d)' \in Protected' \union {Nil}
<1>1. Peek(d)' \in StackRoots' \union {Nil}
  BY BoundAssumption DEF StackOK, StackRoots, Peek
<1> QED BY <1>1 DEF Roots, Protected, Kids

\* The operands of a handler that suspends.
LEMMA SameOperands ==
  ASSUME FramesAside, UNCHANGED <<stack, top>>, NEW n, Operands(n)
  PROVE  Operands(n)' /\ frameCount' = frameCount /\ \A d \in Nat : Peek(d)' = Peek(d)
  BY DEF FramesAside, Operands, Frame, Peek

\* A handler that runs to its end.
LEMMA RunHeld ==
  ASSUME Core, phase = "run", UNCHANGED <<phase, pend, program>>
  PROVE  ControlOK' /\ Held'
  BY IdleHeld DEF Core, ControlOK, Held

\* Protected in the next state, when no field is assigned.
LEMMA ProtectedAfter ==
  ASSUME slot' = slot
  PROVE  Protected' = Kids(Kids(Kids(Roots')))
  BY DEF Protected, Kids


-----------------------------------------------------------------------------
(* Moves, globals *)

\* Constants and locals.
LEMMA StackStep ==
  ASSUME Core, StackNext
  PROVE  Core'
<1>1. CASE PushConstant
  <2>1. StackOK' /\ Live(stack', top', heap) /\ top \in Nat /\ top' = top + 1
    BY <1>1, PushLive, CoreRoots DEF PushConstant, Core, Value
  <2> QED BY <1>1, <2>1, MovesCore DEF PushConstant, Running, Core, UpvaluesOK, FramesOK
<1>2. CASE GetLocal
  <2>1. PICK i \in Locals : Push(stack[i])
    BY <1>2 DEF GetLocal
  <2>2. i \in 0 .. top - 1 /\ stack[i] \in Value
    BY <2>1, <1>2, BoundAssumption DEF Locals, Core, StackOK, FramesOK, Slots, Frame, GetLocal, Running
  <2>3. stack[i] \in heap \union {Nil}
    BY <2>2, CoreRoots DEF Live
  <2>4. StackOK' /\ Live(stack', top', heap) /\ top \in Nat /\ top' = top + 1
    BY <2>1, <2>2, <2>3, PushLive, CoreRoots DEF Core
  <2> QED BY <1>2, <2>4, MovesCore DEF GetLocal, Running, Core, UpvaluesOK, FramesOK
<1>3. CASE SetLocal
  <2>1. PICK i \in Locals \ {Frame, top - 1} : stack' = [stack EXCEPT ![i] = Peek(0)] /\ top' = top
    BY <1>3 DEF SetLocal
  <2>2. Peek(0) \in Value /\ Peek(0) \in heap \union {Nil}
    BY <1>3, CoreOperands DEF SetLocal, Running
  <2>3. i \in 0 .. top - 1
    BY <2>1, <1>3, BoundAssumption DEF Locals, Core, FramesOK, Frame, SetLocal, Running
  <2>4. StackOK'
    BY <2>1, <2>2 DEF Core, StackOK
  <2>5. Live(stack', top', heap)
    BY <2>1, <2>2, <2>3, CoreRoots, BoundAssumption DEF Core, StackOK, Live, Slots
  <2> QED BY <1>3, <2>1, <2>4, <2>5, MovesCore DEF SetLocal, Running, Core, UpvaluesOK
<1>4. CASE Pop
  <2>1. top > 0 /\ \A u \in openUp : loc[u] < top - 1
    BY <1>4, CoreOperands DEF Pop, Running
  <2>2. StackOK' /\ Live(stack', top', heap)
    BY <1>4, <2>1, PopLive, CoreRoots DEF Pop, Core
  <2> QED BY <1>4, <2>1, <2>2, MovesCore DEF Pop, Running
<1> QED BY <1>1, <1>2, <1>3, <1>4 DEF StackNext

\* Global variables.
LEMMA GlobalStep ==
  ASSUME Core, GlobalNext
  PROVE  Core'
<1>1. CASE GetGlobal
  <2>1. PICK v \in globals \union {Nil} : Push(v)
    BY <1>1 DEF GetGlobal
  <2>2. v \in heap \union {Nil} /\ v \in Value
    BY <2>1, CoreRoots DEF Value
  <2>3. StackOK' /\ Live(stack', top', heap) /\ top \in Nat /\ top' = top + 1
    BY <2>1, <2>2, PushLive, CoreRoots DEF Core
  <2> QED BY <1>1, <2>3, MovesCore DEF GetGlobal, Running, Core, UpvaluesOK, FramesOK
<1>2. CASE DefineGlobal
  <2>1. PICK op \in {"OP_DEFINE_GLOBAL", "OP_SET_GLOBAL"} :
          Running(op) /\ Request(op, Nil, Peek(0), 0, 0)
    BY <1>2 DEF DefineGlobal
  <2>2. top \in Nat /\ 1 < top /\ Peek(0) \in Value /\ Peek(0) \in heap \union {Nil}
    BY <1>2, <2>1, CoreOperands DEF DefineGlobal, Running
  <2>3. ControlOK'
    <3>1. op \in Suspended /\ Nil \in Value
      BY DEF Suspended, Value
    <3>2. program \in Programs /\ program' = program
      BY <1>2 DEF DefineGlobal, FramesAside, Core, ControlOK
    <3> QED BY <2>1, <2>2, <3>1, <3>2, RequestType
  <2>4. pend'.op = op /\ pend'.a = Nil /\ pend'.b = Peek(0) /\ phase' # "run"
    BY <2>1 DEF Request
  <2>5. OperandCount' = 1 /\ Operands(1)' /\ frameCount' > 0 /\ Peek(0)' = Peek(0)
    BY <1>2, <2>1, <2>4 DEF OperandCount, Operands, DefineGlobal, FramesAside, Running, Peek, Frame
  <2>6. Peek(0) \in {Nil} \union StackRoots'
    BY <1>2, <2>2 DEF StackRoots, DefineGlobal, Peek
  <2>7. {pend'.a, pend'.b} \ {Nil} \subseteq Protected'
    BY <2>4, <2>6 DEF Protected, Kids, Roots
  <2>8. Held'
    BY <2>4, <2>5, <2>7 DEF Held, OperandsHeld, OperandKinds
  <2> QED BY <1>2, <2>3, <2>8, SuspendCore DEF DefineGlobal
<1>3. CASE DefineGlobalEnd \/ SetGlobalEnd
  <2>1. StoreGlobal /\ Operands(1) /\ frameCount > 0 /\ pend.b = Peek(0)
    BY <1>3 DEF DefineGlobalEnd, SetGlobalEnd, Resumed, Core, Held, OperandsHeld, OperandCount
  <2>2. top \in Nat /\ 1 < top /\ Peek(0) \in heap \union {Nil} /\ \A u \in openUp : loc[u] < top - 1
    BY <2>1, CoreOperands
  <2>3. globals' \subseteq heap
    BY <2>1, <2>2, CoreRoots DEF StoreGlobal, Obj
  <2>4. StackOK' /\ Live(stack', top', heap) /\ \A u \in openUp : loc[u] < top'
    <3>1. CASE DefineGlobalEnd
      BY <3>1, <2>2, PopLive, CoreRoots DEF DefineGlobalEnd, Core
    <3>2. CASE SetGlobalEnd
      BY <3>2, <2>2, CoreRoots DEF SetGlobalEnd, Core, StackOK, UpvaluesOK
    <3> QED BY <1>3, <3>1, <3>2
  <2>5. Roots' \subseteq heap
    <3>1. Framed(closureOf', frameCount', heap) /\ openUp' \subseteq heap
      BY <2>1, CoreRoots DEF StoreGlobal
    <3> QED BY <3>1, <2>3, <2>4, RootsLive
  <2>6. Graph'
    BY <2>1, <2>5, SameGraph, CoreRoots DEF StoreGlobal
  <2>7. ControlOK' /\ Held'
    BY <2>1, DoneType, IdleHeld DEF StoreGlobal, Done, Core, ControlOK
  <2>8. FramesOK'
    BY <2>1, <2>3, CoreRoots DEF StoreGlobal, Core, FramesOK
  <2>9. UpvaluesOK'
    BY <2>1, <2>4 DEF StoreGlobal, Core, UpvaluesOK
  <2> QED BY <2>4, <2>6, <2>7, <2>8, <2>9 DEF Core, Graph
<1> QED BY <1>1, <1>2, <1>3 DEF GlobalNext

-----------------------------------------------------------------------------
(* Arrays *)

\* Array handlers and natives up to their first allocation.
LEMMA ArraySuspends ==
  ASSUME Core, NewArray \/ PushNative \/ SliceNative \/ GcNative
  PROVE  Core'
<1> Nil \in Value
  BY DEF Value
<1> /\ FramesAside /\ UNCHANGED <<heap, kind, slot, isMarked, stack, top>>
    /\ program' = program /\ frameCount > 0
  BY DEF NewArray, PushNative, SliceNative, GcNative, FramesAside, Running
<1>1. CASE NewArray
  <2>1. PICK n \in 0 .. StackMax : Operands(n) /\ Request("NewArray", Nil, Nil, n, 0)
    BY <1>1 DEF NewArray
  <2>2. n \in Nat /\ "NewArray" \in Suspended
    BY BoundAssumption DEF Suspended
  <2>3. ControlOK' /\ pend'.op = "NewArray" /\ pend'.n = n /\ pend'.a = Nil /\ pend'.b = Nil /\ phase' # "run"
    BY <2>1, <2>2, RequestControl
  <2>4. OperandCount' = n
    BY <2>3 DEF OperandCount
  <2>5. Operands(n)' /\ frameCount' > 0
    BY <2>1, SameOperands
  <2>6. Held'
    BY <2>3, <2>4, <2>5 DEF Held, OperandsHeld, OperandKinds
  <2> QED BY <2>3, <2>6, SuspendCore
<1>2. CASE PushNative
  <2>1. Operands(3) /\ IsKind(Peek(1), "array") /\ Request("PushNative", Peek(1), Peek(0), 0, 0)
    BY <1>2 DEF PushNative
  <2>2. Peek(0) \in Value /\ Peek(1) \in Value /\ 3 < top /\ top \in Nat /\ "PushNative" \in Suspended
    BY <2>1, CoreOperands DEF Suspended
  <2>3. ControlOK' /\ pend'.op = "PushNative" /\ pend'.a = Peek(1) /\ pend'.b = Peek(0) /\ phase' # "run"
    BY <2>1, <2>2, RequestControl
  <2>4. OperandCount' = 3
    BY <2>3 DEF OperandCount
  <2>5. Operands(3)' /\ frameCount' > 0 /\ Peek(0)' = Peek(0) /\ Peek(1)' = Peek(1)
    BY <2>1, SameOperands
  <2>6. {pend'.a, pend'.b} \ {Nil} \subseteq Protected'
    BY <2>2, <2>3, <2>5, PeekProtected DEF Core, StackOK
  <2>7. IsKind(pend.a, "array")'
    BY <2>1, <2>3 DEF IsKind
  <2>8. Held'
    BY <2>3, <2>4, <2>5, <2>6, <2>7 DEF Held, OperandsHeld, OperandKinds
  <2> QED BY <2>3, <2>8, SuspendCore
<1>3. CASE SliceNative
  <2>1. Operands(2) /\ IsKind(Peek(0), "array") /\ Request("SliceNative", Peek(0), Nil, 0, 0)
    BY <1>3 DEF SliceNative
  <2>2. Peek(0) \in Value /\ 2 < top /\ top \in Nat /\ "SliceNative" \in Suspended
    BY <2>1, CoreOperands DEF Suspended
  <2>3. ControlOK' /\ pend'.op = "SliceNative" /\ pend'.a = Peek(0) /\ pend'.b = Nil /\ phase' # "run"
    BY <2>1, <2>2, RequestControl
  <2>4. OperandCount' = 2
    BY <2>3 DEF OperandCount
  <2>5. Operands(2)' /\ frameCount' > 0 /\ Peek(0)' = Peek(0)
    BY <2>1, SameOperands
  <2>6. {pend'.a, pend'.b} \ {Nil} \subseteq Protected'
    BY <2>2, <2>3, <2>5, PeekProtected DEF Core, StackOK
  <2>7. IsKind(pend.a, "array")'
    BY <2>1, <2>3 DEF IsKind
  <2>8. Held'
    BY <2>3, <2>4, <2>5, <2>6, <2>7 DEF Held, OperandsHeld, OperandKinds
  <2> QED BY <2>3, <2>8, SuspendCore
<1>4. CASE GcNative
  <2>1. Operands(1) /\ pend' = [Idle EXCEPT !.op = "GcNative"] /\ phase' = "roots"
    BY <1>4 DEF GcNative
  <2>2. /\ pend' \in [op : Suspended, a : Value, b : Value, n : Nat, at : Nat]
        /\ pend'.op = "GcNative" /\ pend'.a = Nil /\ pend'.b = Nil
    BY <2>1 DEF Idle, Suspended
  <2>3. ControlOK'
    BY <2>1, <2>2 DEF Core, ControlOK, Phase
  <2>4. OperandCount' = 1
    BY <2>2 DEF OperandCount
  <2>5. Operands(1)' /\ frameCount' > 0
    BY <2>1, SameOperands
  <2>6. Held'
    BY <2>1, <2>2, <2>4, <2>5 DEF Held, OperandsHeld, OperandKinds
  <2> QED BY <2>3, <2>6, SuspendCore
<1> QED BY <1>1, <1>2, <1>3, <1>4

\* Array handlers and natives.
LEMMA ArrayStep ==
  ASSUME Core, ArrayNext
  PROVE  Core'
<1>1. CASE NewArrayPush
  <2>1. PICK o \in Fresh("array") : Put(o, "array", NoRefs) /\ Push(o)
    BY <1>1 DEF NewArrayPush
  <2>2. o \in Objects /\ o \notin heap /\ o \in Value /\ Nil \in Value /\ "array" \in Kind
    BY FreshObjects DEF Kind, Core, ControlOK, Value
  <2>3. FramesAside /\ program' = program
    BY <1>1 DEF NewArrayPush, FramesAside
  <2>4. /\ StackOK' /\ Live(stack', top', heap \union {o})
        /\ top \in Nat /\ top' = top + 1 /\ Peek(0)' = o
    <3>1. Live(stack, top, heap \union {o})
      BY CoreRoots DEF Live
    <3> QED BY <2>1, <2>2, <3>1, PushLive DEF Core
  <2>5. ControlOK' /\ Held'
    <3>1. CASE pend.n > 0
      <4>1. Request("ReserveArray", Nil, Nil, pend.n, 0) /\ pend.n \in Nat /\ "ReserveArray" \in Suspended
        BY <1>1, <3>1 DEF NewArrayPush, Core, ControlOK, Suspended
      <4>2. /\ ControlOK' /\ pend'.op = "ReserveArray" /\ pend'.n = pend.n
            /\ pend'.a = Nil /\ pend'.b = Nil /\ phase' # "run"
        BY <2>2, <2>3, <4>1, RequestControl
      <4>3. frameCount > 0 /\ Operands(pend.n)
        BY <1>1, <3>1 DEF NewArrayPush, Resumed, Core, Held, OperandsHeld, OperandCount
      <4>4. OperandCount' = pend.n + 1
        BY <4>2 DEF OperandCount
      <4>5. Operands(pend.n + 1)' /\ frameCount' > 0
        <5>1. Frame' = Frame /\ openUp' = openUp /\ loc' = loc /\ frameCount' = frameCount
          BY <2>3 DEF FramesAside, Frame
        <5>2. top' - (pend.n + 1) = top - pend.n
          BY <2>4, <4>1
        <5> QED BY <2>4, <4>2, <4>3, <5>1, <5>2 DEF Operands
      <4>6. IsKind(Peek(0), "array")'
        BY <2>1, <2>2, <2>4 DEF IsKind, Put, Core, HeapOK, Addr
      <4> QED BY <4>2, <4>4, <4>5, <4>6 DEF Held, OperandsHeld, OperandKinds
    <3>2. CASE ~(pend.n > 0)
      BY <1>1, <2>3, <3>2, DoneHeld DEF NewArrayPush
    <3> QED BY <3>1, <3>2
  <2>6. \A u \in openUp : loc[u] < top'
    BY <2>4 DEF Core, UpvaluesOK, FramesOK
  <2> QED BY <2>1, <2>2, <2>3, <2>4, <2>5, <2>6, NoRefsFit, PutCore
<1>2. CASE NewArrayFill
  <2> DEFINE S == {stack[i] : i \in top - 1 - pend.n .. top - 2} \ {Nil}
  <2>1. /\ slot' = [slot EXCEPT ![Peek(0)]["elements"] = S]
        /\ PopReplace(pend.n, Peek(0)) /\ Done
        /\ FramesAside /\ program' = program /\ UNCHANGED <<heap, kind, isMarked>>
    BY <1>2 DEF NewArrayFill, FramesAside
  <2>2. pend.n \in Nat
    BY DEF Core, ControlOK
  <2>3. frameCount > 0 /\ Operands(pend.n + 1) /\ IsKind(Peek(0), "array")
    BY <1>2, <2>2 DEF NewArrayFill, Resumed, Core, Held, OperandsHeld, OperandKinds, OperandCount
  <2>4. /\ top \in Nat /\ pend.n + 1 < top
        /\ Peek(0) \in Value /\ Peek(0) \in heap \union {Nil}
        /\ \A u \in openUp : loc[u] < top - (pend.n + 1)
    BY <2>2, <2>3, CoreOperands
  <2>5. S \subseteq heap
    BY <2>2, <2>4, CoreRoots DEF Live
  <2>6. StackOK' /\ Live(stack', top', heap) /\ top' = top - pend.n
    BY <2>1, <2>2, <2>4, PopReplaceLive, CoreRoots DEF Core
  <2>7. ControlOK' /\ Held'
    BY <2>1, DoneHeld
  <2>8. \A u \in openUp : loc[u] < top'
    BY <2>2, <2>4, <2>6 DEF Core, FramesOK, UpvaluesOK
  <2>9. /\ Peek(0) \in heap
        /\ "elements" \in TracedRoles(kind[Peek(0)]) \ {"klass"} /\ "elements" \in Role
        /\ "elements" \notin Typed
    BY <2>3 DEF IsKind, TracedRoles, Role, Typed
  <2> HIDE DEF S
  <2> QED BY <2>1, <2>5, <2>6, <2>7, <2>8, <2>9, FieldCore
<1>3. CASE GetElement
  <2>1. frameCount > 0 /\ Operands(1) /\ IsKind(Peek(0), "array") /\ MovesOnly /\ phase = "run"
    BY <1>3 DEF GetElement, Running
  <2>2. PICK v \in slot[Peek(0)]["elements"] \union {Nil} : PopReplace(0, v)
    BY <1>3 DEF GetElement
  <2>3. top \in Nat /\ 1 < top /\ \A u \in openUp : loc[u] < top - 1
    BY <2>1, CoreOperands
  <2>4. v \in heap \union {Nil} /\ v \in Value
    BY <2>1, <2>2, CoreRoots, FieldLive DEF IsKind, Role, Value
  <2>5. StackOK' /\ Live(stack', top', heap) /\ top' = top - 0
    BY <2>2, <2>3, <2>4, PopReplaceLive, CoreRoots DEF Core
  <2>6. \A u \in openUp : loc[u] < top'
    BY <2>3, <2>5 DEF Core, UpvaluesOK
  <2> QED BY <2>1, <2>5, <2>6, MovesCore
<1>4. CASE SetElement
  <2>1. /\ frameCount > 0 /\ Operands(2) /\ IsKind(Peek(1), "array") /\ FramesAside
        /\ phase = "run" /\ UNCHANGED <<heap, kind, isMarked, phase, pend>> /\ PopReplace(1, Peek(0))
    BY <1>4 DEF SetElement, Running
  <2>2. PICK old \in slot[Peek(1)]["elements"] \union {Nil} :
          slot' = [slot EXCEPT ![Peek(1)]["elements"] = (@ \ {old}) \union Obj(Peek(0))]
    BY <1>4 DEF SetElement
  <2> DEFINE S == (slot[Peek(1)]["elements"] \ {old}) \union Obj(Peek(0))
  <2>3. /\ top \in Nat /\ 2 < top /\ \A u \in openUp : loc[u] < top - 2
        /\ Peek(0) \in Value /\ Peek(0) \in heap \union {Nil}
    BY <2>1, CoreOperands
  <2>4. S \subseteq heap
    BY <2>1, <2>3, CoreRoots, FieldLive DEF IsKind, Role, Obj
  <2>5. StackOK' /\ Live(stack', top', heap) /\ top' = top - 1
    BY <2>1, <2>3, PopReplaceLive, CoreRoots DEF Core
  <2>6. ControlOK' /\ Held'
    BY <2>1, RunHeld DEF FramesAside
  <2>7. \A u \in openUp : loc[u] < top'
    BY <2>3, <2>5 DEF Core, UpvaluesOK, FramesOK
  <2>8. /\ Peek(1) \in heap
        /\ "elements" \in TracedRoles(kind[Peek(1)]) \ {"klass"} /\ "elements" \in Role
        /\ "elements" \notin Typed
    BY <2>1 DEF IsKind, TracedRoles, Role, Typed
  <2>9. slot' = [slot EXCEPT ![Peek(1)]["elements"] = S]
    BY <2>2
  <2> HIDE DEF S
  <2> QED BY <2>1, <2>4, <2>5, <2>6, <2>7, <2>8, <2>9, FieldCore
<1>5. CASE PushNativeEnd
  <2>1. /\ PopReplace(2, Nil) /\ Done /\ FramesAside /\ program' = program
        /\ UNCHANGED <<heap, kind, isMarked>>
    BY <1>5 DEF PushNativeEnd, FramesAside
  <2>2. /\ frameCount > 0 /\ Operands(3) /\ IsKind(pend.a, "array")
        /\ pend.a = Peek(1) /\ pend.b = Peek(0)
    BY <1>5 DEF PushNativeEnd, Resumed, Core, Held, OperandsHeld, OperandKinds, OperandCount
  <2> DEFINE S == slot[pend.a]["elements"] \union Obj(pend.b)
  <2>3. /\ top \in Nat /\ 3 < top /\ \A u \in openUp : loc[u] < top - 3
        /\ Peek(0) \in heap \union {Nil}
    BY <2>2, CoreOperands
  <2>4. S \subseteq heap
    BY <2>2, <2>3, CoreRoots, FieldLive DEF IsKind, Role, Obj
  <2>5. StackOK' /\ Live(stack', top', heap) /\ top' = top - 2
    BY <2>1, <2>3, PopReplaceLive, CoreRoots DEF Core, Value
  <2>6. ControlOK' /\ Held'
    BY <2>1, DoneHeld
  <2>7. \A u \in openUp : loc[u] < top'
    BY <2>3, <2>5 DEF Core, UpvaluesOK, FramesOK
  <2>8. /\ pend.a \in heap
        /\ "elements" \in TracedRoles(kind[pend.a]) \ {"klass"} /\ "elements" \in Role
        /\ "elements" \notin Typed
    BY <2>2 DEF IsKind, TracedRoles, Role, Typed
  <2>9. slot' = [slot EXCEPT ![pend.a]["elements"] = S]
    BY <1>5 DEF PushNativeEnd
  <2> HIDE DEF S
  <2> QED BY <2>1, <2>4, <2>5, <2>6, <2>7, <2>8, <2>9, FieldCore
<1>6. CASE SliceNativePush
  <2>1. PICK o \in Fresh("array") :
          Put(o, "array", NoRefs) /\ Push(o) /\ Request("SliceReserve", pend.a, o, 0, 0)
    BY <1>6 DEF SliceNativePush
  <2>2. o \in Objects /\ o \notin heap /\ o \in Value /\ "array" \in Kind /\ "SliceReserve" \in Suspended
    BY FreshObjects DEF Kind, Core, ControlOK, Value, Suspended
  <2>3. FramesAside /\ program' = program
    BY <1>6 DEF SliceNativePush, FramesAside
  <2>4. frameCount > 0 /\ Operands(2) /\ IsKind(pend.a, "array") /\ pend.a = Peek(0) /\ pend.a \in Value
    BY <1>6 DEF SliceNativePush, Resumed, Core, ControlOK, Held, OperandsHeld, OperandKinds, OperandCount
  <2>5. /\ StackOK' /\ Live(stack', top', heap \union {o})
        /\ top \in Nat /\ top' = top + 1 /\ Peek(0)' = o
        /\ \A i \in 0 .. top - 1 : stack'[i] = stack[i]
    <3>1. Live(stack, top, heap \union {o})
      BY CoreRoots DEF Live
    <3> QED BY <2>1, <2>2, <3>1, PushLive DEF Core
  <2>6. /\ ControlOK' /\ pend'.op = "SliceReserve" /\ pend'.a = pend.a /\ pend'.b = o /\ phase' # "run"
    BY <2>1, <2>2, <2>3, <2>4, RequestControl
  <2>7. Peek(1)' = pend.a /\ 2 < top
    BY <2>4, <2>5, CoreOperands DEF Peek
  <2>8. OperandCount' = 3
    BY <2>6 DEF OperandCount
  <2>9. Operands(3)' /\ frameCount' > 0
    <3>1. Frame' = Frame /\ openUp' = openUp /\ loc' = loc /\ frameCount' = frameCount
      BY <2>3 DEF FramesAside, Frame
    <3>2. top' - 3 = top - 2
      BY <2>5
    <3> QED BY <2>4, <3>1, <3>2 DEF Operands
  <2>10. IsKind(pend.a, "array")' /\ IsKind(pend.b, "array")'
    BY <2>1, <2>2, <2>4, <2>6 DEF IsKind, Put, Core, HeapOK, Addr
  <2>11. {pend'.a, pend'.b} \ {Nil} \subseteq Protected'
    <3>1. Peek(0)' \in Protected' \union {Nil} /\ Peek(1)' \in Protected' \union {Nil}
      BY <2>5, <2>7, PeekProtected
    <3> QED BY <2>5, <2>6, <2>7, <3>1
  <2>12. Held'
    BY <2>5, <2>6, <2>7, <2>8, <2>9, <2>10, <2>11 DEF Held, OperandsHeld, OperandKinds
  <2>13. \A u \in openUp : loc[u] < top'
    BY <2>5 DEF Core, UpvaluesOK, FramesOK
  <2> QED BY <2>1, <2>2, <2>3, <2>5, <2>6, <2>12, <2>13, NoRefsFit, PutCore
<1>7. CASE SliceNativeEnd
  <2>1. /\ PopReplace(2, pend.b) /\ Done /\ FramesAside /\ program' = program
        /\ UNCHANGED <<heap, kind, isMarked>>
    BY <1>7 DEF SliceNativeEnd, FramesAside
  <2>2. PICK S \in SUBSET slot[pend.a]["elements"] : slot' = [slot EXCEPT ![pend.b]["elements"] = S]
    BY <1>7 DEF SliceNativeEnd
  <2>3. /\ frameCount > 0 /\ Operands(3) /\ IsKind(pend.a, "array") /\ IsKind(pend.b, "array")
        /\ pend.b = Peek(0) /\ pend.b \in Value
    BY <1>7 DEF SliceNativeEnd, Resumed, Core, ControlOK, Held, OperandsHeld, OperandKinds, OperandCount
  <2>4. /\ top \in Nat /\ 3 < top /\ \A u \in openUp : loc[u] < top - 3
        /\ pend.b \in heap \union {Nil}
    BY <2>3, CoreOperands
  <2>5. S \subseteq heap
    BY <2>2, <2>3, CoreRoots, FieldLive DEF IsKind, Role
  <2>6. StackOK' /\ Live(stack', top', heap) /\ top' = top - 2
    BY <2>1, <2>3, <2>4, PopReplaceLive, CoreRoots DEF Core
  <2>7. ControlOK' /\ Held'
    BY <2>1, DoneHeld
  <2>8. \A u \in openUp : loc[u] < top'
    BY <2>4, <2>6 DEF Core, UpvaluesOK, FramesOK
  <2>9. /\ pend.b \in heap
        /\ "elements" \in TracedRoles(kind[pend.b]) \ {"klass"} /\ "elements" \in Role
        /\ "elements" \notin Typed
    BY <2>3 DEF IsKind, TracedRoles, Role, Typed
  <2> QED BY <2>1, <2>2, <2>5, <2>6, <2>7, <2>8, <2>9, FieldCore
<1>8. CASE GcNativeEnd
  <2>1. /\ PopReplace(0, Nil) /\ Done /\ FramesAside /\ program' = program
        /\ UNCHANGED <<heap, kind, slot, isMarked>>
    BY <1>8 DEF GcNativeEnd, FramesAside
  <2>2. frameCount > 0 /\ Operands(1)
    BY <1>8 DEF GcNativeEnd, Resumed, Core, Held, OperandsHeld, OperandCount
  <2>3. top \in Nat /\ 1 < top
    BY <2>2, CoreOperands
  <2>4. StackOK' /\ Live(stack', top', heap) /\ top' = top - 0
    BY <2>1, <2>3, PopReplaceLive, CoreRoots DEF Core, Value
  <2>5. ControlOK' /\ Held'
    BY <2>1, DoneHeld
  <2>6. \A u \in openUp : loc[u] < top'
    BY <2>3, <2>4 DEF Core, UpvaluesOK
  <2> QED BY <2>1, <2>4, <2>5, <2>6, StackCore
<1> QED BY <1>1, <1>2, <1>3, <1>4, <1>5, <1>6, <1>7, <1>8, ArraySuspends DEF ArrayNext

-----------------------------------------------------------------------------
(* Closures and upvalues *)

\* The closure under construction is on top of the stack.
LEMMA CaptureRestHeld ==
  ASSUME Core, NEW n \in Nat, CaptureRest(n), program' = program,
         frameCount' > 0, top' > 0, IsKind(Peek(0), "closure")'
  PROVE  ControlOK' /\ Held'
<1>1. CASE n = 0
  BY <1>1, DoneHeld DEF CaptureRest
<1>2. CASE n # 0
  <2>1. phase' = "resume" /\ pend' = [Idle EXCEPT !.op = "Capture", !.n = n]
    BY <1>2 DEF CaptureRest
  <2>2. /\ pend' \in [op : Suspended, a : Value, b : Value, n : Nat, at : Nat]
        /\ pend'.op = "Capture" /\ pend'.a = Nil /\ pend'.b = Nil /\ pend'.n = n
    BY <2>1 DEF Idle, Suspended, Value
  <2>3. ControlOK'
    BY <2>1, <2>2 DEF Core, ControlOK, Phase
  <2>4. OperandCount' = 0
    BY <2>2 DEF OperandCount
  <2> QED BY <1>2, <2>1, <2>2, <2>3, <2>4 DEF Held, OperandsHeld, OperandKinds
<1> QED BY <1>1, <1>2

\* The upvalues of the running closure are upvalues.
LEMMA CurrentUpvalue ==
  ASSUME Core, frameCount > 0, NEW u \in slot[Current]["upvalues"]
  PROVE  /\ u \in heap /\ kind[u] = "upvalue"
         /\ Current \in heap
         /\ \A v \in Value : Holds(u, v) => v \in heap \union {Nil}
<1>1. Current \in heap
  BY CoreRoots, BoundAssumption DEF Framed, Current, Core, FramesOK
<1>2. u \in heap /\ kind[u] = "upvalue"
  BY <1>1, CoreRoots, FieldLive DEF Role, Core, FieldsOfKind, FieldKind
<1>3. ASSUME NEW v \in Value, Holds(u, v)
      PROVE  v \in heap \union {Nil}
  <2>1. CASE u \in openUp
    <3>1. loc[u] \in 0 .. top - 1
      BY <2>1, BoundAssumption DEF Core, UpvaluesOK, FramesOK, StackOK
    <3> QED BY <1>3, <2>1, <3>1, CoreRoots DEF Holds, Live
  <2>2. CASE u \notin openUp
    BY <1>2, <1>3, <2>2, CoreRoots, FieldLive DEF Holds, Obj, Role
  <2> QED BY <2>1, <2>2
<1> QED BY <1>1, <1>2, <1>3

\* closeUpvalues() copies the variables of the upvalues it closes.
LEMMA CloseGraph ==
  ASSUME Core, NEW n \in Nat, CloseUpvalues(n),
         UNCHANGED <<heap, kind, isMarked, gcMark, gray>>, Roots' \subseteq heap
  PROVE  Graph'
<1> DEFINE Closes(o) == o \in openUp /\ loc[o] >= n
<1>1. ASSUME NEW o, Closes(o)
      PROVE  /\ o \in heap /\ o \in Objects /\ kind[o] = "upvalue"
             /\ Obj(stack[loc[o]]) \subseteq heap
  <2>1. loc[o] \in 0 .. top - 1 /\ kind[o] = "upvalue" /\ o \in heap /\ o \in Objects
    BY <1>1, CoreRoots, BoundAssumption DEF Core, UpvaluesOK, FramesOK, StackOK
  <2> QED BY <2>1, CoreRoots DEF Live, Obj
<1>2. slot' = [o \in Addr |-> IF Closes(o) THEN [slot[o] EXCEPT !["closed"] = Obj(stack[loc[o]])]
                                           ELSE slot[o]]
  BY DEF CloseUpvalues
<1>3. HeapOK /\ heap \subseteq Objects /\ NoDangling /\ FieldsOfKind
  BY DEF Core, HeapOK
<1> HIDE DEF Closes
<1>4. \A o \in Addr, r \in Role :
        slot'[o][r] = IF Closes(o) /\ r = "closed" THEN Obj(stack[loc[o]]) ELSE slot[o][r]
  BY <1>2, <1>3 DEF HeapOK
<1>5. slot' \in [Addr -> [Role -> SUBSET Addr]]
  BY <1>1, <1>2, <1>3 DEF HeapOK, Addr
<1>6. HeapOK'
  BY <1>1, <1>3, <1>4, <1>5, AddressAssumption DEF HeapOK
<1>7. NoDangling'
  BY <1>1, <1>3, <1>4 DEF NoDangling, Addr
<1>8. \A o \in heap' : \A r \in Role \ TracedRoles(kind'[o]) : slot'[o][r] = {}
  <2>1. \A o : Closes(o) => "closed" \in TracedRoles(kind[o])
    BY <1>1 DEF TracedRoles
  <2> QED BY <2>1, <1>3, <1>4 DEF FieldsOfKind, Addr
<1>9. \A o \in heap', r \in Typed : \A v \in slot'[o][r] : kind'[v] = FieldKind(r)
  BY <1>3, <1>4 DEF FieldsOfKind, Addr, Typed, Role
<1>10. slot'[EmptyClass] = NoRefs /\ kind'[EmptyClass] = "class"
  BY <1>1, <1>2, <1>3, AddressAssumption DEF FieldsOfKind, Addr
<1> QED BY <1>6, <1>7, <1>8, <1>9, <1>10 DEF Graph, FieldsOfKind, Typed

\* closeUpvalues() leaves the open upvalues below n.
LEMMA CloseOpen ==
  ASSUME Core, NEW n \in Nat, CloseUpvalues(n), kind' = kind, top' \in Nat, n <= top'
  PROVE  /\ openUp' \subseteq openUp
         /\ loc' \in [Objects -> Nat]
         /\ UpvaluesOK'
<1>1. openUp' = {u \in openUp : loc[u] < n}
  BY DEF CloseUpvalues
<1>2. loc' = [u \in Objects |-> IF u \in openUp /\ loc[u] >= n THEN 0 ELSE loc[u]]
  BY DEF CloseUpvalues
<1>3. openUp \subseteq Objects /\ loc \in [Objects -> Nat]
  BY DEF Core, FramesOK
<1>4. \A u \in openUp' : loc'[u] = loc[u] /\ loc[u] < n
  BY <1>1, <1>2, <1>3
<1> QED BY <1>1, <1>2, <1>3, <1>4 DEF Core, UpvaluesOK

\* Closures and upvalues.
LEMMA ClosureStep ==
  ASSUME Core, ClosureNext
  PROVE  Core'
<1> Nil \in Value
  BY DEF Value
<1>1. CASE Interpret
  <2>1. /\ Request("Interpret", Nil, Nil, 0, 0) /\ FramesAside /\ program' = program
        /\ UNCHANGED <<heap, kind, slot, isMarked, stack, top>> /\ "Interpret" \in Suspended
    BY <1>1 DEF Interpret, FramesAside, Suspended
  <2>2. ControlOK' /\ pend'.op = "Interpret" /\ pend'.a = Nil /\ pend'.b = Nil /\ phase' # "run"
    BY <2>1, RequestControl
  <2>3. OperandCount' = 0
    BY <2>2 DEF OperandCount
  <2>4. Held'
    BY <2>2, <2>3 DEF Held, OperandsHeld, OperandKinds
  <2> QED BY <2>1, <2>2, <2>4, SuspendCore
<1>2. CASE InterpretCall
  <2>1. PICK o \in Fresh("closure") :
          Put(o, "closure", NoRefs) /\ Push(o) /\ closureOf' = [closureOf EXCEPT ![0] = o]
    BY <1>2 DEF InterpretCall
  <2>2. /\ base' = [base EXCEPT ![0] = top] /\ frameCount' = 1 /\ Done
        /\ UNCHANGED <<gcMark, gray, openUp, globals, loc, program>>
    BY <1>2 DEF InterpretCall
  <2>3. o \in Objects /\ o \notin heap /\ o \in Value /\ "closure" \in Kind
    BY FreshObjects DEF Kind, Core, ControlOK, Value
  <2>4. StackOK' /\ Live(stack', top', heap \union {o}) /\ top \in Nat /\ top' = top + 1
    <3>1. Live(stack, top, heap \union {o})
      BY CoreRoots DEF Live
    <3> QED BY <2>1, <2>3, <3>1, PushLive DEF Core
  <2>5. FramesOK'
    BY <2>1, <2>2, <2>3, <2>4, BoundAssumption DEF Core, FramesOK
  <2>6. Roots' \subseteq heap \union {o}
    <3>1. Framed(closureOf', frameCount', heap \union {o})
      BY <2>1, <2>2, BoundAssumption DEF Core, FramesOK, Framed
    <3> QED BY <2>2, <2>4, <3>1, RootsLive, CoreRoots
  <2>7. Graph'
    BY <2>1, <2>2, <2>3, <2>6, NoRefsFit, PutGraph, CoreRoots DEF Core
  <2>8. UpvaluesOK'
    <3>1. \A w \in openUp : kind'[w] = kind[w]
      BY <2>1, <2>3, CoreRoots DEF Put, Core, HeapOK, Addr
    <3> QED BY <2>2, <2>4, <3>1 DEF Core, UpvaluesOK, FramesOK
  <2>9. ControlOK' /\ Held'
    BY <2>2, DoneHeld
  <2> QED BY <2>4, <2>5, <2>7, <2>8, <2>9 DEF Core, Graph
<1>3. CASE NewClosure
  <2>1. /\ FramesAside /\ program' = program /\ frameCount > 0
        /\ UNCHANGED <<heap, kind, slot, isMarked, stack, top>>
    BY <1>3 DEF NewClosure, FramesAside, Running
  <2>2. PICK n \in 0 .. MaxUpvalues :
          IF n = 0 THEN Request("NewClosure", Nil, Nil, 0, 0)
                   ELSE Request("UpvalueArray", Nil, Nil, n, 0)
    BY <1>3 DEF NewClosure
  <2>3. n \in Nat /\ "NewClosure" \in Suspended /\ "UpvalueArray" \in Suspended
    BY ProgramAssumption DEF Suspended
  <2>4. /\ ControlOK' /\ pend'.op \in {"NewClosure", "UpvalueArray"}
        /\ pend'.a = Nil /\ pend'.b = Nil /\ phase' # "run"
    <3>1. CASE n = 0
      BY <2>1, <2>2, <2>3, <3>1, RequestControl
    <3>2. CASE n # 0
      BY <2>1, <2>2, <2>3, <3>2, RequestControl
    <3> QED BY <3>1, <3>2
  <2>5. OperandCount' = 0
    BY <2>4 DEF OperandCount
  <2>6. frameCount' > 0
    BY <2>1 DEF FramesAside
  <2>7. Held'
    BY <2>4, <2>5, <2>6 DEF Held, OperandsHeld, OperandKinds
  <2> QED BY <2>1, <2>4, <2>7, SuspendCore
<1>4. CASE UpvalueArrayEnd
  <2>1. /\ Request("NewClosure", Nil, Nil, pend.n, 0) /\ FramesAside /\ program' = program
        /\ UNCHANGED <<heap, kind, slot, isMarked, stack, top>>
        /\ "NewClosure" \in Suspended /\ pend.n \in Nat
    BY <1>4 DEF UpvalueArrayEnd, FramesAside, Suspended, Core, ControlOK
  <2>2. ControlOK' /\ pend'.op = "NewClosure" /\ pend'.a = Nil /\ pend'.b = Nil /\ phase' # "run"
    BY <2>1, RequestControl
  <2>3. OperandCount' = 0
    BY <2>2 DEF OperandCount
  <2>4. frameCount' > 0
    BY <1>4, <2>1 DEF UpvalueArrayEnd, Resumed, FramesAside, Core, Held, OperandsHeld
  <2>5. Held'
    BY <2>2, <2>3, <2>4 DEF Held, OperandsHeld, OperandKinds
  <2> QED BY <2>1, <2>2, <2>5, SuspendCore
<1>5. CASE NewClosurePush
  <2>1. PICK o \in Fresh("closure") : Put(o, "closure", NoRefs) /\ Push(o)
    BY <1>5 DEF NewClosurePush
  <2>2. o \in Objects /\ o \notin heap /\ o \in Value /\ "closure" \in Kind
    BY FreshObjects DEF Kind, Core, ControlOK, Value
  <2>3. FramesAside /\ program' = program /\ CaptureRest(pend.n) /\ pend.n \in Nat
    BY <1>5 DEF NewClosurePush, FramesAside, Core, ControlOK
  <2>4. /\ StackOK' /\ Live(stack', top', heap \union {o})
        /\ top \in Nat /\ top' = top + 1 /\ Peek(0)' = o
    <3>1. Live(stack, top, heap \union {o})
      BY CoreRoots DEF Live
    <3> QED BY <2>1, <2>2, <3>1, PushLive DEF Core
  <2>5. frameCount' > 0
    BY <1>5, <2>3 DEF NewClosurePush, Resumed, FramesAside, Core, Held, OperandsHeld
  <2>6. top' > 0 /\ IsKind(Peek(0), "closure")'
    BY <2>1, <2>2, <2>4 DEF IsKind, Put, Core, HeapOK, Addr
  <2>7. ControlOK' /\ Held'
    BY <2>3, <2>5, <2>6, CaptureRestHeld
  <2>8. \A u \in openUp : loc[u] < top'
    BY <2>4 DEF Core, UpvaluesOK, FramesOK
  <2> QED BY <2>1, <2>2, <2>3, <2>4, <2>7, <2>8, NoRefsFit, PutCore
<1>6. CASE CaptureLocal \/ CaptureEnclosing
  <2>1. FramesAside /\ program' = program /\ UNCHANGED <<heap, kind, isMarked, stack, top>>
    BY <1>6 DEF CaptureLocal, CaptureEnclosing, FramesAside
  <2>2. /\ frameCount > 0 /\ pend.n \in Nat /\ pend.n > 0 /\ pend.n - 1 \in Nat
        /\ top > 0 /\ IsKind(Peek(0), "closure")
    BY <1>6 DEF CaptureLocal, CaptureEnclosing, Resumed, Core, ControlOK, Held, OperandsHeld, OperandKinds
  <2>3. frameCount' > 0 /\ top' > 0 /\ IsKind(Peek(0), "closure")'
    BY <2>1, <2>2 DEF FramesAside, IsKind, Peek
  <2>4. StackOK' /\ Live(stack', top', heap) /\ \A w \in openUp : loc[w] < top'
    BY <2>1, CoreRoots DEF Core, StackOK, UpvaluesOK
  <2>5. ASSUME NEW u, u \in heap, kind[u] = "upvalue", AddUpvalue(u), CaptureRest(pend.n - 1)
        PROVE  Core'
    <3> DEFINE S == slot[Peek(0)]["upvalues"] \union {u}
    <3>1. slot' = [slot EXCEPT ![Peek(0)]["upvalues"] = S]
      BY <2>5 DEF AddUpvalue
    <3>2. /\ Peek(0) \in heap /\ "upvalues" \in TracedRoles(kind[Peek(0)]) \ {"klass"}
          /\ "upvalues" \in Role /\ FieldKind("upvalues") = "upvalue"
      BY <2>2 DEF IsKind, TracedRoles, Role, FieldKind
    <3>3. S \subseteq heap /\ \A v \in S : kind[v] = "upvalue"
      BY <2>5, <3>2, CoreRoots, FieldLive DEF Core, FieldsOfKind
    <3>4. ControlOK' /\ Held'
      BY <2>1, <2>2, <2>3, <2>5, CaptureRestHeld
    <3> HIDE DEF S
    <3> QED BY <2>1, <2>4, <3>1, <3>2, <3>3, <3>4, FieldCore
  <2>6. ASSUME NEW i \in Locals, \A w \in openUp : loc[w] # i,
               Request("NewUpvalue", Nil, Nil, pend.n, i), slot' = slot
        PROVE  Core'
    <3>1. i \in Nat /\ i < top /\ "NewUpvalue" \in Suspended
      BY <2>2, <2>6, BoundAssumption DEF Locals, Core, FramesOK, StackOK, Frame, Suspended
    <3>2. /\ ControlOK' /\ pend'.op = "NewUpvalue" /\ pend'.a = Nil /\ pend'.b = Nil
          /\ pend'.n = pend.n /\ pend'.at = i /\ phase' # "run"
      BY <2>1, <2>2, <2>6, <3>1, RequestControl
    <3>3. OperandCount' = 0
      BY <3>2 DEF OperandCount
    <3>4. pend'.at < top' /\ \A w \in openUp' : loc'[w] # pend'.at
      BY <2>1, <2>6, <3>1, <3>2 DEF FramesAside
    <3>5. Held'
      BY <2>2, <2>3, <3>2, <3>3, <3>4 DEF Held, OperandsHeld, OperandKinds
    <3> QED BY <2>1, <2>6, <3>2, <3>5, SuspendCore
  <2>7. CASE CaptureLocal
    <3>1. PICK i \in Locals :
            \/ \E u \in openUp : AddUpvalue(u) /\ CaptureRest(pend.n - 1)
            \/ /\ \A u \in openUp : loc[u] # i
               /\ Request("NewUpvalue", Nil, Nil, pend.n, i)
               /\ slot' = slot
      BY <2>7 DEF CaptureLocal
    <3>2. \A u \in openUp : u \in heap /\ kind[u] = "upvalue"
      BY CoreRoots DEF Core, UpvaluesOK
    <3> QED BY <2>5, <2>6, <3>1, <3>2
  <2>8. CASE CaptureEnclosing
    BY <2>2, <2>5, <2>8, CurrentUpvalue DEF CaptureEnclosing
  <2> QED BY <1>6, <2>7, <2>8
<1>7. CASE NewUpvalue
  <2>1. PICK u \in Fresh("upvalue") :
          /\ heap' = heap \union {u}
          /\ kind' = [kind EXCEPT ![u] = "upvalue"]
          /\ isMarked' = [isMarked EXCEPT ![u] = NewMark]
          /\ slot' = [slot EXCEPT ![u] = NoRefs, ![Peek(0)]["upvalues"] = @ \union {u}]
          /\ openUp' = openUp \union {u}
          /\ loc' = [loc EXCEPT ![u] = pend.at]
    BY <1>7 DEF NewUpvalue
  <2>2. /\ CaptureRest(pend.n - 1)
        /\ UNCHANGED <<gcMark, gray, stack, top, closureOf, frameCount, globals, base, program>>
    BY <1>7 DEF NewUpvalue
  <2>3. /\ frameCount > 0 /\ pend.n - 1 \in Nat /\ pend.at \in Nat /\ pend.at < top
        /\ \A w \in openUp : loc[w] # pend.at
        /\ top > 0 /\ IsKind(Peek(0), "closure")
    BY <1>7 DEF NewUpvalue, Resumed, Core, ControlOK, Held, OperandsHeld, OperandKinds
  <2>4. u \in Objects /\ u \notin heap /\ u # EmptyClass /\ "upvalue" \in Kind
    BY FreshObjects, AddressAssumption DEF Kind, Core, ControlOK
  <2>5. Peek(0) \in heap /\ Peek(0) # u /\ kind[Peek(0)] = "closure" /\ Peek(0)' = Peek(0)
    BY <2>2, <2>3, <2>4 DEF IsKind, Peek
  <2> DEFINE c == Peek(0)
  <2>6. /\ HeapOK /\ NoDangling /\ FieldsOfKind /\ openUp \subseteq heap /\ heap \subseteq Objects
        /\ NoRefs \in [Role -> SUBSET Addr] /\ \A r \in Role : NoRefs[r] = {}
    BY CoreRoots DEF Core, NoRefs
  <2>7. c \in heap /\ c # u /\ kind[c] = "closure"
    BY <2>5
  <2> DEFINE s1 == [slot EXCEPT ![u] = NoRefs]
  <2>8. slot' = [s1 EXCEPT ![c]["upvalues"] = slot[c]["upvalues"] \union {u}]
    BY <2>1, <2>5
  <2> HIDE DEF c
  <2>8s. /\ s1 \in [Addr -> [Role -> SUBSET Addr]] /\ s1[u] = NoRefs
         /\ \A o \in Addr \ {u} : s1[o] = slot[o]
    BY <2>4, <2>6 DEF HeapOK, Addr
  <2> HIDE DEF s1
  <2>9. /\ slot' \in [Addr -> [Role -> SUBSET Addr]]
        /\ \A o \in Addr, r \in Role :
             slot'[o][r] = IF o = u THEN {}
                           ELSE IF o = c /\ r = "upvalues" THEN slot[c]["upvalues"] \union {u}
                           ELSE slot[o][r]
    <3>1. u \in Addr /\ c \in Addr \ {u} /\ "upvalues" \in Role
      BY <2>4, <2>6, <2>7 DEF Addr, Role
    <3>2. slot' = [s1 EXCEPT ![c] = [s1[c] EXCEPT !["upvalues"] = slot[c]["upvalues"] \union {u}]]
      BY <2>8
    <3>3. slot' \in [Addr -> [Role -> SUBSET Addr]]
      BY <2>8s, <3>1, <3>2
    <3>4. slot'[u] = NoRefs /\ \A o \in Addr \ {u, c} : slot'[o] = slot[o]
      BY <2>8s, <3>1, <3>2
    <3>5. \A r \in Role : slot'[c][r] = IF r = "upvalues" THEN slot[c]["upvalues"] \union {u} ELSE slot[c][r]
      BY <2>8s, <3>1, <3>2
    <3> QED BY <2>6, <3>1, <3>3, <3>4, <3>5
  <2>10. /\ kind' \in [Addr -> Kind] /\ kind'[u] = "upvalue"
         /\ \A o \in heap \union {EmptyClass} : kind'[o] = kind[o]
    BY <2>1, <2>4, <2>6 DEF HeapOK, Addr
  <2>11. HeapOK'
    <3>1. \A o \in Addr, r \in Role \ {"klass"} : EmptyClass \notin slot'[o][r]
      BY <2>4, <2>6, <2>9 DEF HeapOK
    <3>2. isMarked' \in [Addr -> BOOLEAN]
      BY <2>1, <2>6 DEF HeapOK, NewMark
    <3> QED BY <2>1, <2>2, <2>4, <2>6, <2>9, <2>10, <3>1, <3>2 DEF HeapOK
  <2>12. Roots' \subseteq heap'
    <3>1. Live(stack', top', heap') /\ Framed(closureOf', frameCount', heap')
      BY <2>1, <2>2, CoreRoots DEF Live, Framed
    <3>2. openUp' \subseteq heap' /\ globals' \subseteq heap'
      BY <2>1, <2>2, CoreRoots
    <3> QED BY <3>1, <3>2, RootsLive
  <2>13. NoDangling'
    BY <2>1, <2>6, <2>9, <2>12 DEF NoDangling, Addr
  <2>14. \A o \in heap' : \A r \in Role \ TracedRoles(kind'[o]) : slot'[o][r] = {}
    <3>1. "upvalues" \in TracedRoles(kind[c])
      BY <2>7 DEF TracedRoles
    <3> QED BY <2>1, <2>6, <2>7, <2>9, <2>10, <3>1 DEF FieldsOfKind, Addr
  <2>15. \A o \in heap', r \in Typed : \A v \in slot'[o][r] : kind'[v] = FieldKind(r)
    <3> TAKE o \in heap', r \in Typed
    <3>1. CASE o = u
      BY <3>1, <2>4, <2>9 DEF Addr, Typed, Role
    <3>2. CASE o \in heap
      <4>1. \A v \in slot[o][r] : v \in heap \union {EmptyClass} /\ kind[v] = FieldKind(r)
        BY <2>6, <3>2 DEF NoDangling, FieldsOfKind, Typed, Role
      <4>2. \A v \in slot'[o][r] : v \in slot[o][r] \/ (v = u /\ r = "upvalues")
        <5>1. o \in Addr /\ o # u /\ r \in Role
          BY <2>4, <2>6, <3>2 DEF Addr, Typed, Role
        <5> QED BY <2>9, <5>1
      <4> QED BY <2>10, <4>1, <4>2 DEF FieldKind
    <3> QED BY <2>1, <3>1, <3>2
  <2>16. slot'[EmptyClass] = NoRefs /\ kind'[EmptyClass] = "class"
    BY <2>4, <2>6, <2>7, <2>8, <2>8s, <2>10, AddressAssumption DEF FieldsOfKind, Addr
  <2>17. FramesOK'
    BY <2>1, <2>2, <2>3, <2>4 DEF Core, FramesOK
  <2>18. UpvaluesOK'
    <3>1. \A w \in openUp : loc'[w] = loc[w] /\ loc[w] # pend.at /\ loc[w] < top /\ kind'[w] = "upvalue"
      BY <2>1, <2>3, <2>4, <2>6, <2>10 DEF Core, FramesOK, UpvaluesOK
    <3>2. loc'[u] = pend.at /\ kind'[u] = "upvalue"
      BY <2>1, <2>4, <2>10 DEF Core, FramesOK
    <3> QED BY <2>1, <2>2, <2>3, <3>1, <3>2 DEF Core, UpvaluesOK
  <2>19. ControlOK' /\ Held'
    <3>1. IsKind(Peek(0), "closure")'
      BY <2>1, <2>5, <2>10 DEF IsKind
    <3> QED BY <2>2, <2>3, <3>1, CaptureRestHeld
  <2>20. StackOK'
    BY <2>2 DEF Core, StackOK
  <2> QED BY <2>11, <2>13, <2>14, <2>15, <2>16, <2>17, <2>18, <2>19, <2>20 DEF Core, FieldsOfKind, Typed
<1>8. CASE GetUpvalue
  <2>1. PICK u \in slot[Current]["upvalues"], v \in Value : Holds(u, v) /\ Push(v)
    BY <1>8 DEF GetUpvalue
  <2>2. MovesOnly /\ phase = "run" /\ frameCount > 0
    BY <1>8 DEF GetUpvalue, Running
  <2>3. v \in heap \union {Nil}
    BY <2>1, <2>2, CurrentUpvalue
  <2>4. StackOK' /\ Live(stack', top', heap) /\ top \in Nat /\ top' = top + 1
    BY <2>1, <2>3, PushLive, CoreRoots DEF Core
  <2> QED BY <2>2, <2>4, MovesCore DEF Core, UpvaluesOK, FramesOK
<1>9. CASE SetUpvalue
  <2>1. PICK u \in slot[Current]["upvalues"] :
          IF u \in openUp
          THEN stack' = [stack EXCEPT ![loc[u]] = Peek(0)] /\ slot' = slot
          ELSE slot' = [slot EXCEPT ![u]["closed"] = Obj(Peek(0))] /\ stack' = stack
    BY <1>9 DEF SetUpvalue
  <2>2. /\ phase = "run" /\ frameCount > 0 /\ Operands(1) /\ FramesAside
        /\ UNCHANGED <<heap, kind, isMarked, phase, pend, top>>
    BY <1>9 DEF SetUpvalue, Running
  <2>3. ControlOK' /\ Held'
    BY <2>2, RunHeld DEF FramesAside
  <2>4. Peek(0) \in Value /\ Peek(0) \in heap \union {Nil}
    BY <2>2, CoreOperands
  <2>5. u \in heap /\ kind[u] = "upvalue"
    BY <2>1, <2>2, CurrentUpvalue
  <2>6. \A w \in openUp : loc[w] < top'
    BY <2>2 DEF Core, UpvaluesOK
  <2>7. CASE u \in openUp
    <3>1. StackOK' /\ Live(stack', top', heap)
      <4>1. stack \in [Slots -> Value] /\ top \in 0 .. StackMax /\ Live(stack, top, heap)
        BY CoreRoots DEF Core, StackOK
      <4> QED BY <2>1, <2>2, <2>4, <2>7, <4>1, BoundAssumption DEF StackOK, Live, Slots
    <3> QED BY <2>1, <2>2, <2>3, <2>6, <2>7, <3>1, StackCore
  <2>8. CASE u \notin openUp
    <3>1. StackOK' /\ Live(stack', top', heap)
      BY <2>1, <2>2, <2>8, CoreRoots DEF Core, StackOK
    <3>2. "closed" \in TracedRoles(kind[u]) \ {"klass"} /\ "closed" \in Role /\ "closed" \notin Typed
      BY <2>5 DEF TracedRoles, Role, Typed
    <3>3. Obj(Peek(0)) \subseteq heap
      BY <2>4 DEF Obj
    <3> QED BY <2>1, <2>2, <2>3, <2>5, <2>6, <2>8, <3>1, <3>2, <3>3, FieldCore
  <2> QED BY <2>7, <2>8
<1>10. CASE CloseUpvalue
  <2>1. /\ phase = "run" /\ frameCount > 0 /\ top - 1 > Frame /\ CloseUpvalues(top - 1)
        /\ stack' = Cut(stack, top - 1) /\ top' = top - 1
        /\ UNCHANGED <<heap, kind, isMarked, gcMark, gray, phase, pend>>
        /\ UNCHANGED <<closureOf, frameCount, globals, base, program>>
    BY <1>10 DEF CloseUpvalue, Running
  <2>2. top > 0 /\ top - 1 \in Nat
    BY <2>1, BoundAssumption DEF Core, StackOK, FramesOK, Frame
  <2>3. StackOK' /\ Live(stack', top', heap)
    BY <2>1, <2>2, PopLive, CoreRoots DEF Core
  <2>4. openUp' \subseteq openUp /\ loc' \in [Objects -> Nat] /\ UpvaluesOK'
    BY <2>1, <2>2, CloseOpen
  <2>5. Roots' \subseteq heap
    BY <2>1, <2>3, <2>4, RootsLive, CoreRoots
  <2>6. Graph'
    BY <2>1, <2>2, <2>5, CloseGraph
  <2>7. ControlOK' /\ Held'
    BY <2>1, RunHeld
  <2>8. FramesOK'
    BY <2>1, <2>4 DEF Core, FramesOK
  <2> QED BY <2>3, <2>4, <2>6, <2>7, <2>8 DEF Core, Graph
<1> QED BY <1>1, <1>2, <1>3, <1>4, <1>5, <1>6, <1>7, <1>8, <1>9, <1>10 DEF ClosureNext

-----------------------------------------------------------------------------
(* Classes *)

\* Kids(S) contains S and what the members of S refer to.
LEMMA KidsHave ==
  ASSUME NEW S, NEW o \in S, NEW r \in Role
  PROVE  o \in Kids(S) /\ slot[o][r] \subseteq Kids(S)
  BY DEF Kids

\* All fields of a live object are assigned.
LEMMA ReplaceGraph ==
  ASSUME Graph, NEW o \in heap, NEW refs, Fits(kind[o], refs),
         slot' = [slot EXCEPT ![o] = refs],
         UNCHANGED <<heap, kind, isMarked, gcMark, gray>>, Roots' \subseteq heap
  PROVE  Graph'
<1>1. o \in Objects /\ o # EmptyClass /\ heap \subseteq Addr /\ EmptyClass \in Addr
  BY AddressAssumption DEF Graph, HeapOK, Addr
<1>2. slot' \in [Addr -> [Role -> SUBSET Addr]] /\ \A w \in Addr : slot'[w] = IF w = o THEN refs ELSE slot[w]
  BY <1>1 DEF Graph, HeapOK, Fits
<1>3. HeapOK'
  <2>1. \A w \in Addr, r \in Role \ {"klass"} : EmptyClass \notin slot'[w][r]
    BY <1>2 DEF Graph, HeapOK, Fits
  <2> QED BY <1>2, <2>1 DEF Graph, HeapOK
<1>4. NoDangling'
  <2>1. \A w \in heap, r \in Role : slot'[w][r] \subseteq heap \union {EmptyClass}
    BY <1>1, <1>2 DEF Graph, NoDangling, Fits
  <2> QED BY <2>1 DEF NoDangling
<1>5. \A w \in heap' : \A r \in Role \ TracedRoles(kind'[w]) : slot'[w][r] = {}
  BY <1>1, <1>2 DEF Graph, FieldsOfKind, Fits
<1>6. \A w \in heap', r \in Typed : \A v \in slot'[w][r] : kind'[v] = FieldKind(r)
  BY <1>1, <1>2 DEF Graph, FieldsOfKind, Fits, Typed
<1>7. slot'[EmptyClass] = NoRefs /\ kind'[EmptyClass] = "class"
  BY <1>1, <1>2 DEF Graph, FieldsOfKind
<1> QED BY <1>3, <1>4, <1>5, <1>6, <1>7 DEF Graph, FieldsOfKind, Typed

\* The methods of the class of an instance are live closures.
LEMMA MethodsLive ==
  ASSUME Core, NEW k \in heap \union {EmptyClass}, NEW r \in {"methods", "initializer"},
         NEW m \in slot[k][r]
  PROVE  m \in heap /\ kind[m] = "closure" /\ k \in heap /\ r \in Role
<1>1. k # EmptyClass /\ r \in Role \ {"klass"}
  BY DEF Core, FieldsOfKind, NoRefs, Role
<1>2. m \in heap
  BY <1>1, CoreRoots, FieldLive
<1>3. kind[m] = "closure"
  BY <1>1 DEF Core, FieldsOfKind, FieldKind
<1> QED BY <1>1, <1>2, <1>3

\* Handlers of classes and instances up to their allocation.
LEMMA ClassSuspends ==
  ASSUME Core, \/ NewClass \/ NewObject \/ Method \/ SetProperty \/ Inherit
               \/ GetMethod \/ GetSuper
  PROVE  Core'
<1> Nil \in Value
  BY DEF Value
<1>1. CASE NewClass \/ NewObject
  <2>1. PICK op \in {"NewClass", "NewObject"} : Request(op, Nil, Nil, 0, 0)
    BY <1>1 DEF NewClass, NewObject
  <2>2. /\ FramesAside /\ program' = program /\ op \in Suspended
        /\ UNCHANGED <<heap, kind, slot, isMarked, stack, top>>
    BY <1>1 DEF NewClass, NewObject, FramesAside, Suspended
  <2>3. ControlOK' /\ pend'.op = op /\ pend'.a = Nil /\ pend'.b = Nil /\ phase' # "run"
    BY <2>1, <2>2, RequestControl
  <2>4. OperandCount' = 0
    BY <2>3 DEF OperandCount
  <2>5. Held'
    BY <2>3, <2>4 DEF Held, OperandsHeld, OperandKinds
  <2> QED BY <2>2, <2>3, <2>5, SuspendCore
<1>2. CASE Method \/ SetProperty
  <2>1. PICK op \in {"Method", "SetProperty"}, n \in {0, 1} :
          /\ Request(op, Peek(1), Peek(0), n, 0)
          /\ op = "Method" => IsKind(Peek(1), "class") /\ IsKind(Peek(0), "closure")
          /\ op = "SetProperty" => IsKind(Peek(1), "instance")
    BY <1>2 DEF Method, SetProperty
  <2>2. /\ FramesAside /\ program' = program /\ frameCount > 0 /\ Operands(2)
        /\ op \in Suspended /\ n \in Nat
        /\ UNCHANGED <<heap, kind, slot, isMarked, stack, top>>
    BY <1>2 DEF Method, SetProperty, FramesAside, Running, Suspended
  <2>3. Peek(0) \in Value /\ Peek(1) \in Value /\ 2 < top /\ top \in Nat
    BY <2>2, CoreOperands
  <2>4. ControlOK' /\ pend'.op = op /\ pend'.a = Peek(1) /\ pend'.b = Peek(0) /\ phase' # "run"
    BY <2>1, <2>2, <2>3, RequestControl
  <2>5. OperandCount' = 2
    BY <2>4 DEF OperandCount
  <2>6. Operands(2)' /\ frameCount' > 0 /\ Peek(0)' = Peek(0) /\ Peek(1)' = Peek(1)
    BY <2>2, SameOperands
  <2>7. {pend'.a, pend'.b} \ {Nil} \subseteq Protected'
    BY <2>2, <2>3, <2>4, <2>6, PeekProtected DEF Core, StackOK
  <2>8. OperandsHeld'
    BY <2>4, <2>5, <2>6, <2>7 DEF OperandsHeld
  <2>9. OperandKinds'
    BY <2>1, <2>2, <2>4 DEF OperandKinds, IsKind
  <2> QED BY <2>2, <2>4, <2>8, <2>9, SuspendCore DEF Held
<1>3. CASE Inherit
  <2>1. /\ Request("Inherit", Nil, Nil, 0, 0) /\ "Inherit" \in Suspended
        /\ IsKind(Peek(0), "class") /\ IsKind(Peek(1), "class")
        /\ FramesAside /\ program' = program /\ frameCount > 0 /\ Operands(2)
        /\ UNCHANGED <<heap, kind, slot, isMarked, stack, top>>
    BY <1>3 DEF Inherit, FramesAside, Running, Suspended
  <2>2. ControlOK' /\ pend'.op = "Inherit" /\ pend'.a = Nil /\ pend'.b = Nil /\ phase' # "run"
    BY <2>1, RequestControl
  <2>3. OperandCount' = 2
    BY <2>2 DEF OperandCount
  <2>4. Operands(2)' /\ frameCount' > 0 /\ Peek(0)' = Peek(0) /\ Peek(1)' = Peek(1)
    BY <2>1, SameOperands
  <2>5. IsKind(Peek(0), "class")' /\ IsKind(Peek(1), "class")'
    BY <2>1, <2>4 DEF IsKind
  <2>6. Held'
    BY <2>2, <2>3, <2>4, <2>5 DEF Held, OperandsHeld, OperandKinds
  <2> QED BY <2>1, <2>2, <2>6, SuspendCore
<1>4. CASE GetMethod
  <2>0. PICK k \in slot[Peek(0)]["klass"] : \E m \in slot[k]["methods"] :
          Request("BindMethod", Peek(0), m, 0, 0)
    BY <1>4 DEF GetMethod
  <2>1. PICK m \in slot[k]["methods"] : Request("BindMethod", Peek(0), m, 0, 0)
    BY <2>0
  <2>2. /\ FramesAside /\ program' = program /\ frameCount > 0 /\ Operands(1)
        /\ IsKind(Peek(0), "instance") /\ "BindMethod" \in Suspended
        /\ UNCHANGED <<heap, kind, slot, isMarked, stack, top>>
    BY <1>4 DEF GetMethod, FramesAside, Running, Suspended
  <2>3. top \in Nat /\ 1 < top /\ Peek(0) \in Value /\ Peek(0) \in heap
    BY <2>2, CoreOperands DEF IsKind
  <2>4. k \in heap \union {EmptyClass} /\ "klass" \in Role /\ "methods" \in Role
    BY <2>1, <2>3 DEF Core, NoDangling, Role
  <2>5. m \in heap /\ kind[m] = "closure" /\ m \in Value
    BY <2>1, <2>4, MethodsLive, CoreRoots DEF Value
  <2>6. ControlOK' /\ pend'.op = "BindMethod" /\ pend'.a = Peek(0) /\ pend'.b = m /\ phase' # "run"
    BY <2>1, <2>2, <2>3, <2>5, RequestControl
  <2>7. OperandCount' = 1
    BY <2>6 DEF OperandCount
  <2>8. Operands(1)' /\ frameCount' > 0 /\ Peek(0)' = Peek(0)
    BY <2>2, SameOperands
  <2>9. {pend'.a, pend'.b} \ {Nil} \subseteq Protected'
    <3>1. Peek(0) \in Roots'
      <4>1. Peek(0) \in StackRoots' \union {Nil} /\ Peek(0) # Nil
        BY <2>2, <2>3, CoreRoots, AddressAssumption DEF StackRoots, Peek
      <4> QED BY <4>1 DEF Roots
    <3>2. Peek(0) \in Kids(Roots') /\ k \in Kids(Roots')
      BY <2>1, <2>4, <3>1, KidsHave
    <3>3. Peek(0) \in Kids(Kids(Roots')) /\ m \in Kids(Kids(Roots'))
      BY <2>1, <2>4, <3>2, KidsHave
    <3>4. Kids(Kids(Roots')) \subseteq Kids(Kids(Kids(Roots')))
      BY DEF Kids
    <3> QED BY <2>2, <2>6, <3>3, <3>4, ProtectedAfter
  <2>10. OperandKinds'
    BY <2>2, <2>5, <2>6 DEF OperandKinds, IsKind
  <2>11. OperandsHeld'
    BY <2>6, <2>7, <2>8, <2>9 DEF OperandsHeld
  <2> QED BY <2>2, <2>6, <2>10, <2>11, SuspendCore DEF Held
<1>5. CASE GetSuper
  <2>1. /\ FramesAside /\ program' = program /\ frameCount > 0 /\ Operands(2) /\ phase = "run"
        /\ IsKind(Peek(0), "class") /\ IsKind(Peek(1), "instance")
        /\ UNCHANGED <<heap, kind, slot, isMarked>> /\ "BindMethod" \in Suspended
    BY <1>5 DEF GetSuper, FramesAside, Running, Suspended
  <2>2. PICK u \in slot[Current]["upvalues"] : Holds(u, Peek(0))
    BY <1>5 DEF GetSuper
  <2>3. /\ top \in Nat /\ 2 < top /\ \A w \in openUp : loc[w] < top - 2
        /\ Peek(0) \in Value /\ Peek(0) \in heap /\ Peek(1) \in Value /\ Peek(1) \in heap
    BY <2>1, CoreOperands DEF IsKind
  <2>4. \A w \in openUp : loc[w] < top - 1
    BY <2>3 DEF Core, FramesOK
  <2>5. ASSUME NEW m \in slot[Peek(0)]["methods"], Request("BindMethod", Peek(1), m, 0, 0),
               stack' = Cut(stack, top - 1), top' = top - 1
        PROVE  Core'
    <3>1. /\ m \in heap /\ kind[m] = "closure" /\ m \in Value
          /\ "methods" \in Role /\ "upvalues" \in Role /\ "closed" \in Role
      BY <2>3, <2>5, MethodsLive, CoreRoots DEF Value, Role
    <3>2. ControlOK' /\ pend'.op = "BindMethod" /\ pend'.a = Peek(1) /\ pend'.b = m /\ phase' # "run"
      BY <2>1, <2>3, <2>5, <3>1, RequestControl
    <3>3. OperandCount' = 1
      BY <3>2 DEF OperandCount
    <3>4. StackOK' /\ Live(stack', top', heap)
      BY <2>3, <2>5, PopLive, CoreRoots DEF Core
    <3>5. \A i \in 0 .. top - 2 : stack'[i] = stack[i]
      BY <2>3, <2>5, BoundAssumption DEF Cut, Core, StackOK, Slots
    <3>6. Peek(0)' = Peek(1)
      BY <2>3, <2>5, <3>5 DEF Peek
    <3>7. Operands(1)' /\ frameCount' > 0
      <4>1. Frame' = Frame /\ openUp' = openUp /\ loc' = loc /\ frameCount' = frameCount
        BY <2>1 DEF FramesAside, Frame
      <4>2. top' - 1 = top - 2
        BY <2>3, <2>5
      <4> QED BY <2>1, <4>1, <4>2 DEF Operands
    <3>8. ASSUME NEW i \in 0 .. top - 2, stack[i] \in heap
          PROVE  stack[i] \in Roots'
      <4>1. stack[i] # Nil /\ i \in 0 .. top' - 1
        BY <2>3, <2>5, <3>8, CoreRoots, AddressAssumption
      <4> QED BY <3>5, <4>1 DEF Roots, StackRoots
    <3>9. Peek(1) \in Roots' /\ Current \in Roots'
      <4>1. Peek(1) \in Roots'
        BY <2>3, <3>8 DEF Peek
      <4>2. Current \in FrameRoots'
        BY <2>1, BoundAssumption DEF FramesAside, FrameRoots, Current, Core, FramesOK
      <4> QED BY <4>1, <4>2 DEF Roots
    <3>10. Peek(0) \in Kids(Kids(Roots'))
      <4>1. CASE u \in openUp
        <5>1. loc[u] \in 0 .. top - 2 /\ Peek(0) = stack[loc[u]]
          BY <2>2, <2>3, <4>1 DEF Holds, Core, FramesOK
        <5>2. Peek(0) \in Roots'
          BY <2>3, <3>8, <5>1
        <5> QED BY <5>2 DEF Kids
      <4>2. CASE u \notin openUp
        <5>1. Peek(0) \in slot[u]["closed"]
          BY <2>2, <2>3, <4>2, CoreRoots, AddressAssumption DEF Holds, Obj
        <5>2. u \in Kids(Roots')
          BY <2>2, <3>1, <3>9, KidsHave
        <5> QED BY <3>1, <5>1, <5>2, KidsHave
      <4> QED BY <4>1, <4>2
    <3>11. {pend'.a, pend'.b} \ {Nil} \subseteq Protected'
      <4>1. m \in Kids(Kids(Kids(Roots')))
        BY <3>1, <3>10, <2>5, KidsHave
      <4>2. Peek(1) \in Kids(Kids(Kids(Roots')))
        BY <3>9 DEF Kids
      <4> QED BY <2>1, <3>2, <4>1, <4>2, ProtectedAfter
    <3>12. OperandKinds'
      BY <2>1, <3>1, <3>2 DEF OperandKinds, IsKind
    <3>13. OperandsHeld'
      BY <3>2, <3>3, <3>6, <3>7, <3>11 DEF OperandsHeld
    <3> QED BY <2>1, <2>4, <2>5, <3>2, <3>4, <3>12, <3>13, StackCore DEF Held
  <2>6. ASSUME PopReplace(1, Nil), UNCHANGED <<phase, pend>>
        PROVE  Core'
    <3>1. StackOK' /\ Live(stack', top', heap) /\ top' = top - 1
      BY <2>3, <2>6, PopReplaceLive, CoreRoots DEF Core, Value
    <3>2. ControlOK' /\ Held'
      BY <2>1, <2>6, RunHeld
    <3> QED BY <2>1, <2>4, <3>1, <3>2, StackCore
  <2> QED BY <1>5, <2>5, <2>6 DEF GetSuper
<1> QED BY <1>1, <1>2, <1>3, <1>4, <1>5

\* Classes, instances and bound methods.
LEMMA ClassStep ==
  ASSUME Core, ClassNext
  PROVE  Core'
<1>1. CASE NewClassPush \/ NewObjectPush
  <2>0. PICK k \in {"class", "instance"},
             refs \in {NoRefs, [NoRefs EXCEPT !["klass"] = {EmptyClass}]} :
          /\ \E o \in Fresh(k) : Put(o, k, refs) /\ Push(o)
          /\ k = "class" => refs = NoRefs
    BY <1>1 DEF NewClassPush, NewObjectPush
  <2>1. PICK o \in Fresh(k) : Put(o, k, refs) /\ Push(o)
    BY <2>0
  <2>2. k \in Kind /\ o \in Objects /\ o \notin heap /\ o \in Value
    BY FreshObjects DEF Kind, Core, ControlOK, Value
  <2>3. FramesAside /\ program' = program /\ Done
    BY <1>1 DEF NewClassPush, NewObjectPush, FramesAside
  <2>4. /\ StackOK' /\ Live(stack', top', heap \union {o})
        /\ top \in Nat /\ top' = top + 1 /\ Peek(0)' = o
    <3>1. Live(stack, top, heap \union {o})
      BY CoreRoots DEF Live
    <3> QED BY <2>1, <2>2, <3>1, PushLive DEF Core
  <2>5. Fits(k, refs)
    <3>1. kind[EmptyClass] = "class" /\ EmptyClass \in Addr
      BY DEF Core, FieldsOfKind, Addr
    <3>2. CASE refs = NoRefs
      BY <3>2, NoRefsFit
    <3>3. CASE refs = [NoRefs EXCEPT !["klass"] = {EmptyClass}] /\ k = "instance"
      <4>1. /\ refs \in [Role -> SUBSET Addr]
            /\ \A r \in Role : refs[r] = IF r = "klass" THEN {EmptyClass} ELSE {}
        BY <3>1, <3>3 DEF NoRefs, Role
      <4>2. "klass" \in TracedRoles(k) /\ FieldKind("klass") = "class" /\ Typed \subseteq Role
        BY <3>3 DEF TracedRoles, FieldKind, Typed, Role
      <4> QED BY <3>1, <4>1, <4>2 DEF Fits
    <3> QED BY <2>0, <3>2, <3>3
  <2>6. ControlOK' /\ Held'
    BY <2>3, DoneHeld
  <2>7. \A u \in openUp : loc[u] < top'
    BY <2>4 DEF Core, UpvaluesOK, FramesOK
  <2> QED BY <2>1, <2>2, <2>3, <2>4, <2>5, <2>6, <2>7, PutCore
<1>2. CASE MethodEnd
  <2>1. PICK old \in slot[pend.a]["methods"] \union {Nil} :
          slot' = [slot EXCEPT
                     ![pend.a]["methods"] = (@ \ {old}) \union {pend.b},
                     ![pend.a]["initializer"] = IF pend.n = 1 THEN {pend.b} ELSE @]
    BY <1>2 DEF MethodEnd
  <2>2. /\ stack' = Cut(stack, top - 1) /\ top' = top - 1 /\ Done
        /\ UNCHANGED <<heap, kind, isMarked>> /\ FramesAside /\ program' = program
    BY <1>2 DEF MethodEnd, FramesAside
  <2>3. /\ frameCount > 0 /\ Operands(2)
        /\ IsKind(pend.a, "class") /\ IsKind(pend.b, "closure")
    BY <1>2 DEF MethodEnd, Resumed, Core, Held, OperandsHeld, OperandKinds, OperandCount
  <2>4. top \in Nat /\ 2 < top /\ \A u \in openUp : loc[u] < top - 2
    BY <2>3, CoreOperands
  <2>5. StackOK' /\ Live(stack', top', heap)
    BY <2>2, <2>4, PopLive, CoreRoots DEF Core
  <2>6. Roots' \subseteq heap
    BY <2>2, <2>5, AsideRoots DEF FramesAside
  <2> DEFINE a == pend.a
             b == pend.b
             M == (slot[a]["methods"] \ {old}) \union {b}
             I == IF pend.n = 1 THEN {b} ELSE slot[a]["initializer"]
             refs == [slot[a] EXCEPT !["methods"] = M, !["initializer"] = I]
  <2>7. a \in heap /\ a \in Addr /\ kind[a] = "class" /\ b \in heap /\ kind[b] = "closure"
    BY <2>3, CoreRoots DEF IsKind, Addr
  <2>8. slot' = [slot EXCEPT ![a] = refs]
    <3>1. slot \in [Addr -> [Role -> SUBSET Addr]]
      BY DEF Core, HeapOK
    <3> QED BY <2>1, <2>7, <3>1 DEF Role
  <2>9. slot[a] \in [Role -> SUBSET Addr] /\ \A r \in Role \ {"klass"} : slot[a][r] \subseteq heap
    BY <2>7, CoreRoots, FieldLive DEF Core, HeapOK
  <2>10. /\ "methods" \in Role \ {"klass"} /\ "initializer" \in Role \ {"klass"}
         /\ "methods" \in TracedRoles(kind[a]) /\ "initializer" \in TracedRoles(kind[a])
         /\ FieldKind("methods") = "closure" /\ FieldKind("initializer") = "closure"
         /\ Typed \subseteq Role
    BY <2>7 DEF Role, TracedRoles, FieldKind, Typed
  <2>11. M \subseteq heap /\ I \subseteq heap
    BY <2>7, <2>9, <2>10
  <2>12. \A v \in M \union I : kind[v] = "closure"
    BY <2>7, <2>10 DEF Core, FieldsOfKind
  <2>13. heap \subseteq Objects /\ heap \subseteq Addr
    BY CoreRoots DEF Addr
  <2> HIDE DEF a, b, M, I
  <2>14. /\ refs \in [Role -> SUBSET Addr]
         /\ \A r \in Role : refs[r] = IF r = "methods" THEN M ELSE IF r = "initializer" THEN I ELSE slot[a][r]
    BY <2>9, <2>10, <2>11, <2>13
  <2> HIDE DEF refs
  <2>15. Fits(kind[a], refs)
    <3>1. /\ \A r \in Role \ {"klass"} : EmptyClass \notin refs[r]
          /\ \A r \in Role : refs[r] \subseteq heap \union {EmptyClass}
      BY <2>7, <2>9, <2>10, <2>11, <2>13, <2>14, AddressAssumption DEF Core, NoDangling
    <3>2. \A r \in Role \ TracedRoles(kind[a]) : refs[r] = {}
      BY <2>7, <2>10, <2>14 DEF Core, FieldsOfKind
    <3>3. \A r \in Typed : \A v \in refs[r] : kind[v] = FieldKind(r)
      <4> TAKE r \in Typed
      <4>1. CASE r \in {"methods", "initializer"}
        BY <2>10, <2>12, <2>14, <4>1
      <4>2. CASE r \notin {"methods", "initializer"}
        <5>1. refs[r] = slot[a][r]
          BY <2>10, <2>14, <4>2
        <5> QED BY <2>7, <5>1 DEF Core, FieldsOfKind, Typed
      <4> QED BY <4>1, <4>2
    <3> QED BY <2>14, <3>1, <3>2, <3>3 DEF Fits
  <2>16. Graph'
    BY <2>2, <2>6, <2>7, <2>8, <2>15, ReplaceGraph, CoreRoots DEF FramesAside
  <2>17. ControlOK' /\ Held'
    BY <2>2, DoneHeld
  <2>18. \A u \in openUp : loc[u] < top'
    BY <2>2, <2>4 DEF Core, FramesOK, UpvaluesOK
  <2> QED BY <2>2, <2>5, <2>16, <2>17, <2>18, AsideCore
<1>3. CASE InheritCopy
  <2>1. PICK m \in slot[Peek(1)]["methods"] :
          slot' = [slot EXCEPT ![Peek(0)]["methods"] = @ \union {m}]
    BY <1>3 DEF InheritCopy
  <2>2. /\ Request("Inherit", Nil, Nil, 0, 0) /\ "Inherit" \in Suspended /\ Nil \in Value
        /\ UNCHANGED <<heap, kind, isMarked, stack, top>> /\ FramesAside /\ program' = program
    BY <1>3 DEF InheritCopy, FramesAside, Suspended, Value
  <2>3. /\ frameCount > 0 /\ Operands(2)
        /\ IsKind(Peek(0), "class") /\ IsKind(Peek(1), "class")
    BY <1>3 DEF InheritCopy, Resumed, Core, Held, OperandsHeld, OperandKinds, OperandCount
  <2> DEFINE S == slot[Peek(0)]["methods"] \union {m}
  <2>4. S \subseteq heap /\ \A v \in S : kind[v] = "closure"
    <3>1. Peek(0) \in heap /\ Peek(1) \in heap
      BY <2>3 DEF IsKind
    <3>2. \A v \in slot[Peek(0)]["methods"] : v \in heap /\ kind[v] = "closure"
      BY <3>1, MethodsLive
    <3>3. m \in heap /\ kind[m] = "closure"
      BY <3>1, MethodsLive
    <3> QED BY <3>2, <3>3
  <2>5. /\ Peek(0) \in heap /\ "methods" \in TracedRoles(kind[Peek(0)]) \ {"klass"} /\ "methods" \in Role
        /\ FieldKind("methods") = "closure"
    BY <2>3 DEF IsKind, TracedRoles, Role, FieldKind
  <2>6. ControlOK' /\ pend'.op = "Inherit" /\ pend'.a = Nil /\ pend'.b = Nil /\ phase' # "run"
    BY <2>2, RequestControl
  <2>7. OperandCount' = 2
    BY <2>6 DEF OperandCount
  <2>8. Operands(2)' /\ frameCount' > 0 /\ Peek(0)' = Peek(0) /\ Peek(1)' = Peek(1)
    BY <2>2, <2>3, SameOperands
  <2>9. IsKind(Peek(0), "class")' /\ IsKind(Peek(1), "class")'
    BY <2>2, <2>3, <2>8 DEF IsKind
  <2>10. Held'
    BY <2>6, <2>7, <2>8, <2>9 DEF Held, OperandsHeld, OperandKinds
  <2>11. StackOK' /\ Live(stack', top', heap) /\ \A u \in openUp : loc[u] < top'
    BY <2>2, CoreRoots DEF Core, StackOK, UpvaluesOK
  <2>12. slot' = [slot EXCEPT ![Peek(0)]["methods"] = S]
    BY <2>1
  <2> HIDE DEF S
  <2> QED BY <2>2, <2>4, <2>5, <2>6, <2>10, <2>11, <2>12, FieldCore
<1>4. CASE InheritEnd
  <2>1. /\ stack' = Cut(stack, top - 1) /\ top' = top - 1 /\ Done
        /\ UNCHANGED <<heap, kind, slot, isMarked>> /\ FramesAside /\ program' = program
    BY <1>4 DEF InheritEnd, FramesAside
  <2>2. frameCount > 0 /\ Operands(2)
    BY <1>4 DEF InheritEnd, Resumed, Core, Held, OperandsHeld, OperandCount
  <2>3. top \in Nat /\ 2 < top /\ \A u \in openUp : loc[u] < top - 2
    BY <2>2, CoreOperands
  <2>4. StackOK' /\ Live(stack', top', heap)
    BY <2>1, <2>3, PopLive, CoreRoots DEF Core
  <2>5. ControlOK' /\ Held'
    BY <2>1, DoneHeld
  <2>6. \A u \in openUp : loc[u] < top'
    BY <2>1, <2>3 DEF Core, FramesOK, UpvaluesOK
  <2> QED BY <2>1, <2>4, <2>5, <2>6, StackCore
<1>5. CASE SetPropertyEnd
  <2>1. PICK old \in slot[pend.a]["fields"] \union {Nil} :
          slot' = [slot EXCEPT ![pend.a]["fields"] = (@ \ {old}) \union Obj(pend.b)]
    BY <1>5 DEF SetPropertyEnd
  <2>2. /\ Done /\ UNCHANGED <<heap, kind, isMarked>> /\ FramesAside /\ program' = program
        /\ PopReplace(1, pend.a) \/ PopReplace(1, pend.b)
    BY <1>5 DEF SetPropertyEnd, FramesAside
  <2>3. /\ frameCount > 0 /\ Operands(2) /\ IsKind(pend.a, "instance")
        /\ pend.a = Peek(1) /\ pend.b = Peek(0) /\ pend.a \in Value /\ pend.b \in Value
    BY <1>5 DEF SetPropertyEnd, Resumed, Core, ControlOK, Held, OperandsHeld, OperandKinds, OperandCount
  <2>4. /\ top \in Nat /\ 2 < top /\ \A u \in openUp : loc[u] < top - 2
        /\ pend.a \in heap \union {Nil} /\ pend.b \in heap \union {Nil}
    BY <2>3, CoreOperands
  <2> DEFINE S == (slot[pend.a]["fields"] \ {old}) \union Obj(pend.b)
  <2>5. S \subseteq heap
    BY <2>3, <2>4, CoreRoots, FieldLive DEF IsKind, Role, Obj
  <2>6. StackOK' /\ Live(stack', top', heap) /\ top' = top - 1
    BY <2>2, <2>3, <2>4, PopReplaceLive, CoreRoots DEF Core
  <2>7. ControlOK' /\ Held'
    BY <2>2, DoneHeld
  <2>8. \A u \in openUp : loc[u] < top'
    BY <2>4, <2>6 DEF Core, FramesOK, UpvaluesOK
  <2>9. /\ pend.a \in heap /\ "fields" \in TracedRoles(kind[pend.a]) \ {"klass"} /\ "fields" \in Role
        /\ "fields" \notin Typed
    BY <2>3 DEF IsKind, TracedRoles, Role, Typed
  <2>10. slot' = [slot EXCEPT ![pend.a]["fields"] = S]
    BY <2>1
  <2> HIDE DEF S
  <2> QED BY <2>2, <2>5, <2>6, <2>7, <2>8, <2>9, <2>10, FieldCore
<1>6. CASE GetField
  <2>1. frameCount > 0 /\ Operands(1) /\ IsKind(Peek(0), "instance") /\ MovesOnly /\ phase = "run"
    BY <1>6 DEF GetField, Running
  <2>2. PICK v \in slot[Peek(0)]["fields"] \union {Nil} : PopReplace(0, v)
    BY <1>6 DEF GetField
  <2>3. top \in Nat /\ 1 < top /\ \A u \in openUp : loc[u] < top - 1
    BY <2>1, CoreOperands
  <2>4. v \in heap \union {Nil} /\ v \in Value
    BY <2>1, <2>2, CoreRoots, FieldLive DEF IsKind, Role, Value
  <2>5. StackOK' /\ Live(stack', top', heap) /\ top' = top - 0
    BY <2>2, <2>3, <2>4, PopReplaceLive, CoreRoots DEF Core
  <2>6. \A u \in openUp : loc[u] < top'
    BY <2>3, <2>5 DEF Core, UpvaluesOK
  <2> QED BY <2>1, <2>5, <2>6, MovesCore
<1>7. CASE BindMethodEnd
  <2> DEFINE refs == [NoRefs EXCEPT !["receiver"] = {pend.a}, !["method"] = {pend.b}]
  <2>1. PICK o \in Fresh("bound") : Put(o, "bound", refs) /\ PopReplace(0, o)
    BY <1>7 DEF BindMethodEnd
  <2>2. Done /\ FramesAside /\ program' = program
    BY <1>7 DEF BindMethodEnd, FramesAside
  <2>3. /\ frameCount > 0 /\ Operands(1)
        /\ IsKind(pend.a, "instance") /\ IsKind(pend.b, "closure")
    BY <1>7 DEF BindMethodEnd, Resumed, Core, Held, OperandsHeld, OperandKinds, OperandCount
  <2>4. top \in Nat /\ 1 < top /\ \A u \in openUp : loc[u] < top - 1
    BY <2>3, CoreOperands
  <2>5. "bound" \in Kind /\ o \in Objects /\ o \notin heap /\ o \in Value
    BY FreshObjects DEF Kind, Core, ControlOK, Value
  <2>6. StackOK' /\ Live(stack', top', heap \union {o}) /\ top' = top - 0
    <3>1. Live(stack, top, heap \union {o})
      BY CoreRoots DEF Live
    <3> QED BY <2>1, <2>4, <2>5, <3>1, PopReplaceLive DEF Core
  <2>7. Fits("bound", refs)
    <3>1. /\ pend.a \in heap /\ pend.b \in heap /\ kind[pend.b] = "closure"
          /\ heap \subseteq Addr /\ EmptyClass \notin heap
      BY <2>3, CoreRoots, AddressAssumption DEF IsKind, Addr
    <3>2. /\ refs \in [Role -> SUBSET Addr]
          /\ \A r \in Role : refs[r] = IF r = "receiver" THEN {pend.a}
                                       ELSE IF r = "method" THEN {pend.b} ELSE {}
      BY <3>1 DEF NoRefs, Role
    <3>3. /\ "receiver" \in TracedRoles("bound") /\ "method" \in TracedRoles("bound")
          /\ FieldKind("method") = "closure" /\ Typed \subseteq Role /\ "receiver" \notin Typed
      BY DEF TracedRoles, FieldKind, Typed, Role
    <3> HIDE DEF refs
    <3> QED BY <3>1, <3>2, <3>3 DEF Fits
  <2>8. ControlOK' /\ Held'
    BY <2>2, DoneHeld
  <2>9. \A u \in openUp : loc[u] < top'
    BY <2>4, <2>6 DEF Core, UpvaluesOK
  <2> HIDE DEF refs
  <2> QED BY <2>1, <2>2, <2>5, <2>6, <2>7, <2>8, <2>9, PutCore
<1> QED BY <1>1, <1>2, <1>3, <1>4, <1>5, <1>6, <1>7, ClassSuspends DEF ClassNext

-----------------------------------------------------------------------------
(* Calls *)

\* A new frame.
LEMMA EnterCore ==
  ASSUME Core, NEW H \in SUBSET Objects, heap \subseteq H, NEW c \in H, NEW argc \in Nat,
         NEW s \in [Slots -> Value], NEW t \in 0 .. StackMax, argc < t,
         Live(s, t, H), Enter(c, argc, s, t),
         UNCHANGED <<openUp, globals, loc>>, \A u \in openUp : kind'[u] = kind[u] /\ loc[u] < t
  PROVE  StackOK' /\ FramesOK' /\ UpvaluesOK' /\ Roots' \subseteq H
<1>1. PICK n \in 0 .. MaxPadding : t + n <= StackMax /\ top' = t + n
  BY DEF Enter
<1>2. /\ frameCount < FramesMax
      /\ stack' = Cut(s, t)
      /\ closureOf' = [closureOf EXCEPT ![frameCount] = c]
      /\ base' = [base EXCEPT ![frameCount] = t - 1 - argc]
      /\ frameCount' = frameCount + 1
  BY DEF Enter
<1>3. /\ n \in Nat /\ t \in Nat /\ top' \in 0 .. StackMax /\ t <= top'
      /\ t - 1 - argc \in Nat /\ frameCount \in 0 .. FramesMax - 1 /\ c \in Value
  BY <1>1, <1>2, ProgramAssumption, BoundAssumption DEF Core, FramesOK, Value
<1>4. StackOK'
  BY <1>2, <1>3, CutType DEF StackOK
<1>5. FramesOK'
  BY <1>2, <1>3, BoundAssumption DEF Core, FramesOK
<1>6. Live(stack', top', H)
  BY <1>2, <1>3, BoundAssumption DEF Cut, Live, Slots
<1>7. Framed(closureOf', frameCount', H)
  <2> SUFFICES ASSUME NEW i \in 0 .. frameCount' - 1
               PROVE  closureOf'[i] \in H
    BY DEF Framed
  <2>1. i \in 0 .. FramesMax - 1 /\ closureOf'[i] = IF i = frameCount THEN c ELSE closureOf[i]
    BY <1>2, <1>3, BoundAssumption DEF Core, FramesOK
  <2>2. i # frameCount => i \in 0 .. frameCount - 1
    BY <1>2, <1>3
  <2> QED BY <2>1, <2>2, CoreRoots DEF Framed
<1>8. Roots' \subseteq H
  BY <1>6, <1>7, RootsLive, CoreRoots
<1>9. UpvaluesOK'
  BY <1>3 DEF Core, UpvaluesOK, FramesOK
<1> QED BY <1>4, <1>5, <1>8, <1>9

\* call() from an instruction that allocates nothing.
LEMMA CallCore ==
  ASSUME Core, phase = "run", CallOnly, NEW c \in heap, NEW argc \in Nat,
         NEW s \in [Slots -> Value], NEW t \in 0 .. StackMax, argc < t,
         Live(s, t, heap), Enter(c, argc, s, t), \A u \in openUp : loc[u] < t
  PROVE  Core'
<1>1. StackOK' /\ FramesOK' /\ UpvaluesOK' /\ Roots' \subseteq heap
  <2>1. heap \in SUBSET Objects
    BY CoreRoots
  <2> QED BY <2>1, EnterCore DEF CallOnly, gcVars
<1>2. Graph'
  BY <1>1, SameGraph, CoreRoots DEF CallOnly, gcVars
<1>3. ControlOK' /\ Held'
  BY RunHeld DEF CallOnly, gcVars
<1> QED BY <1>1, <1>2, <1>3 DEF Core, Graph

\* callValue() on a closure or on a bound method.
LEMMA EnterValueCore ==
  ASSUME Core, phase = "run", CallOnly, NEW c, NEW argc \in Nat, argc < top,
         NEW s \in [Slots -> Value], Live(s, top, heap), EnterValue(c, argc, s)
  PROVE  Core'
<1>1. top \in 0 .. StackMax /\ top \in Nat /\ \A u \in openUp : loc[u] < top
  BY BoundAssumption DEF Core, StackOK, UpvaluesOK
<1>2. CASE IsKind(c, "closure") /\ Enter(c, argc, s, top)
  BY <1>1, <1>2, CallCore DEF IsKind
<1>3. CASE IsKind(c, "bound") /\ \E r \in slot[c]["receiver"], m \in slot[c]["method"] :
             Enter(m, argc, [s EXCEPT ![top - 1 - argc] = r], top)
  <2>1. PICK r \in slot[c]["receiver"], m \in slot[c]["method"] :
          Enter(m, argc, [s EXCEPT ![top - 1 - argc] = r], top)
    BY <1>3
  <2>2. r \in heap /\ m \in heap /\ r \in Value
    BY <1>3, <2>1, CoreRoots, FieldLive DEF IsKind, Role, Value
  <2>3. [s EXCEPT ![top - 1 - argc] = r] \in [Slots -> Value]
    BY <2>2
  <2>4. Live([s EXCEPT ![top - 1 - argc] = r], top, heap)
    BY <1>1, <2>2, BoundAssumption DEF Live, Slots
  <2> QED BY <1>1, <2>1, <2>2, <2>3, <2>4, CallCore
<1> QED BY <1>2, <1>3 DEF EnterValue

\* Calls and returns.
LEMMA CallStep ==
  ASSUME Core, CallNext
  PROVE  Core'
<1>0. /\ stack \in [Slots -> Value] /\ top \in 0 .. StackMax /\ top \in Nat
      /\ StackMax \in Nat /\ Live(stack, top, heap)
  BY CoreRoots, BoundAssumption DEF Core, StackOK
<1>1. CASE Call
  <2>1. PICK argc \in 0 .. StackMax : Operands(argc + 1) /\ EnterValue(Peek(argc), argc, stack)
    BY <1>1 DEF Call
  <2>2. phase = "run" /\ frameCount > 0 /\ CallOnly
    BY <1>1 DEF Call, Running
  <2>3. argc \in Nat /\ argc + 1 \in Nat
    BY <1>0
  <2>4. argc < top
    BY <1>0, <2>1, <2>2, <2>3, CoreOperands
  <2> QED BY <1>0, <2>1, <2>2, <2>3, <2>4, EnterValueCore
<1>2. CASE Invoke
  <2>1. PICK argc \in 0 .. StackMax :
          /\ Operands(argc + 1)
          /\ IsKind(Peek(argc), "instance")
          /\ \/ \E c \in slot[Peek(argc)]["fields"] :
                 EnterValue(c, argc, [stack EXCEPT ![top - 1 - argc] = c])
             \/ \E k \in slot[Peek(argc)]["klass"] : \E m \in slot[k]["methods"] :
                 Enter(m, argc, stack, top)
    BY <1>2 DEF Invoke
  <2>2. phase = "run" /\ frameCount > 0 /\ CallOnly
    BY <1>2 DEF Invoke, Running
  <2>3. argc \in Nat /\ argc + 1 \in Nat
    BY <1>0
  <2>4. argc < top /\ Peek(argc) \in heap
    BY <1>0, <2>1, <2>2, <2>3, CoreOperands DEF IsKind
  <2>5. ASSUME NEW c \in slot[Peek(argc)]["fields"],
               EnterValue(c, argc, [stack EXCEPT ![top - 1 - argc] = c])
        PROVE  Core'
    <3>1. c \in heap /\ c \in Value
      BY <2>4, <2>5, CoreRoots, FieldLive DEF Role, Value
    <3>2. [stack EXCEPT ![top - 1 - argc] = c] \in [Slots -> Value]
      BY <1>0, <3>1
    <3>3. Live([stack EXCEPT ![top - 1 - argc] = c], top, heap)
      BY <1>0, <2>3, <2>4, <3>1 DEF Live, Slots
    <3> QED BY <2>2, <2>3, <2>4, <2>5, <3>2, <3>3, EnterValueCore
  <2>6. ASSUME NEW k \in slot[Peek(argc)]["klass"], NEW m \in slot[k]["methods"],
               Enter(m, argc, stack, top)
        PROVE  Core'
    <3>1. k \in heap \union {EmptyClass}
      BY <2>4 DEF Core, NoDangling, Role
    <3>2. m \in heap
      BY <3>1, MethodsLive
    <3> QED BY <1>0, <2>2, <2>3, <2>4, <2>6, <3>2, CallCore DEF Core, UpvaluesOK
  <2> QED BY <2>1, <2>5, <2>6
<1>3. CASE SuperInvoke
  <2>1. PICK argc \in 0 .. StackMax, m \in slot[Peek(0)]["methods"] :
          Operands(argc + 2) /\ Enter(m, argc, stack, top - 1)
    BY <1>3 DEF SuperInvoke
  <2>2. phase = "run" /\ frameCount > 0 /\ CallOnly /\ Peek(0) \in heap
    BY <1>3 DEF SuperInvoke, Running, IsKind
  <2>3. argc \in Nat /\ argc + 2 \in Nat
    BY <1>0
  <2>4. argc + 2 < top /\ \A u \in openUp : loc[u] < top - (argc + 2)
    BY <2>1, <2>2, <2>3, CoreOperands
  <2>5. /\ top - 1 \in 0 .. StackMax /\ argc < top - 1 /\ Live(stack, top - 1, heap)
        /\ \A u \in openUp : loc[u] < top - 1
    BY <1>0, <2>3, <2>4 DEF Live, Core, FramesOK
  <2>6. m \in heap
    BY <2>1, <2>2, MethodsLive
  <2> QED BY <1>0, <2>1, <2>2, <2>3, <2>5, <2>6, CallCore
<1>4. CASE CallClass
  <2>1. PICK argc \in 0 .. StackMax :
          /\ Operands(argc + 1) /\ IsKind(Peek(argc), "class")
          /\ Request("CallClass", Peek(argc), Nil, argc, 0)
    BY <1>4 DEF CallClass
  <2>2. /\ FramesAside /\ program' = program /\ frameCount > 0 /\ "CallClass" \in Suspended /\ Nil \in Value
        /\ UNCHANGED <<heap, kind, slot, isMarked, stack, top>>
    BY <1>4 DEF CallClass, FramesAside, Running, Suspended, Value
  <2>3. argc \in Nat /\ argc + 1 \in Nat
    BY <1>0
  <2>4. argc + 1 < top /\ Peek(argc) \in Value
    BY <2>1, <2>2, <2>3, CoreOperands
  <2>5. /\ ControlOK' /\ pend'.op = "CallClass" /\ pend'.a = Peek(argc) /\ pend'.b = Nil
        /\ pend'.n = argc /\ phase' # "run"
    BY <2>1, <2>2, <2>3, <2>4, RequestControl
  <2>6. OperandCount' = argc + 1
    BY <2>5 DEF OperandCount
  <2>7. Operands(argc + 1)' /\ frameCount' > 0 /\ Peek(argc)' = Peek(argc)
    BY <2>1, <2>2, <2>3, SameOperands
  <2>8. {pend'.a, pend'.b} \ {Nil} \subseteq Protected'
    <3>1. Peek(argc)' \in Protected' \union {Nil}
      BY <1>0, <2>2, <2>3, <2>4, PeekProtected DEF StackOK
    <3> QED BY <2>5, <2>7, <3>1
  <2>9. OperandKinds'
    BY <2>1, <2>2, <2>5 DEF OperandKinds, IsKind
  <2>10. OperandsHeld'
    BY <2>5, <2>6, <2>7, <2>8 DEF OperandsHeld
  <2> QED BY <2>2, <2>5, <2>9, <2>10, SuspendCore DEF Held
<1>5. CASE InvokeClass
  <2>1. PICK argc \in 0 .. StackMax :
          /\ Operands(argc + 1) /\ IsKind(Peek(argc), "instance")
          /\ \E c \in slot[Peek(argc)]["fields"] :
               /\ IsKind(c, "class")
               /\ Request("CallClass", c, Nil, argc, 0)
               /\ stack' = [stack EXCEPT ![top - 1 - argc] = c]
    BY <1>5 DEF InvokeClass
  <2>2. PICK c \in slot[Peek(argc)]["fields"] :
          /\ IsKind(c, "class")
          /\ Request("CallClass", c, Nil, argc, 0)
          /\ stack' = [stack EXCEPT ![top - 1 - argc] = c]
    BY <2>1
  <2>3. /\ FramesAside /\ program' = program /\ frameCount > 0 /\ "CallClass" \in Suspended /\ Nil \in Value
        /\ UNCHANGED <<heap, kind, slot, isMarked, top>>
    BY <1>5 DEF InvokeClass, FramesAside, Running, Suspended, Value
  <2>4. argc \in Nat /\ argc + 1 \in Nat /\ c \in heap /\ c \in Value
    BY <1>0, <2>2, CoreRoots DEF IsKind, Value
  <2>5. argc + 1 < top /\ top - 1 - argc \in 0 .. top - 1
    <3>1. argc + 1 < top
      BY <2>1, <2>3, <2>4, CoreOperands
    <3> QED BY <1>0, <2>4, <3>1
  <2>6. StackOK' /\ Live(stack', top', heap) /\ stack'[top - 1 - argc] = c
    BY <1>0, <2>2, <2>3, <2>4, <2>5 DEF StackOK, Live, Slots
  <2>7. /\ ControlOK' /\ pend'.op = "CallClass" /\ pend'.a = c /\ pend'.b = Nil
        /\ pend'.n = argc /\ phase' # "run"
    BY <2>2, <2>3, <2>4, RequestControl
  <2>8. OperandCount' = argc + 1
    BY <2>7 DEF OperandCount
  <2>9. Operands(argc + 1)' /\ frameCount' > 0 /\ Peek(argc)' = c
    BY <2>1, <2>3, <2>6 DEF Operands, Frame, FramesAside, Peek
  <2>10. {pend'.a, pend'.b} \ {Nil} \subseteq Protected'
    <3>1. Peek(argc)' \in Protected' \union {Nil}
      BY <2>3, <2>4, <2>5, <2>6, <1>0, PeekProtected
    <3> QED BY <2>7, <2>9, <3>1
  <2>11. OperandKinds'
    BY <2>2, <2>3, <2>7 DEF OperandKinds, IsKind
  <2>12. OperandsHeld'
    BY <2>7, <2>8, <2>9, <2>10 DEF OperandsHeld
  <2>13. \A u \in openUp : loc[u] < top'
    BY <2>3 DEF Core, UpvaluesOK
  <2> QED BY <2>3, <2>6, <2>7, <2>11, <2>12, <2>13, StackCore DEF Held
<1>6. CASE CallClassEnd
  <2> DEFINE refs == [NoRefs EXCEPT !["klass"] = {pend.a}]
             s(o) == [stack EXCEPT ![top - 1 - pend.n] = o]
  <2>1. PICK o \in Fresh("instance") :
          /\ Put(o, "instance", refs)
          /\ \/ \E i \in slot[pend.a]["initializer"] : Enter(i, pend.n, s(o), top)
             \/ stack' = s(o) /\ UNCHANGED <<top, closureOf, base, frameCount>>
    BY <1>6 DEF CallClassEnd
  <2>2. Done /\ UNCHANGED <<gcMark, gray, openUp, globals, loc, program>>
    BY <1>6 DEF CallClassEnd
  <2>3. pend.n \in Nat /\ pend.n + 1 \in Nat
    BY DEF Core, ControlOK
  <2>4. frameCount > 0 /\ Operands(pend.n + 1) /\ IsKind(pend.a, "class")
    BY <1>6, <2>3 DEF CallClassEnd, Resumed, Core, Held, OperandsHeld, OperandKinds, OperandCount
  <2>5. pend.n + 1 < top
    BY <2>3, <2>4, CoreOperands
  <2>6. "instance" \in Kind /\ o \in Objects /\ o \notin heap /\ o \in Value
    BY FreshObjects DEF Kind, Core, ControlOK, Value
  <2>7. Fits("instance", refs)
    <3>1. pend.a \in heap /\ kind[pend.a] = "class" /\ heap \subseteq Addr /\ EmptyClass \in Addr
      BY <2>4, CoreRoots DEF IsKind, Addr
    <3>2. /\ refs \in [Role -> SUBSET Addr]
          /\ \A r \in Role : refs[r] = IF r = "klass" THEN {pend.a} ELSE {}
      BY <3>1 DEF NoRefs, Role
    <3>3. "klass" \in TracedRoles("instance") /\ FieldKind("klass") = "class" /\ Typed \subseteq Role
      BY DEF TracedRoles, FieldKind, Typed, Role
    <3> HIDE DEF refs
    <3> QED BY <3>1, <3>2, <3>3 DEF Fits
  <2> DEFINE H == heap \union {o}
  <2>8. /\ s(o) \in [Slots -> Value] /\ Live(s(o), top, H)
        /\ H \in SUBSET Objects /\ heap \subseteq H
    BY <1>0, <2>3, <2>5, <2>6, CoreRoots DEF Live, Slots
  <2>9. \A u \in openUp : kind'[u] = kind[u] /\ loc[u] < top
    BY <2>1, <2>6, CoreRoots DEF Put, Core, HeapOK, Addr, UpvaluesOK
  <2> HIDE DEF s, H, refs
  <2>10. StackOK' /\ FramesOK' /\ UpvaluesOK' /\ Roots' \subseteq H
    <3>1. ASSUME NEW i \in slot[pend.a]["initializer"], Enter(i, pend.n, s(o), top)
          PROVE  StackOK' /\ FramesOK' /\ UpvaluesOK' /\ Roots' \subseteq H
      <4>1. i \in H
        BY <2>4, <2>8, MethodsLive DEF IsKind
      <4>2. pend.n < top
        BY <1>0, <2>3, <2>5
      <4> QED BY <1>0, <2>2, <2>3, <2>8, <2>9, <3>1, <4>1, <4>2, EnterCore
    <3>2. ASSUME stack' = s(o), UNCHANGED <<top, closureOf, base, frameCount>>
          PROVE  StackOK' /\ FramesOK' /\ UpvaluesOK' /\ Roots' \subseteq H
      <4>1. StackOK' /\ Live(stack', top', H)
        BY <1>0, <2>8, <3>2 DEF StackOK
      <4>2. FramesOK' /\ UpvaluesOK'
        BY <2>2, <2>9, <3>2 DEF Core, FramesOK, UpvaluesOK
      <4>3. Roots' \subseteq H
        BY <2>2, <2>8, <3>2, <4>1, AsideRoots
      <4> QED BY <4>1, <4>2, <4>3
    <3> QED BY <2>1, <3>1, <3>2
  <2>11. Graph'
    BY <2>1, <2>2, <2>6, <2>7, <2>10, PutGraph, CoreRoots DEF H, Core
  <2>12. ControlOK' /\ Held'
    BY <2>2, DoneHeld
  <2> QED BY <2>10, <2>11, <2>12 DEF Core, Graph
<1>7. CASE Return
  <2>1. /\ phase = "run" /\ frameCount > 0 /\ Operands(1)
        /\ frameCount = 1 => top = 2
        /\ CloseUpvalues(Frame)
        /\ frameCount' = frameCount - 1
        /\ top' = IF frameCount = 1 THEN 0 ELSE Frame + 1
        /\ stack' = Cut([stack EXCEPT ![Frame] = Peek(0)], top')
        /\ closureOf' = [closureOf EXCEPT ![frameCount - 1] = Nil]
        /\ base' = [base EXCEPT ![frameCount - 1] = 0]
        /\ UNCHANGED <<heap, kind, isMarked, gcMark, gray, phase, pend, globals, program>>
    BY <1>7 DEF Return, Running
  <2>2. /\ Frame \in Nat /\ 1 < top /\ Frame < top - 1
        /\ Peek(0) \in Value /\ Peek(0) \in heap \union {Nil}
        /\ frameCount \in Nat
    BY <2>1, CoreOperands DEF Operands
  <2>3. top' \in 0 .. StackMax /\ Frame <= top' /\ top' <= Frame + 1
    BY <1>0, <2>1, <2>2
  <2>4. [stack EXCEPT ![Frame] = Peek(0)] \in [Slots -> Value]
    BY <1>0, <2>2
  <2>5. StackOK'
    BY <2>1, <2>3, <2>4, CutType DEF StackOK
  <2>6. Live(stack', top', heap)
    <3>1. PICK t \in Nat : t = top'
      BY <1>0, <2>3
    <3> SUFFICES ASSUME NEW i \in 0 .. t - 1
                 PROVE  stack'[i] \in heap \union {Nil}
      BY <3>1 DEF Live
    <3>2. t <= Frame + 1 /\ t <= StackMax
      BY <1>0, <2>2, <2>3, <3>1
    <3>3. i \in Slots /\ i \in 0 .. top - 1 /\ i < t
      BY <1>0, <2>2, <3>2 DEF Slots
    <3>4. stack'[i] = IF i = Frame THEN Peek(0) ELSE stack[i]
      BY <1>0, <2>1, <3>1, <3>3 DEF Cut
    <3> QED BY <1>0, <2>2, <3>3, <3>4 DEF Live
  <2>7. openUp' \subseteq openUp /\ loc' \in [Objects -> Nat] /\ UpvaluesOK'
    BY <2>1, <2>2, <2>3, CloseOpen
  <2>8. FramesOK'
    BY <2>1, <2>2, <2>7, BoundAssumption DEF Core, FramesOK, Value
  <2>9. Framed(closureOf', frameCount', heap)
    BY <2>1, <2>2, CoreRoots, BoundAssumption DEF Framed, Core, FramesOK
  <2>10. Roots' \subseteq heap
    BY <2>1, <2>6, <2>7, <2>9, RootsLive, CoreRoots
  <2>11. Graph'
    BY <2>1, <2>2, <2>10, CloseGraph
  <2>12. ControlOK' /\ Held'
    BY <2>1, RunHeld
  <2> QED BY <2>5, <2>7, <2>8, <2>11, <2>12 DEF Core, Graph
<1> QED BY <1>1, <1>2, <1>3, <1>4, <1>5, <1>6, <1>7 DEF CallNext

-----------------------------------------------------------------------------
(* The collector *)

\* Marking changes the colours of the heap and nothing else.
LEMMA ColoursCore ==
  ASSUME Core, UNCHANGED <<heap, kind, slot, gcMark, pend, rootVars, base, loc, program>>,
         isMarked' \in [Addr -> BOOLEAN], gray' \subseteq Addr, phase' \in Phase \ {"run"}
  PROVE  Core'
<1> USE DEF rootVars
<1>1. HeapOK' /\ ControlOK' /\ StackOK' /\ FramesOK'
  BY DEF Core, HeapOK, ControlOK, StackOK, FramesOK
<1>2. Roots' = Roots
  BY DEF Roots, StackRoots, FrameRoots
<1>3. Graph'
  BY <1>1, <1>2 DEF Core, Graph, NoDangling, FieldsOfKind
<1>4. UpvaluesOK'
  BY DEF Core, UpvaluesOK
<1>5. Protected' = Protected
  BY <1>2, ProtectedAfter DEF Protected
<1>6. OperandsHeld'
  BY <1>5 DEF Core, Held, OperandsHeld, OperandCount, Operands, Frame, Peek
<1>7. OperandKinds'
  BY DEF Core, Held, OperandKinds, IsKind, Peek
<1> QED BY <1>1, <1>3, <1>4, <1>6, <1>7 DEF Core, Graph, Held

\* markRoots(): the roots become gray.
LEMMA MarkRootsStep ==
  ASSUME Core, Marks, CollectNext, MarkRoots
  PROVE  Core' /\ Marks'
<1>1. /\ phase = "roots" /\ phase' = "trace"
      /\ isMarked' = [o \in Addr |-> IF o \in Roots THEN gcMark ELSE isMarked[o]]
      /\ gray' = gray \union (Roots \ Marked)
      /\ UNCHANGED <<heap, kind, slot, gcMark, pend, rootVars, base, loc, program>>
  BY DEF MarkRoots, MarkAll, CollectNext
<1>2. /\ gray = {} /\ \A o \in Objects : isMarked[o] # gcMark
      /\ Roots \subseteq heap /\ heap \subseteq Objects /\ heap \subseteq Addr
      /\ gcMark \in BOOLEAN /\ isMarked \in [Addr -> BOOLEAN]
  BY <1>1, CoreRoots DEF Marks, Unmarked, Core, NoDangling, HeapOK, Addr
<1>3. Core'
  <2>1. isMarked' \in [Addr -> BOOLEAN] /\ gray' \subseteq Addr
    BY <1>1, <1>2
  <2> QED BY <1>1, <2>1, ColoursCore DEF Phase
<1>4. Roots' = Roots
  BY <1>1 DEF Roots, StackRoots, FrameRoots, rootVars
<1>5. Marked \subseteq {EmptyClass}
  BY <1>2 DEF Marked, Addr
<1>6. Marked' = Marked \union Roots
  BY <1>1, <1>2 DEF Marked
<1>7. gray' = Roots
  BY <1>1, <1>2, <1>5, AddressAssumption
<1>8. \A o \in Marked' \ gray', r \in Role : slot'[o][r] \subseteq Marked'
  <2> TAKE o \in Marked' \ gray', r \in Role
  <2>1. o = EmptyClass
    BY <1>5, <1>6, <1>7
  <2>2. slot[EmptyClass][r] = {}
    BY DEF Core, FieldsOfKind, NoRefs
  <2> QED BY <1>1, <2>1, <2>2
<1>9. TriColour'
  BY <1>1, <1>2, <1>4, <1>5, <1>6, <1>7, <1>8 DEF TriColour
<1> QED BY <1>1, <1>3, <1>9 DEF Marks, Unmarked

\* One round of traceReferences(): an object becomes black.
LEMMA BlackenStep ==
  ASSUME Core, Marks, CollectNext, Blacken
  PROVE  Core' /\ Marks'
<1>1. PICK o \in gray : MarkAll(Traced(o), {o})
  BY DEF Blacken
<1>2. /\ phase = "trace" /\ phase' = "trace"
      /\ isMarked' = [w \in Addr |-> IF w \in Traced(o) THEN gcMark ELSE isMarked[w]]
      /\ gray' = (gray \ {o}) \union (Traced(o) \ Marked)
      /\ UNCHANGED <<heap, kind, slot, gcMark, pend, rootVars, base, loc, program>>
  BY <1>1 DEF Blacken, MarkAll, CollectNext
<1>3. /\ gray \subseteq Marked /\ Roots \subseteq Marked /\ Marked \subseteq heap \union {EmptyClass}
      /\ \A w \in Marked \ gray, r \in Role : slot[w][r] \subseteq Marked
  BY <1>2 DEF Marks, TriColour
<1>4. /\ gcMark \in BOOLEAN /\ isMarked \in [Addr -> BOOLEAN]
      /\ gray \subseteq Addr /\ Traced(o) \subseteq Addr
  BY DEF Core, HeapOK, Traced
<1>5. Core'
  <2>1. isMarked' \in [Addr -> BOOLEAN] /\ gray' \subseteq Addr
    BY <1>2, <1>4
  <2> QED BY <1>2, <2>1, ColoursCore DEF Phase
<1>6. Roots' = Roots
  BY <1>2 DEF Roots, StackRoots, FrameRoots, rootVars
<1>7. Marked' = Marked \union Traced(o)
  BY <1>2, <1>4 DEF Marked
<1>8. o \in heap \union {EmptyClass}
  BY <1>1, <1>3
<1>9. ASSUME NEW r \in Role
      PROVE  /\ slot[o][r] \subseteq Traced(o)
             /\ slot[o][r] \subseteq heap \union {EmptyClass}
  <2>1. slot[o][r] \subseteq heap \union {EmptyClass} /\ slot[o][r] \subseteq Addr
    BY <1>8 DEF Core, NoDangling, FieldsOfKind, NoRefs, HeapOK, Addr
  <2>2. slot[o][r] = {} \/ r \in TracedRoles(kind[o])
    BY <1>8 DEF Core, FieldsOfKind, NoRefs
  <2> QED BY <2>1, <2>2 DEF Traced
<1>10. Traced(o) \subseteq heap \union {EmptyClass}
  <2>1. TracedRoles(kind[o]) \subseteq Role
    BY <1>4, <1>1 DEF TracedRoles, Role, Core, HeapOK, Kind
  <2> QED BY <1>9, <2>1 DEF Traced
<1>11. \A w \in Marked' \ gray', r \in Role : slot'[w][r] \subseteq Marked'
  <2> TAKE w \in Marked' \ gray', r \in Role
  <2>1. CASE w = o
    BY <1>2, <1>7, <1>9, <2>1
  <2>2. CASE w # o
    <3>1. w \in Marked \ gray
      BY <1>2, <1>7, <2>2
    <3> QED BY <1>2, <1>3, <1>7, <3>1
  <2> QED BY <2>1, <2>2
<1>12. TriColour'
  BY <1>2, <1>3, <1>6, <1>7, <1>10, <1>11 DEF TriColour
<1> QED BY <1>2, <1>5, <1>12 DEF Marks, Unmarked

\* Kids, for the fields that f gives.
KidsBy(f, S) == S \union UNION {f[o][r] : o \in S, r \in Role}

\* A set closed under f contains what is reachable from its members, and
\* fields outside of it do not matter.
LEMMA KidsClosed ==
  ASSUME NEW f, NEW g, NEW M, \A o \in M : f[o] = g[o] /\ \A r \in Role : f[o][r] \subseteq M,
         NEW S \in SUBSET M
  PROVE  KidsBy(f, S) \subseteq M /\ KidsBy(g, S) = KidsBy(f, S)
<1>1. \A o \in S, r \in Role : f[o][r] = g[o][r] /\ f[o][r] \subseteq M
  OBVIOUS
<1> QED BY <1>1 DEF KidsBy

\* sweep(): with no gray object left, what is freed is not referred to.
LEMMA SweepStep ==
  ASSUME Core, Marks, CollectNext, Sweep
  PROVE  Core' /\ Marks'
<1>1. /\ phase = "trace" /\ gray = {} /\ phase' = "resume"
      /\ heap' = heap \intersect Marked
      /\ kind' = [o \in Addr |-> IF o \in heap \ Marked THEN "class" ELSE kind[o]]
      /\ slot' = [o \in Addr |-> IF o \in heap \ Marked THEN NoRefs ELSE slot[o]]
      /\ isMarked' = [o \in Addr |-> IF o \in Objects \ heap' THEN gcMark ELSE isMarked[o]]
      /\ gcMark' = ~gcMark
      /\ UNCHANGED <<gray, pend, rootVars, base, loc, program>>
  BY DEF Sweep, CollectNext, FlippedMark
<1>2. /\ Roots \subseteq Marked /\ Marked \subseteq heap \union {EmptyClass}
      /\ \A o \in Marked, r \in Role : slot[o][r] \subseteq Marked
  BY <1>1 DEF Marks, TriColour
<1>3. /\ Roots \subseteq heap /\ heap \subseteq Objects /\ heap \subseteq Addr /\ EmptyClass \notin heap
      /\ EmptyClass \in Addr /\ Marked \subseteq Addr /\ Nil \notin heap
  BY CoreRoots, AddressAssumption DEF Core, NoDangling, Addr, Marked
<1>4. /\ gcMark \in BOOLEAN /\ isMarked \in [Addr -> BOOLEAN] /\ kind \in [Addr -> Kind]
      /\ slot \in [Addr -> [Role -> SUBSET Addr]]
      /\ \A o \in Addr, r \in Role \ {"klass"} : EmptyClass \notin slot[o][r]
      /\ gray \subseteq Addr
  BY DEF Core, HeapOK
<1>5. /\ \A o \in Marked : slot'[o] = slot[o] /\ kind'[o] = kind[o]
      /\ \A o \in heap' \union {EmptyClass} : slot'[o] = slot[o] /\ kind'[o] = kind[o]
  BY <1>1, <1>3
<1>6. HeapOK'
  <2>1. kind' \in [Addr -> Kind]
    BY <1>1, <1>4 DEF Kind
  <2>2. /\ slot' \in [Addr -> [Role -> SUBSET Addr]]
        /\ \A o \in Addr, r \in Role \ {"klass"} : EmptyClass \notin slot'[o][r]
    <3>1. NoRefs \in [Role -> SUBSET Addr] /\ \A r \in Role : NoRefs[r] = {}
      BY DEF NoRefs
    <3> QED BY <1>1, <1>4, <3>1
  <2>3. isMarked' \in [Addr -> BOOLEAN] /\ gcMark' \in BOOLEAN
    BY <1>1, <1>4
  <2> QED BY <1>1, <1>3, <1>4, <2>1, <2>2, <2>3 DEF HeapOK
<1>7. ControlOK' /\ StackOK' /\ FramesOK'
  BY <1>1 DEF Core, ControlOK, StackOK, FramesOK, Phase, rootVars
<1>8. Roots' = Roots /\ Roots \subseteq heap'
  BY <1>1, <1>2, <1>3 DEF Roots, StackRoots, FrameRoots, rootVars
<1>9. NoDangling'
  <2>1. \A o \in heap', r \in Role : slot'[o][r] \subseteq heap' \union {EmptyClass}
    BY <1>1, <1>2, <1>5
  <2> QED BY <1>8, <2>1 DEF NoDangling
<1>10. FieldsOfKind'
  <2>1. \A o \in heap' : \A r \in Role \ TracedRoles(kind'[o]) : slot'[o][r] = {}
    BY <1>1, <1>5 DEF Core, FieldsOfKind
  <2>2. \A o \in heap', r \in Typed : \A v \in slot'[o][r] : kind'[v] = FieldKind(r)
    <3> TAKE o \in heap', r \in Typed
    <3>1. slot'[o][r] = slot[o][r] /\ slot[o][r] \subseteq Marked
      BY <1>1, <1>2, <1>5 DEF Typed, Role
    <3>2. \A v \in slot[o][r] : kind[v] = FieldKind(r)
      BY <1>1 DEF Core, FieldsOfKind, Typed
    <3> QED BY <1>5, <3>1, <3>2
  <2>3. slot'[EmptyClass] = NoRefs /\ kind'[EmptyClass] = "class"
    BY <1>5 DEF Core, FieldsOfKind
  <2> QED BY <2>1, <2>2, <2>3 DEF FieldsOfKind, Typed
<1>11. UpvaluesOK'
  <2>1. openUp' = openUp /\ loc' = loc /\ top' = top /\ openUp \subseteq heap'
    BY <1>1, <1>8 DEF rootVars, Roots
  <2> QED BY <1>5, <2>1 DEF Core, UpvaluesOK
<1>12. Protected \subseteq Marked /\ Protected' = Protected
  <2> DEFINE P1(f) == KidsBy(f, Roots)
             P2(f) == KidsBy(f, P1(f))
  <2>1. \A o \in Marked : slot[o] = slot'[o] /\ \A r \in Role : slot[o][r] \subseteq Marked
    BY <1>2, <1>5
  <2>2. P1(slot) \subseteq Marked /\ P1(slot') = P1(slot)
    BY <1>2, <2>1, KidsClosed
  <2> HIDE DEF P1
  <2>3. P2(slot) \subseteq Marked /\ P2(slot') = P2(slot)
    <3>1. KidsBy(slot, P1(slot)) \subseteq Marked /\ KidsBy(slot', P1(slot)) = KidsBy(slot, P1(slot))
      BY <2>1, <2>2, KidsClosed
    <3> QED BY <2>2, <3>1
  <2> HIDE DEF P2
  <2>4. KidsBy(slot, P2(slot)) \subseteq Marked /\ KidsBy(slot', P2(slot)) = KidsBy(slot, P2(slot))
    BY <2>1, <2>3, KidsClosed
  <2>5. Protected = KidsBy(slot, P2(slot))
    BY DEF Protected, Kids, KidsBy, P1, P2
  <2>6. Protected' = KidsBy(slot', P2(slot'))
    BY <1>8 DEF Protected, Kids, KidsBy, P1, P2
  <2> QED BY <2>3, <2>4, <2>5, <2>6
<1>13. /\ frameCount' = frameCount /\ openUp' = openUp /\ loc' = loc /\ top' = top /\ pend' = pend
       /\ Frame' = Frame /\ \A d \in Nat : Peek(d)' = Peek(d)
  BY <1>1 DEF rootVars, Frame, Peek
<1>14. OperandsHeld'
  <2>1. OperandCount' = OperandCount /\ Operands(OperandCount)' = Operands(OperandCount)
    BY <1>13 DEF OperandCount, Operands
  <2>2. pend.n \in Nat
    BY DEF Core, ControlOK
  <2> QED BY <1>12, <1>13, <2>1, <2>2 DEF Core, Held, OperandsHeld
<1>15. OperandKinds'
  <2>1. \A v, k : v \in Marked /\ IsKind(v, k) => IsKind(v, k)'
    BY <1>1, <1>5 DEF IsKind
  <2>2. \A k : /\ IsKind(pend.a, k) => pend.a \in Marked
               /\ IsKind(pend.b, k) => pend.b \in Marked
    BY <1>3, <1>12 DEF IsKind, Core, Held, OperandsHeld
  <2>3. ASSUME NEW d \in Nat, d < top, NEW k, IsKind(Peek(d), k)
        PROVE  Peek(d) \in Marked
    <3>1. Peek(d) \in StackRoots
      BY <1>3, <2>3, BoundAssumption DEF IsKind, StackRoots, Peek, Core, StackOK
    <3> QED BY <1>2, <3>1 DEF Roots
  <2>4. /\ pend.op = "ReserveArray" => 0 < top
        /\ pend.op \in {"Capture", "NewUpvalue"} => 0 < top
        /\ pend.op = "Inherit" => 1 < top
    <3>1. CASE pend.op = "ReserveArray"
      <4>1. pend.n + 1 \in Nat /\ frameCount > 0 /\ Operands(pend.n + 1)
        BY <3>1 DEF Core, ControlOK, Held, OperandsHeld, OperandCount
      <4>2. pend.n + 1 < top /\ pend.n \in Nat /\ top \in Nat
        BY <4>1, CoreOperands DEF Core, ControlOK
      <4> QED BY <3>1, <4>2
    <3>2. CASE pend.op \in {"Capture", "NewUpvalue"}
      BY <3>2 DEF Core, Held, OperandKinds
    <3>3. CASE pend.op = "Inherit"
      <4>1. frameCount > 0 /\ Operands(2)
        BY <3>3 DEF Core, Held, OperandsHeld, OperandCount
      <4>2. 2 < top /\ top \in Nat
        BY <4>1, CoreOperands
      <4> QED BY <3>3, <4>2
    <3> QED BY <3>1, <3>2, <3>3
  <2>5. OperandKinds
    BY DEF Core, Held
  <2>6. /\ pend.op \in {"PushNative", "SliceNative", "SliceReserve"} => IsKind(pend.a, "array")'
        /\ pend.op = "SliceReserve" => IsKind(pend.b, "array")'
        /\ pend.op = "Method" => IsKind(pend.a, "class")' /\ IsKind(pend.b, "closure")'
        /\ pend.op = "BindMethod" => IsKind(pend.a, "instance")' /\ IsKind(pend.b, "closure")'
        /\ pend.op = "SetProperty" => IsKind(pend.a, "instance")'
        /\ pend.op = "CallClass" => IsKind(pend.a, "class")'
    <3>1. \A k : /\ IsKind(pend.a, k) => IsKind(pend.a, k)'
                 /\ IsKind(pend.b, k) => IsKind(pend.b, k)'
      BY <1>13, <2>1, <2>2
    <3> QED BY <2>5, <3>1 DEF OperandKinds
  <2>7. /\ pend.op = "ReserveArray" => IsKind(Peek(0), "array")'
        /\ pend.op \in {"Capture", "NewUpvalue"} => top > 0 /\ IsKind(Peek(0), "closure")'
        /\ pend.op = "Inherit" => IsKind(Peek(0), "class")' /\ IsKind(Peek(1), "class")'
    <3>1. ASSUME NEW d \in Nat, d < top, NEW k, IsKind(Peek(d), k)
          PROVE  IsKind(Peek(d), k)'
      BY <1>13, <2>1, <2>3, <3>1
    <3>2. CASE pend.op = "ReserveArray"
      <4>1. IsKind(Peek(0), "array") /\ 0 < top
        BY <2>4, <2>5, <3>2 DEF OperandKinds
      <4> QED BY <3>1, <3>2, <4>1
    <3>3. CASE pend.op \in {"Capture", "NewUpvalue"}
      <4>1. IsKind(Peek(0), "closure") /\ top > 0 /\ 0 < top
        BY <2>4, <2>5, <3>3 DEF OperandKinds
      <4> QED BY <3>1, <3>3, <4>1
    <3>4. CASE pend.op = "Inherit"
      <4>1. IsKind(Peek(0), "class") /\ IsKind(Peek(1), "class") /\ 0 < top /\ 1 < top
        <5>1. 1 < top /\ top \in Nat
          BY <2>4, <3>4, BoundAssumption DEF Core, StackOK
        <5> QED BY <2>5, <3>4, <5>1 DEF OperandKinds
      <4> QED BY <3>1, <3>4, <4>1
    <3> QED BY <3>2, <3>3, <3>4
  <2> QED BY <1>13, <2>6, <2>7 DEF OperandKinds
<1>16. Marks'
  <2>1. \A o \in Objects : isMarked'[o] # gcMark'
    <3> TAKE o \in Objects
    <3>1. o \in Addr
      BY DEF Addr
    <3>2. CASE o \in heap'
      BY <1>1, <1>4, <3>1, <3>2 DEF Marked
    <3>3. CASE o \notin heap'
      BY <1>1, <1>4, <3>1, <3>3
    <3> QED BY <3>2, <3>3
  <2> QED BY <1>1, <1>3, <2>1 DEF Marks, Unmarked, TriColour
<1> QED BY <1>1, <1>6, <1>7, <1>9, <1>10, <1>11, <1>14, <1>15, <1>16 DEF Core, Held

-----------------------------------------------------------------------------
(* The theorems *)

\* The state initVM() leaves.
LEMMA InitInductive == Init => Inductive
<1> SUFFICES ASSUME Init PROVE Inductive
  OBVIOUS
<1>1. HeapOK /\ ControlOK /\ StackOK /\ FramesOK
  <2>1. NoRefs \in [Role -> SUBSET Addr] /\ \A r \in Role : NoRefs[r] = {}
    BY DEF NoRefs
  <2>2. HeapOK
    BY <2>1 DEF Init, HeapOK, Kind
  <2>3. ControlOK
    BY DEF Init, ControlOK, Phase, Idle, Suspended, Value
  <2>4. StackOK /\ FramesOK
    BY BoundAssumption DEF Init, StackOK, FramesOK, Value
  <2> QED BY <2>2, <2>3, <2>4
<1>2. Held
  <2>1. pend = Idle /\ pend.op = "none" /\ pend.a = Nil /\ pend.b = Nil
    BY DEF Init, Idle
  <2>2. OperandCount = 0
    BY <2>1 DEF OperandCount
  <2> QED BY <2>1, <2>2 DEF Held, OperandsHeld, OperandKinds
<1>3. FieldsOfKind
  BY DEF Init, FieldsOfKind, Addr
<1>4. NoDangling
  <2>1. Roots = {}
    BY DEF Init, Roots, StackRoots, FrameRoots
  <2> QED BY <2>1 DEF Init, NoDangling
<1>5. UpvaluesOK
  BY DEF Init, UpvaluesOK
<1>6. Marks
  BY AddressAssumption DEF Init, Marks, Unmarked, TriColour, Addr
<1> QED BY <1>1, <1>2, <1>3, <1>4, <1>5, <1>6, InductiveParts DEF Core

\* A step that changes nothing.
LEMMA StutterInductive ==
  ASSUME Core, Marks, UNCHANGED vars
  PROVE  Core' /\ Marks'
<1> USE DEF vars, gcVars, rootVars
<1>1. HeapOK' /\ ControlOK' /\ StackOK' /\ FramesOK'
  BY DEF Core, HeapOK, ControlOK, StackOK, FramesOK
<1>2. Roots' = Roots
  BY DEF Roots, StackRoots, FrameRoots
<1>3. NoDangling' /\ FieldsOfKind' /\ UpvaluesOK'
  BY <1>2 DEF Core, NoDangling, FieldsOfKind, UpvaluesOK
<1>4. Protected' = Protected
  BY <1>2, ProtectedAfter DEF Protected
<1>5. Held'
  BY <1>4 DEF Core, Held, OperandsHeld, OperandCount, Operands, Frame, Peek, OperandKinds, IsKind
<1>6. Marks'
  BY <1>2 DEF Marks, Unmarked, TriColour, Marked
<1> QED BY <1>1, <1>3, <1>5, <1>6 DEF Core

\* Each step preserves Inductive.
LEMMA InductiveStep == Inductive /\ [Next]_vars => Inductive'
<1> SUFFICES ASSUME Core, Marks, [Next]_vars
             PROVE  Core' /\ Marks'
  BY InductiveParts
<1>1. CASE MutatorNext
  <2>1. Core'
    BY <1>1, StackStep, GlobalStep, ArrayStep, ClosureStep, ClassStep, CallStep DEF MutatorNext
  <2>2. Marks'
    BY <1>1, MutatorMarks DEF Core
  <2> QED BY <2>1, <2>2
<1>2. CASE CollectNext
  BY <1>2, MarkRootsStep, BlackenStep, SweepStep DEF CollectNext, Collect
<1>3. CASE UNCHANGED vars
  BY <1>3, StutterInductive
<1> QED BY <1>1, <1>2, <1>3 DEF Next, MutatorNext

\* Whatever the program, the collector and the handlers together preserve the
\* types, the operands of suspended handlers and the colours of the heap.
THEOREM InductiveInvariant == Spec => []Inductive
  BY InitInductive, InductiveStep, PTL DEF Spec

\* The state of the VM is well typed.
THEOREM TypeCorrect == Spec => []TypeOK
<1>1. Inductive => TypeOK
  BY DEF Inductive
<1> QED BY <1>1, InductiveInvariant, PTL

\* Nothing the VM or a live object refers to has been freed: every allocation
\* in vm.c, object.c and nativeArray.c may collect, and none loses an object.
THEOREM MemorySafety == Spec => []NoDangling
<1>1. Inductive => NoDangling
  BY DEF Inductive
<1> QED BY <1>1, InductiveInvariant, PTL

\* A handler that resumes after a collection finds the objects its C locals
\* refer to alive, because they are on the stack or at most three references
\* away from the roots.
THEOREM LocalsSurvive == Spec => []LocalsLive
<1>1. Inductive => LocalsLive
  <2> SUFFICES ASSUME Core
               PROVE  LocalsLive
    BY InductiveParts
  <2> DEFINE M == heap \union {EmptyClass}
  <2>1. \A o \in M, r \in Role : slot[o][r] \subseteq M
    BY DEF Core, NoDangling, FieldsOfKind, NoRefs
  <2>2. \A S \in SUBSET M : Kids(S) \subseteq M
    BY <2>1 DEF Kids
  <2>3. Roots \subseteq M
    BY DEF Core, NoDangling
  <2> HIDE DEF M
  <2>4. Protected \subseteq M
    BY <2>2, <2>3 DEF Protected
  <2>5. pend.a \in Value /\ pend.b \in Value
    BY DEF Core, ControlOK
  <2> QED BY <2>4, <2>5, AddressAssumption DEF LocalsLive, Core, Held, OperandsHeld, M, Value
<1> QED BY <1>1, InductiveInvariant, PTL

\* While it marks, the collector never leaves a black object that refers to a
\* white one: the fields blackenObject visits are all the fields there are.
THEOREM TriColourMarking == Spec => []TriColour
<1>1. Inductive => TriColour
  BY DEF Inductive
<1> QED BY <1>1, InductiveInvariant, PTL

\* Closures over one variable share its open upvalue, whatever a collection inside
\* captureUpvalue does, and the collector takes no open upvalue away.
THEOREM UpvaluesShared == Spec => []OpenUpvalues
<1>1. Inductive => OpenUpvalues
  BY DEF Inductive
<1> QED BY <1>1, InductiveInvariant, PTL
=============================================================================
