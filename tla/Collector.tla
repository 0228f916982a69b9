------------------------------ MODULE Collector ------------------------------
(***************************************************************************)
(* The tracing collector of gc.c and the allocation protocol of memory.c   *)
(* and object.c, over an explicit heap graph.                              *)
(*                                                                         *)
(* A handler of the run loop that allocates calls reallocate(), and        *)
(* reallocate() may run a whole collection before the memory is handed     *)
(* out.  The handler is therefore split at its allocations: it suspends    *)
(* with its C locals in pend, the collector runs or not, and it resumes.   *)
(* The handlers themselves are in VmHeap.                                  *)
(*                                                                         *)
(* Strings, functions and natives are never collected (gc.c:76-83), nor    *)
(* are numbers, booleans and nil: all of them are the single value Nil.    *)
(* Names and positions inside tables and arrays are abstracted: a field    *)
(* of an object is the set of collectable objects it refers to.            *)
(***************************************************************************)
EXTENDS Naturals

CONSTANTS
  Objects,     \* addresses of collectable objects
  EmptyClass,  \* &vm.emptyClass, the static class of literal objects
  Nil,         \* every value the collector does not manage
  StackMax,    \* bound: slots of vm.stack that are used
  FramesMax    \* FRAMES_MAX

Kind == {"upvalue", "closure", "bound", "class", "instance", "array"}

ASSUME AddressAssumption ==
  /\ EmptyClass \notin Objects
  /\ Nil \notin Objects
  /\ Nil # EmptyClass

ASSUME BoundAssumption ==
  /\ StackMax \in Nat \ {0}
  /\ FramesMax \in Nat \ {0}

VARIABLES
  heap,        \* objects linked in the list vm.objects
  kind,        \* Obj.type
  slot,        \* slot[o][r]: what field r of object o refers to
  isMarked,    \* Obj.isMarked
  gcMark,      \* vm.gcMark
  gray,        \* contents of vm.grayStack
  phase,       \* where control is
  pend,        \* the suspended handler and its C locals
  stack,       \* vm.stack, Nil at and above stackTop
  top,         \* vm.stackTop - vm.stack
  closureOf,   \* vm.frames[i].closure
  frameCount,  \* vm.frameCount
  openUp,      \* upvalues on the list vm.openUpvalues
  globals      \* values of vm.globals.fields

gcVars == <<heap, kind, slot, isMarked, gcMark, gray, phase, pend>>
rootVars == <<stack, top, closureOf, frameCount, openUp, globals>>

Addr  == Objects \union {EmptyClass}
Value == Objects \union {Nil}

Role == {"closed", "upvalues", "receiver", "method", "initializer",
         "methods", "klass", "fields", "elements"}

Phase == {"run", "resume", "roots", "trace"}

Idle == [op |-> "none", a |-> Nil, b |-> Nil, n |-> 0, at |-> 0]

NoRefs == [r \in Role |-> {}]

\* The object a value refers to, as a set: empty for Nil.
Obj(v) == {v} \ {Nil}

-----------------------------------------------------------------------------
(* Marking *)

\* Fields blackenObject visits, by the type of the object.
TracedRoles(k) ==
  CASE k = "upvalue"  -> {"closed"}
    [] k = "closure"  -> {"upvalues"}
    [] k = "bound"    -> {"receiver", "method"}
    [] k = "class"    -> {"initializer", "methods"}
    [] k = "instance" -> {"klass", "fields"}
    [] k = "array"    -> {"elements"}

\* Mutation of Traced: blackenObject forgets a field.
TracedButElements(o) ==
  {c \in Addr : \E r \in TracedRoles(kind[o]) \ {"elements"} : c \in slot[o][r]}

Traced(o) == {c \in Addr : \E r \in TracedRoles(kind[o]) : c \in slot[o][r]}

Marked == {o \in Addr : isMarked[o] = gcMark}

StackRoots == {stack[i] : i \in 0 .. top - 1} \ {Nil}
FrameRoots == {closureOf[i] : i \in 0 .. frameCount - 1}

\* What markRoots passes to markValue, markObject and markTable.
Roots == StackRoots \union FrameRoots \union openUp \union globals

\* markObject on every member of S, after the object popped from the gray
\* stack (if any) is gone: marked objects are skipped, the others are marked
\* and pushed.
MarkAll(S, popped) ==
  /\ isMarked' = [o \in Addr |-> IF o \in S THEN gcMark ELSE isMarked[o]]
  /\ gray' = (gray \ popped) \union (S \ Marked)

\* Mutation of MarkRoots: the list of open upvalues is forgotten.
MarkRootsButUpvalues ==
  /\ phase = "roots"
  /\ MarkAll(StackRoots \union FrameRoots \union globals, {})
  /\ phase' = "trace"
  /\ UNCHANGED <<heap, kind, slot, gcMark, pend, rootVars>>

MarkRoots ==
  /\ phase = "roots"
  /\ MarkAll(Roots, {})
  /\ phase' = "trace"
  /\ UNCHANGED <<heap, kind, slot, gcMark, pend, rootVars>>

\* Mutation of Blacken: the object stays on the gray stack.
BlackenKeeps ==
  /\ phase = "trace"
  /\ \E o \in gray : MarkAll(Traced(o), {})
  /\ UNCHANGED <<heap, kind, slot, gcMark, phase, pend, rootVars>>

\* One round of traceReferences. The gray stack is last in, first out; the
\* order is left open here.
Blacken ==
  /\ phase = "trace"
  /\ \E o \in gray : MarkAll(Traced(o), {o})
  /\ UNCHANGED <<heap, kind, slot, gcMark, phase, pend, rootVars>>

\* Mutation of FlippedMark: the mark is not flipped after the sweep.
SameMark == gcMark

FlippedMark == ~gcMark

\* sweep() and the tail of garbageCollect(), as one step: the list vm.objects
\* is the set heap. What free memory holds is never read: it is kept at fixed
\* values, so that equal heaps are equal states.
Sweep ==
  /\ phase = "trace"
  /\ gray = {}
  /\ heap' = heap \intersect Marked
  /\ kind' = [o \in Addr |-> IF o \in heap \ Marked THEN "class" ELSE kind[o]]
  /\ slot' = [o \in Addr |-> IF o \in heap \ Marked THEN NoRefs ELSE slot[o]]
  /\ isMarked' = [o \in Addr |-> IF o \in Objects \ heap' THEN gcMark ELSE isMarked[o]]
  /\ gcMark' = FlippedMark
  /\ phase' = "resume"
  /\ UNCHANGED <<gray, pend, rootVars>>

Collect == MarkRoots \/ Blacken \/ Sweep

-----------------------------------------------------------------------------
(* Allocation *)

\* reallocate() with newSize > oldSize: the handler op suspends with its C
\* locals. Whether bytesAllocated exceeds nextGC is left open: any allocation
\* may collect.
Request(op, a, b, n, at) ==
  /\ pend' = [op |-> op, a |-> a, b |-> b, n |-> n, at |-> at]
  /\ phase' \in {"resume", "roots"}

\* Mutation of NewMark: an object is born marked.
MarkedAtBirth == gcMark

NewMark == ~gcMark

\* The tail of allocateObject and of the newXxx function that called it.
Put(o, k, refs) ==
  /\ heap' = heap \union {o}
  /\ kind' = [kind EXCEPT ![o] = k]
  /\ slot' = [slot EXCEPT ![o] = refs]
  /\ isMarked' = [isMarked EXCEPT ![o] = NewMark]

\* The handler is done and the run loop dispatches the next instruction.
Done ==
  /\ phase' = "run"
  /\ pend' = Idle
=============================================================================
