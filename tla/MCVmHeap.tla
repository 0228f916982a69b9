------------------------------ MODULE MCVmHeap ------------------------------
(***************************************************************************)
(* Small instances of VmHeap for TLC.  A run explores several programs:    *)
(* sets of instructions, each chosen to exercise one part of the VM with a *)
(* state space of its own.                                                 *)
(***************************************************************************)
EXTENDS VmHeap, TLC

CONSTANTS o1, o2, o3, o4, o5, o6

-----------------------------------------------------------------------------
(* Arrays, natives and closures. *)

ArrayProgram ==
  {"OP_CONSTANT", "OP_GET_LOCAL", "OP_SET_LOCAL", "OP_POP", "OP_NEW_ARRAY",
   "OP_GET_INDEX", "OP_SET_INDEX", "OP_DEFINE_GLOBAL", "OP_GET_GLOBAL", "OP_RETURN"}

NativeProgram ==
  {"OP_CONSTANT", "OP_GET_LOCAL", "OP_NEW_ARRAY", "@array.push",
   "@array.slice", "@sys.gc", "OP_RETURN"}

ClosureProgram ==
  {"OP_CONSTANT", "OP_GET_LOCAL", "OP_POP", "OP_CLOSURE", "OP_CALL",
   "OP_GET_UPVALUE", "OP_SET_UPVALUE", "OP_CLOSE_UPVALUE",
   "OP_SET_GLOBAL", "OP_GET_GLOBAL", "OP_RETURN"}

\* A closure in a closure, which takes over an upvalue of the enclosing one.
NestedProgram == {"OP_CONSTANT", "OP_CLOSURE", "OP_CALL", "OP_GET_UPVALUE"}

ValuePrograms == {ArrayProgram, NativeProgram, ClosureProgram, NestedProgram}

ValuePool ==
  [p \in ValuePrograms |-> [k \in Kind |->
     CASE k = "closure" -> IF p = ClosureProgram THEN {o1, o2} ELSE {o1, o2, o3}
       [] k = "array"   -> IF p \in {ArrayProgram, NativeProgram} THEN {o1, o2, o3} ELSE {}
       [] k = "upvalue" -> IF p = ClosureProgram THEN {o3, o4}
                           ELSE IF p = NestedProgram THEN {o4} ELSE {}
       [] OTHER         -> {}]]

-----------------------------------------------------------------------------
(* Classes: a few addresses for each kind, so that a program that uses all *)
(* of them fits.                                                           *)

\* Methods, the initializer and bound methods of one class.
MethodProgram ==
  {"OP_GET_LOCAL", "OP_CLOSURE", "OP_CLASS", "OP_METHOD", "OP_GET_PROPERTY",
   "OP_CALL", "OP_RETURN"}

\* Object literals whose fields hold values and functions.
FieldProgram ==
  {"OP_CONSTANT", "OP_GET_LOCAL", "OP_CLOSURE", "OP_CLASS", "OP_NEW_OBJECT",
   "OP_SET_PROPERTY", "OP_GET_PROPERTY", "OP_INVOKE"}

\* A superclass that methods reach through the upvalue "super".
SuperProgram ==
  {"OP_GET_LOCAL", "OP_CLOSURE", "OP_CLASS", "OP_METHOD", "OP_CALL", "OP_INVOKE",
   "OP_GET_UPVALUE", "OP_GET_SUPER", "OP_SUPER_INVOKE"}

InheritProgram ==
  {"OP_GET_LOCAL", "OP_POP", "OP_CLOSURE", "OP_CLASS", "OP_METHOD", "OP_INHERIT"}

ClassPrograms == {MethodProgram, FieldProgram, SuperProgram, InheritProgram}

ClassPool ==
  [p \in ClassPrograms |-> [k \in Kind |->
     CASE k = "closure"  -> {o1, o2}
       [] k = "class"    -> IF p = InheritProgram THEN {o3, o4} ELSE {o3}
       [] k = "instance" -> {o4}
       [] k = "bound"    -> {o5}
       [] k = "upvalue"  -> {o6}
       [] OTHER          -> {}]]
=============================================================================
