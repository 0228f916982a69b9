SPECIFICATION Spec
CONSTANTS
  Expressions <- LogicOperands
  XValues <- SomeX
  GValues <- SomeG
INVARIANT SameValue
CHECK_DEADLOCK FALSE
