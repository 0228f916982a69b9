SPECIFICATION Spec
CONSTANTS
  Expressions <- Plain
  XValues <- SomeX
  GValues <- SomeG
INVARIANTS SameValue WellFormed
CHECK_DEADLOCK FALSE
