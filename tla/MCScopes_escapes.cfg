SPECIFICATION Spec
CONSTANTS
  Functions <- Programs
  Escapes = TRUE
  FramesMax = 4
  Variables = 10
INVARIANT UpvalueOwnsSlot
CHECK_DEADLOCK FALSE
