SPECIFICATION Spec
CONSTANTS
  Functions <- Programs
  Escapes = FALSE
  FramesMax = 4
  Variables = 10
INVARIANTS SlotsAgree UpvalueOwnsSlot NamesMean
PROPERTY ConstantsStay
CHECK_DEADLOCK FALSE
