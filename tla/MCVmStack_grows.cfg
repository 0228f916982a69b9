SPECIFICATION Spec
CONSTANTS
  main = main  f = f  m = m
  Functions = {main, f}
  Modules = {m}
  Arity <- SmallArity
  Literals = {f, "native", "string", "object"}
  FrameMax = 3
  InitialSize = 3
  MinCapacity = 5
  StackMax = 6
  MaxArgs = 1
INVARIANT PointersIntoStack
CHECK_DEADLOCK FALSE
