SPECIFICATION Spec
CONSTANTS
  o1 = o1  o2 = o2  o3 = o3  o4 = o4  o5 = o5  o6 = o6
  Objects = {o1, o2, o3, o4, o5, o6}
  EmptyClass = EmptyClass
  Nil = Nil
  StackMax = 5
  FramesMax = 3
  Pool <- ClassPool
  Programs <- ClassPrograms
  MaxUpvalues = 1
  MaxPadding = 0
  MaxGlobals = 0
  MaxFields = 1
INVARIANT Inductive
CHECK_DEADLOCK FALSE
