SPECIFICATION FairSpec
CONSTANTS
  o1 = o1  o2 = o2  o3 = o3  o4 = o4  o5 = o5  o6 = o6
  Objects = {o1, o2, o3, o4}
  EmptyClass = EmptyClass
  Nil = Nil
  StackMax = 4
  FramesMax = 2
  Pool <- ValuePool
  Programs <- ValuePrograms
  MaxUpvalues = 1
  MaxPadding = 1
  MaxGlobals = 1
  MaxFields = 0
INVARIANTS TypeOK NoDangling LocalsLive Unmarked TriColour OpenUpvalues UpvaluesInUse
PROPERTIES ImplementsReachHeap CollectionEnds
CHECK_DEADLOCK FALSE
