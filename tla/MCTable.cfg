SPECIFICATION Spec
CONSTANTS
  a = a  b = b  c = c  v = v
  Keys = {a, b, c}
  Hash <- SmallHash
  Values = {Nil, v}
  Nil = Nil
  NoKey = NoKey
  Missing = Missing
  NoSymbol = NoSymbol
  MinCapacity = 2
  MaxCapacity = 8
INVARIANTS SearchEnds CacheAgrees
PROPERTY ImplementsMap
CHECK_DEADLOCK FALSE
