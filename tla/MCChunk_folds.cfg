SPECIFICATION Spec
CONSTANTS
  one = one  two = two  three = three  text = text
  Numbers = {one, two, three}
  Strings = {text}
  Hash <- SmallHash
  NoKey = NoKey
  MinCapacity = 2
  IndexLimit = 3
  MaxCode = 3
  MaxLine = 2
INVARIANTS OperandLines LinesFound ConstantsMeant Deduplicated PoolSearchEnds
CHECK_DEADLOCK FALSE
