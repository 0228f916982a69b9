SPECIFICATION Spec
CONSTANTS
  Ids = {a1, a2}
  Nil = Nil
  Absent = Absent
  Junk = Junk
  Bytes <- MCBytes
  Values <- MCValues
  Pushes <- MCPushes
  Indices <- MCIndices
  Sizes <- MCSizes
  Cuts <- MCCuts
  Texts <- MCTexts
  Lines <- MCLines
  Lengths <- MCLengths
  Backslash = Backslash
  Quote = Quote
  LetterN = LetterN
  Newline = Newline
  Width = 4
  Align = 2
  DoubleBelow = 4
  BuilderSize = 4
INVARIANTS TypeOK WritesInside Terminated BytesExact
PROPERTY ImplementsSequences
VIEW Data
SYMMETRY MCSymmetry
CHECK_DEADLOCK FALSE
