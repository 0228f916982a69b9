SPECIFICATION Spec
CONSTANTS
  Longest = 5
  Sources <- MCSources
  Keywords <- MCKeywords
  Modules <- MCModules
INVARIANTS  LinesCounted LongestLexeme
PROPERTIES NothingLost ReachesEnd
CHECK_DEADLOCK FALSE
