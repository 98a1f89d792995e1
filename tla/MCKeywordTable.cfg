\* Up to six calls of lx_new, lx_free and ps_free.
SPECIFICATION TableSpec
CONSTANTS
  Lexers = {"l", "m"}
  Parsers = {"ps"}
  Reserved = {"let", "null"}
  Words = {"let", "LET", "x"}
  Lowered <- MCLowered
  Src <- MCSrc
  MaxCalls = 6
\* The calls may be used up.
CHECK_DEADLOCK FALSE
INVARIANTS
  TableInv
PROPERTIES
  KeywordsAreMissedAfterFree
