\* The parser of MCParser.cfg, against RangeIsReported.
SPECIFICATION PsSpec
CONSTANTS
  Char <- MCChar
  Blank = {"nl"}
  ToLower <- MCFold
  ToUpper <- MCFold
  NewCap = 2
  LineCap = 3
  Tokens <- MCTokens
  IntMax = 99
CHECK_DEADLOCK FALSE
INVARIANTS RangeIsReported
