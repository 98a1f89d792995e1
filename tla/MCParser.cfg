\* A string begins with two cells, so that texts of six characters grow it
\* twice; integers end at 99.
SPECIFICATION PsFairSpec
CONSTANTS
  Char <- MCChar
  Blank = {"nl"}
  ToLower <- MCFold
  ToUpper <- MCFold
  NewCap = 2
  LineCap = 3
  Tokens <- MCTokens
  IntMax = 99
CHECK_DEADLOCK FALSE
INVARIANTS
  ParserInv
  StringsAreTranslated
  RefusedIsReported
  NumbersAreWhole
PROPERTIES
  PsTermination
