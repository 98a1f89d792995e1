\* A string begins with two cells; no more than two characters of one are
\* printed; integers end at 99. Columns and spans wrap at 8.
SPECIFICATION Spec
CONSTANTS
  Sources <- MCSources
  Letters <- MCLetters
  Lower <- MCLower
  Others <- MCOthers
  Keywords <- MCKeywords
  U8 = 8
  Char <- MCChar
  Blank = {"nl", "sp", "tab", "cr"}
  ToLower <- MCFold
  ToUpper <- MCFold
  Tokens <- MCTokens
  NewCap = 2
  LineCap = 3
  IntMax = 99
  Printable <- MCPrintable
  ShownMax = 2
\* The program ends.
CHECK_DEADLOCK FALSE
INVARIANTS
  CharactersArePrinted
