\* The string library of MCString.cfg, against AppendCstrConcatenates.
CONSTANTS
  Char <- MCChar
  Blank <- MCBlank
  ToLower <- MCLower
  ToUpper <- MCUpper
  NewCap = 1
  LineCap = 3
  Names = {s, t}
  Texts <- MCTexts
  Added <- MCAdded
  Files <- MCFiles
  MaxLen = 3
SPECIFICATION Spec
INVARIANTS AppendCstrConcatenates
CHECK_DEADLOCK FALSE
