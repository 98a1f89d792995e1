\* as_new and as_fgets with capacities of 1 and 3 cells, so that strings grow
\* past them; two variables.
CONSTANTS
  Char <- MCChar
  Blank <- MCBlank
  ToLower <- MCLower
  ToUpper <- MCUpper
  NewCap = 1
  LineCap = 3
  Names = {s, t}
  Texts <- MCTexts
  Added <- MCAdded
  Files <- MCFiles
  MaxLen = 3
SPECIFICATION Spec
INVARIANTS
  TypeOK NoFault TextIsWritten TerminatedUnlessAppended
  
PROPERTIES ImplementsStringValues
SYMMETRY MCSymmetry
CHECK_DEADLOCK FALSE
