\* Trees of up to three levels of expressions; a string writer of two cells.
SPECIFICATION FairSpec
CONSTANTS
  Nth <- MCNth
  Roots <- MCRoots
  TextLen <- MCTextLen
  Printable = {"a"}
  ShownMax = 64
  Pieces <- MCPieces
  Char <- MCChar
  Blank = {"nl"}
  ToLower <- AsItIs
  ToUpper <- AsItIs
  NewCap = 8
  LineCap = 8192
  WriterCap = 2
\* The tree has been freed.
CHECK_DEADLOCK FALSE
INVARIANTS
  AllIsFreed
  NodesAreKnown
  TreesArePrinted
  WritersAreKnown
PROPERTIES
  OwnersAreFreedLast
  Termination
