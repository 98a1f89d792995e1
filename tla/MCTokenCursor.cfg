\* Up to four tokens; the cursor may run two beyond them. Errors end at two
\* instead of twenty.
SPECIFICATION FairSpec
CONSTANTS
  Kinds <- MCKinds
  Streams <- MCStreams
  MaxErrorCount = 2
  U32 = 16
  MaxCur = 5
  MaxLeaked = 1
\* A diagnostic without a place ends the process.
CHECK_DEADLOCK FALSE
INVARIANTS
  CursorInv
  TakenInOrder
  EndIsNeverExpected
PROPERTIES
  LooksAreTrue
  NewlinesEnd
