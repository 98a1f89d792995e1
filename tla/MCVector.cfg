\* Counters of three bits: doubling wraps from 4, 5, 6 and 7.
SPECIFICATION Spec
CONSTANTS
  Item = {"a", "b"}
  Zero = "zero"
  Junk = "junk"
  Batches <- MCBatches
  U32 = 8
\* The process may end.
CHECK_DEADLOCK FALSE
INVARIANTS
  VectorInv
PROPERTIES
  IsASequence
