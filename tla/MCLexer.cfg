\* Texts of symbols, literals and words. Columns and spans wrap at 4 instead of 256.
SPECIFICATION FairSpec
CONSTANTS
  Sources <- Texts
  Letters <- MCLetters
  Lower <- MCLower
  Others <- MCOthers
  Keywords <- MCKeywords
  U8 = 4
\* Tokenizing ends.
CHECK_DEADLOCK FALSE
INVARIANTS
  LexerInv
  PositionsAreFaithful
  GapsAreTrivia
  TokensAreWhole
  LiteralsCloseAtFirstDelimiter
  FailuresAreJust
PROPERTIES
  EveryStepCounts
  ImplementsTokenStream
  Termination
