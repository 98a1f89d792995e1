\* Texts of symbols and comments. Columns and spans wrap at 4 instead of 256.
SPECIFICATION Spec
CONSTANTS
  Sources <- SymbolSources
  Letters <- MCLetters
  Lower <- MCLower
  Others <- MCOthers
  Keywords <- MCKeywords
  U8 = 4
\* Tokenizing ends.
CHECK_DEADLOCK FALSE
INVARIANTS
  SymbolIsOneToken
