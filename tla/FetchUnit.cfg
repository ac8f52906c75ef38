SPECIFICATION FairSpec
CONSTANTS
  Word = {0, 1, 2}
  NextWord <- MCNextWord
  BadWords = {2}
  UserWords = {0, 2}
  ResetVector <- MCReset
  Programs <- MCPrograms
  Overlap = TRUE
  Halts = TRUE
INVARIANTS
  IInv
PROPERTIES
  ImplementsStream
  FetchProgress
