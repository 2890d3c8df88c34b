SPECIFICATION FairSpec
CONSTANTS
  File <- MCFile
  READ_BUFFER_SIZE = 2
  MAX_SIZE = 4
  WORD = 8
INVARIANTS
  TypeOK
  SuccessMeansWhole
  NeverTooMuch
PROPERTIES
  ImplementsTransfer
  Ends
