SPECIFICATION Spec
CONSTANTS
  Files <- MCFiles
  BUFFER_SIZE = 4
  LoadAddresses <- MCLoadAddresses
  InputLengths <- MCInputLengths
  INFO = 1
  WORD = 1048576
  LONG = 16777216
  PAGE_PAD_SIZE = 3
INVARIANTS
  AcceptedAsWritten
  ImageHoldsConfig
  TocDescribesHeader
  ImageLayout
