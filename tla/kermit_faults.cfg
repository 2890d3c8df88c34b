SPECIFICATION Spec
CONSTANTS
  File <- MCFile5
  MAX_CHUNK = 2
  RETRY_MAX = 3
  SEQ_MAX = 1
  MaxFaults <- MCAnyFault
INVARIANTS
  TypeOK
  AckedIsStored
  SuccessMeansWhole
PROPERTY
  ImplementsTransfer
\* The sender really stops for good when a reply is lost: it has no timeout.
CHECK_DEADLOCK FALSE
