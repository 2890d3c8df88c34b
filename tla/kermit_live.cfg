SPECIFICATION FairSpec
CONSTANTS
  File <- MCFile4
  MAX_CHUNK = 1
  RETRY_MAX = 2
  SEQ_MAX = 2
  MaxFaults <- MCNothingLost
INVARIANTS
  LineWindow
  NoStarvation
  FewCorruptionsTolerated
PROPERTIES
  Terminates
  SuccessEndsSession
