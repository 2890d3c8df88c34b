SPECIFICATION FairSpec
CONSTANTS
  File <- MCFile
  TOT_SIZE = 2
  Chip = "4430"
  ASIC_ID_SIZE = 5
  REST_4430 = 5
  REST_OTHER = 2
  Markers <- MCMarkers
  MaxFaults <- MCFaults
INVARIANTS
  TypeOK
  FalseSuccessNeedsFault
  SizeHonoured
  NoHoles
  IdDrained
PROPERTY
  IdEndsWait
\* Without an ID, or when the file is cut short, the tool never ends.
CHECK_DEADLOCK FALSE
