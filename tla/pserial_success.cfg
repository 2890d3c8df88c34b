SPECIFICATION Spec
CONSTANTS
  File <- MCFile
  TOT_SIZE = 2
  Chip = "4430"
  ASIC_ID_SIZE = 5
  REST_4430 = 5
  REST_OTHER = 2
  Markers <- MCMarkers
  MaxFaults <- MCFileMissing
INVARIANT
  SuccessMeansWhole
\* Without an ID, or when the file is cut short, the tool never ends.
CHECK_DEADLOCK FALSE
