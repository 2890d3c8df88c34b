SPECIFICATION AckSpec
CONSTANTS
  SeqNums <- MCSeqNums
  Scripts <- MCScripts
INVARIANTS
  JudgedByOrigin
  NoFalseAck
\* The line runs dry.
CHECK_DEADLOCK FALSE
