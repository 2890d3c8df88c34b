SPECIFICATION Spec
CONSTANTS
  Bytes <- MCBytes
  Seqs <- MCSeqs
  MAX_CHUNK = 2
INVARIANTS
  RoundTrip
  DamageRefused
  BufferSuffices
  NoControlInData
\* One packet, then nothing.
CHECK_DEADLOCK FALSE
