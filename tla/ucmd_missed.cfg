SPECIFICATION Spec
CONSTANTS
  Chars <- MCChars
  NUL = NUL
  Expected <- MCExpected
  MAX_OUT = 5
INVARIANTS
  FoundAnywhere
\* Without a match the tool waits for ever.
CHECK_DEADLOCK FALSE
