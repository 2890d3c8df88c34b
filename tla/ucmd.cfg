SPECIFICATION FairSpec
CONSTANTS
  Chars <- MCChars
  NUL = NUL
  Expected <- MCExpected
  MAX_OUT = 7
INVARIANTS
  TypeOK
  MatchIsReal
  FoundAfterSeparator
PROPERTY
  PromptEndsWait
\* Without a match the tool waits for ever.
CHECK_DEADLOCK FALSE
