SPECIFICATION Spec
CONSTANTS
  Characters <- MCCharacters
  Configs <- MCConfigs
  Code <- MCCode
  ImageLengths <- MCImageLengths
  WORD = 16
  LONG = 256
  BUFFER = 31
  STRING_SIZE = 10
INVARIANTS
  ChainDescribesBoard
  KernelFindsTags
