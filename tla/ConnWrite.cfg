CONSTANTS
  MaxWrites <- MCMaxWrites
  MaxLen <- MCMaxLen
  SockBuf <- MCSockBuf
  MaxClosers <- MCMaxClosers
SPECIFICATION Spec
INVARIANTS TypeOK Lossless
PROPERTY ArmedBufferDrains
CHECK_DEADLOCK FALSE
