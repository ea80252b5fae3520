CONSTANTS
  Streams <- MCStreamsMasked
  MaxChunk = 3
SPECIFICATION Spec
INVARIANT ParsedFramesArePrefix
CHECK_DEADLOCK FALSE
