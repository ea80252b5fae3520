CONSTANTS
  Streams <- MCStreamsEmpty
  MaxChunk = 3
SPECIFICATION Spec
PROPERTY AllFramesParsed
CHECK_DEADLOCK FALSE
