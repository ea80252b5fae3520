CONSTANTS
  Streams <- MCStreams
  MaxChunk = 8
SPECIFICATION Spec
INVARIANTS TypeOK ParsedFramesArePrefix
PROPERTIES AllFramesParsed
CHECK_DEADLOCK FALSE
