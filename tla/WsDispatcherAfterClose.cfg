CONSTANTS
  Frames <- MCFrames
  Configs <- MCConfigs
  MaxFrames = 4
SPECIFICATION Spec
INVARIANT NoCallbackAfterOnClose
CHECK_DEADLOCK FALSE
