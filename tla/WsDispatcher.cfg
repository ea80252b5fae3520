\* Every mix of up to four frames from MCFrames under three configurations.
CONSTANTS
  Frames <- MCFrames
  Configs <- MCConfigs
  MaxFrames = 4
SPECIFICATION Spec
INVARIANT TypeOK
INVARIANT AgreesWithReference
CHECK_DEADLOCK FALSE
