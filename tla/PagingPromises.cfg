SPECIFICATION Spec
CONSTANTS
  NumEntries = 4
  VirtAddrs <- MCApart
  PhysAddrs = {20480, 24576}
  FlagSets <- MCFlags
  Frames <- MCFrames
  LowMemory <- MCClear
PROPERTY
  KeepsPromises
