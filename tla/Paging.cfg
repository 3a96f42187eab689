SPECIFICATION Spec
CONSTANTS
  NumEntries = 4
  VirtAddrs <- MCShared
  PhysAddrs = {20480}
  FlagSets <- MCOneFlag
  Frames <- MCFrames
  LowMemory <- MCLowMemory
INVARIANTS
  TypeOK
  FailureKeepsEntries
  RootNamesFrames
PROPERTY
  NoDoubleMap
