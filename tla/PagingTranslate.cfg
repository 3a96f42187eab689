SPECIFICATION Spec
CONSTANTS
  NumEntries = 4
  VirtAddrs <- MCPlain
  PhysAddrs = {20480}
  FlagSets <- MCOneFlag
  Frames <- MCFrames
  LowMemory <- MCClear
INVARIANT
  TranslateFindsMapping
