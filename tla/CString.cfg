SPECIFICATION StringSpec
CONSTANTS
  MemSize = 17
  WordMod = 128
  Memories <- MCMemories
  Fills <- MCFills
  StringMemories <- MCStringMemories
INVARIANTS
  StringTypeOK
  CopyResult
  MoveResult
  SetResult
  WritesInside
  CompareResult
  StrlenCounts
  StrcpyKeepsTail
  StrncatTerminates
  StrncpyPadsFront
PROPERTIES
  LoopsAdvance
  CallsEnd
