SPECIFICATION Spec
CONSTANTS
  WordMod = 1073741824
  IntMod = 1073741824
  Images <- MCPadded
  InfoSizes = {102, 300}
  ShortReads = {0, 63, 8500}
  LowProgHeaders <- MCLowProgHeaders
  LowSectionHeaders <- MCLowSectionHeaders
INVARIANT
  InfoBufferFreedOnce
