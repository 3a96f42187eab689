SPECIFICATION Spec
CONSTANTS
  PreferredWidth = 1920
  PreferredHeight = 1080
  ModeLists <- MCModeLists
INVARIANTS
  GopTypeOK
  DescribesDisplay
  ChoosesBest
PROPERTIES
  AsksOnce
  GopReturns
