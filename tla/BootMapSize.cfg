SPECIFICATION Spec
CONSTANTS
  PreferredWidth = 1920
  PreferredHeight = 1080
  ModeLists <- MCModeLists
  MapSizes <- MCMapSizes
  MaxPageAllocs = 2
  MaxKey = 4
  KeyMod = 16
INVARIANT SecondSizeSuffices
