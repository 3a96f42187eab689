SPECIFICATION Spec
CONSTANTS
  PreferredWidth = 1920
  PreferredHeight = 1080
  ModeLists <- MCModeLists
INVARIANT
  OnlySupportedFormats
