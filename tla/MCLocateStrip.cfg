CONSTANTS
  MaxManifestLength = 2
  MaxFragments = 3
  MaxCalls = 1
  Texts <- MCTexts
SPECIFICATION Spec
INVARIANT StripLeavesNoWrapper
CHECK_DEADLOCK FALSE
