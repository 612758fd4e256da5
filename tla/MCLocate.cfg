CONSTANTS
  MaxManifestLength = 2
  MaxFragments = 3
  MaxCalls = 2
  Texts <- MCTexts
SPECIFICATION FairSpec
INVARIANTS
  TypeOK
  ScanFindsEveryWrapper
  SpansAreWrapperBytes
  RemainingWrapperStraddlesSeam
PROPERTIES
  ScanServesCalls
  EveryCallReturns
CHECK_DEADLOCK FALSE
