CONSTANTS
  MaxManifestLength = 100
  MaxNonstarters = 1
  Algorithms = {"sha256", "sha384"}
  Times = {1, 2, 3}
  Assets <- MCAssets
  Genuine <- MCGenuine
  Contexts <- MCContexts
SPECIFICATION FairSpec
INVARIANTS
  AcceptedTextWasSigned
  GenuineTextIsAccepted
  EveryPhaseReports
  AcceptedSpanIsExcluded
  HashWorkIsBounded
  AcceptedStoryIsCreation
  CredentialValidAtOneInstant
PROPERTIES
  VerifyJudgesOnce
  VerifyEnds
CHECK_DEADLOCK FALSE
