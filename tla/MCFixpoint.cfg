SPECIFICATION FairSpec
CONSTANTS
  MaxManifestLength <- MCMaxManifestLength
  Frames <- MCFrames
  Opaque <- MCOpaque
INVARIANTS
  NoFittingPadIsMissed
  WorkIsBounded
PROPERTIES
  SolveKeepsPromise
  SolveReturns
CHECK_DEADLOCK FALSE
