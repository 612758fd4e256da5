CONSTANTS
  MaxManifestLength = 100
  MaxNonstarters = 1
  Algorithms = {"sha256", "sha384"}
  Times = {1, 2, 3}
  Assets <- MCAssets
  Genuine <- MCGenuine
  Contexts <- MCContexts
SPECIFICATION Spec
INVARIANT InceptionIsCreated
CHECK_DEADLOCK FALSE
