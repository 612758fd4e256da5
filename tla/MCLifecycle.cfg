CONSTANTS
  MaxManifestLength = 2
  MaxNonstarters = 1
  Algorithms = {"sha256", "sha384"}
  Times = {1, 2}
  MaxMarks = 2
  MaxEvents = 3
  Paddings <- MCPaddings
  Authored <- MCAuthored
  Signers <- MCSigners
  Contexts <- MCContexts
SPECIFICATION Spec
INVARIANTS
  EmbeddedTextIsAccepted
  AcceptedTextWasEmbedded
  StripUndoesEmbed
PROPERTY EmbedAddsTheOnlyMark
CHECK_DEADLOCK FALSE
