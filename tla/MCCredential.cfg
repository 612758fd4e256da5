CONSTANTS
  Keys <- MCKeys
  Chains <- MCChains
  Claims <- MCClaims
  Foreign <- MCForeign
  Edits <- MCEdits
  MaxEdits = 2
SPECIFICATION Spec
INVARIANTS
  OwnSignatureIsAccepted
  UnsignedEditsHaveNoSay
  AcceptedCredentialWasSigned
  LeafIsNoCarriedCa
  StatusIsTheOneVerifyFiles
CHECK_DEADLOCK FALSE
