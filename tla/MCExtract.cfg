CONSTANT Payloads <- MCPayloads
SPECIFICATION Spec
INVARIANTS
  LastManifestIsActive
  PartsAreUnambiguous
  EveryAssertionIsKept
  DamageMeansDamage
CHECK_DEADLOCK FALSE
