CONSTANTS
  Samples <- MCSamples
  CallOf <- MCCallOf
  MaxEvents = 2
  Observing = {TRUE, FALSE}
  MCHarnesses = {"claude", "codex", "pi", "muse", "cursor", "antigravity", "popeye"}
SPECIFICATION Spec
INVARIANTS
  FlagOnce
  PolicyHolds
  SettingsBound
  RunTold
CHECK_DEADLOCK FALSE
