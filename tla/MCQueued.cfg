CONSTANTS
  SessionKinds = {"codex", "popeye", "antigravity"}
  MaxSends = 2
  StallArmed = TRUE
  PipeBreakable = TRUE
SPECIFICATION FairSpec
INVARIANTS
  TurnsAttributed
PROPERTIES
  ImplementsFates
  CloseEnds
