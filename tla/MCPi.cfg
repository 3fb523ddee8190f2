CONSTANTS
  MaxSends = 2
  MaxInterrupts = 1
  StallArmed = TRUE
  PipeBreakable = TRUE
  Walls = {"limit"}
  ExitCodes = {"zero"}
SPECIFICATION Spec
INVARIANTS
  WireInv
  TurnsInv
  InterruptInv
PROPERTIES
  ImplementsContract
CONSTRAINT Focused
