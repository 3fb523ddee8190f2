CONSTANTS
  MaxSends = 2
  MaxInterrupts = 0
  StallArmed = TRUE
  PipeBreakable = FALSE
  Walls = {}
  ExitCodes = {"signal"}
SPECIFICATION FairSpec
PROPERTIES
  DrainLetsTurnFinish
  SessionProgress
