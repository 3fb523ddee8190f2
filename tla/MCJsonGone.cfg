CONSTANTS
  MaxCommands = 0
  MaxTurns = 1
  Scopes <- MCGone
SPECIFICATION FairSpec
PROPERTIES
  GoneExits
CHECK_DEADLOCK FALSE
