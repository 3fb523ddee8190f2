CONSTANTS
  MaxCommands = 2
  MaxTurns = 1
  Scopes <- MCScopes
SPECIFICATION FairSpec
INVARIANTS
  LinesInOrder
PROPERTIES
  AnswerHeard
  EndsInOrder
CHECK_DEADLOCK FALSE
