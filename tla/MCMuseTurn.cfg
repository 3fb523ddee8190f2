CONSTANTS
  StdoutRecords <- SomeRecords
  StderrRecords = {"credential"}
  MaxRecords = 2
  Budgets <- SomeBudgets
  StdinPrompt = TRUE
  Observed = TRUE
  Requests = {r}
  AutoPolls <- SelfResolving
  APPROVAL_STUCK_POLLS = 1
  AUTO_RESOLVE_MARGIN_POLLS = 1
  MAX_AUTO_RESOLVE_POLLS = 2
  MAX_UNREADABLE_POLLS = 2
  HELPER_START_ATTEMPTS = 2
  MaxCompactions = 1
SPECIFICATION MuseFairSpec
CONSTRAINT Focused
INVARIANTS
  VerdictFollowsStream
  CleanIsClean
  WatchTruthful
PROPERTIES
  StopsOnce
  StopEnds
CHECK_DEADLOCK FALSE
