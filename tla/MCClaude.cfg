CONSTANTS
  MaxSends = 3
  MaxRuns = 3
  MaxOutputs = 1
  MaxRequests = 2
  PendingCap = 1
  Scopes <- MCScopes
SPECIFICATION FairSpec
INVARIANTS
  OutputBelongs
  ApprovalsInv
PROPERTIES
  ImplementsFates
  ClosesCleanly
