CONSTANTS
  Requests = {r1, r2}
  Decisions = {d1, d2}
  Items = {i1}
  ChoiceIds = {"once", "deny"}
  PendingCap = 1
  IdentityCap = 2
  StallArmed = TRUE
  DeadlineArmed = TRUE
SPECIFICATION FairSpec
INVARIANTS
  OneAnswer
  PromptEvidence
  RequestsInv
  CleanIsClean
PROPERTIES
  TurnEnds
CONSTRAINT Focused
