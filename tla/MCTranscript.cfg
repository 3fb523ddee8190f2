CONSTANTS
  Stores <- MCStores
  Script <- MCScript
  MaxAppends = 2
  MaxEdits = 3
  Requests <- MCRequests
  MaxReads = 2
  Chunk = 3
  HelperEnds = {"exit-1", "unavailable"}
  MayStick = TRUE
  Walks = {1, 2}
  Listings <- MCListings
  OpenSources = 1
  PrefixBytes = 1
  MaxPrefix = 4
  MCCommands = {"read", "list"}
SPECIFICATION Spec
CHECK_DEADLOCK FALSE
INVARIANTS
  ReadTruthful
  ConversationExact
  ListComplete
PROPERTIES
  CommandEnds
