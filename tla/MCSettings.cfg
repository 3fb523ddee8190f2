CONSTANTS
  MaxOps = 3
  big = big
  small = small
  low = low
  high = high
  Models = {big, small}
  Efforts = {low, high}
  Spawned = big
  Harnesses <- MCHarnesses
  Asks <- MCAsks
  Ladder <- MCLadder
SPECIFICATION FairSpec
INVARIANTS
  SettlementsInv
PROPERTIES
  EffectiveSettings
  OpsSettle
