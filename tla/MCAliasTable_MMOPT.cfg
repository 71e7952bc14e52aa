CONSTANTS
  MaxN = 4
  Weights = {1, 2, 3}
  Schedules = {"MMOPT"}
  MaxDiscovered = 2
  Handicaps = {5}
  Attrs <- MCAttrsHeld
  Globals <- MCGlobals
  Null = Null
SPECIFICATION AliasSpec
INVARIANT AliasDistributionExact
