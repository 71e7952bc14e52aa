CONSTANTS
  MaxN = 4
  Weights = {1}
  Schedules = {"FAST", "RARE"}
  MaxDiscovered = 0
  Handicaps = {5}
  Attrs <- MCAttrsHeld
  Globals <- MCGlobals
  Null = Null
SPECIFICATION AliasSpec
INVARIANT AliasTypeOK
INVARIANT AliasDistributionExact
PROPERTY SelectNeverDisabled
