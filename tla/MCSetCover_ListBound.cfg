CONSTANTS
  MaxSeeds = 3
  Edges <- MCEdges
  Traces <- MCUnitTraces
  Lens = {1, 2}
  ExecUs = {1}
  Contents = {c1}
  Schedule = "FAST"
  MaxFuzzLevel = 0
  MaxRescore = 0
  MaxNodesPerSeed = 2
  Null = Null
SPECIFICATION SetCoverSpec
INVARIANT CoverListWithinBound
