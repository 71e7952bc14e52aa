CONSTANTS
  MaxSeeds = 3
  Edges <- MCEdges
  Traces <- MCTraces
  Lens = {1, 2}
  ExecUs = {1}
  Contents = {c1}
  Schedule = "FAST"
  MaxFuzzLevel = 0
  MaxRescore = 1
  MaxNodesPerSeed = 3
  Null = Null
SPECIFICATION SetCoverSpec
INVARIANT SetCoverTerminates
