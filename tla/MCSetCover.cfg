CONSTANTS
  MaxSeeds = 4
  Edges <- MCEdges4
  Traces <- MCGreedyTraces
  Lens = {1}
  ExecUs = {1}
  Contents = {c1}
  Schedule = "FAST"
  MaxFuzzLevel = 0
  MaxRescore = 0
  MaxNodesPerSeed = 3
  Null = Null

SPECIFICATION SetCoverSpec

INVARIANT SetCoverTerminates
PROPERTY CoverGreedy
