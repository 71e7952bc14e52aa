CONSTANTS
  MaxSeeds = 2
  Edges <- MCEdges
  Traces <- MCTraces
  Lens = {1, 2}
  ExecUs = {1}
  Contents = {c1, c2}
  Schedule = "FAST"
  MaxFuzzLevel = 0
  MaxRescore = 1
  MaxNodesPerSeed = 2
  Null = Null
  Interval = 1
  MaxTime = 1
  AllowCopyFail = FALSE
  AllowReadFail = FALSE
  AllowStepBack = TRUE

SYMMETRY ContentSymmetry

SPECIFICATION Spec

INVARIANT PendingNotFuzzedExact
PROPERTY MinimizationExact
