CONSTANTS
  NumIters = 4
  Warmup = 1
  MaxRuns = 3
SPECIFICATION MainSpec
INVARIANT NameCountsIterations
