CONSTANTS
  g1 = g1  g2 = g2  g3 = g3  a1 = a1  a2 = a2  w1 = w1  w2 = w2
  None = None  Quit = Quit
  Subgames = {g1, g2, g3}
  Arrays = {a1, a2}
  Workers = {w1, w2}
  NetworkCopies = 2
  MayCut = {g1}
  Failing <- TwoFiles
  MaxRuns = 2
  QueueSize = 2
  Schedule <- ResponseLast
SPECIFICATION FairSpec
INVARIANTS TypeOK PoolConserved JobsSeeLatest FilesCurrent
PROPERTIES ServesJobs PassesEnd
