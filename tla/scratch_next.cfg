CONSTANTS
  g1 = g1  g2 = g2  g3 = g3  a1 = a1  a2 = a2  w1 = w1  w2 = w2
  None = None  Quit = Quit
  Subgames = {g1, g2}
  Arrays = {a1, a2}
  Workers = {w1}
  NetworkCopies = 1
  MayCut = {g1, g2}
  Failing = {}
  MaxRuns = 1
  QueueSize = 3
  Schedule <- ResponseBetween
SPECIFICATION Spec
INVARIANT NoAbort
