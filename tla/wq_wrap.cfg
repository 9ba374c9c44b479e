CONSTANTS
  j1 = j1  j2 = j2  j3 = j3  j4 = j4
  p1 = p1  p2 = p2  c1 = c1  c2 = c2
  None = None
  Jobs <- FourJobs
  Producers = {p1}
  Consumers = {c1, c2}
  Size = 3
SPECIFICATION Spec
INVARIANT NoOverwrite
