CONSTANTS
  s1 = s1  s2 = s2  s3 = s3  s4 = s4  s5 = s5
  w1 = w1  w2 = w2  w3 = w3
  Nil = Nil
  Segments = {s1, s2, s3, s4, s5}
  Threads = {w1, w2}
  Takers = {w1, w2}
  MaxHeld = 2
SPECIFICATION Spec
INVARIANT OneUse
SYMMETRY Symmetry
CHECK_DEADLOCK FALSE
