CONSTANTS
  s1 = s1  s2 = s2  s3 = s3  s4 = s4  s5 = s5
  w1 = w1  w2 = w2  w3 = w3
  Nil = Nil
  Segments = {s1, s2, s3, s4}
  Threads = {w1, w2}
  Takers = {w1}
  MaxHeld = 3
SPECIFICATION Spec
INVARIANTS TypeOK OneUse ListsLinked
PROPERTIES Linearizes
