CONSTANTS
  a = a
  b = b
  s1 = s1
  s2 = s2
  Nobody = Nobody
  Consumer = {a, b}
  Shard = {s1}
  MaxMoves = 1
SPECIFICATION Spec
PROPERTY RemovedStaysRemoved
