CONSTANTS
  u1 = u1
  u2 = u2
  w1 = w1
  w2 = w2
  None = None
  Users = {u1, u2}
  Workers = {w1, w2}
  Counts = {1, 2}
  MaxLoops = 4
SPECIFICATION Spec
INVARIANTS TypeOK OneDefaultLoop OnePool
SYMMETRY Symmetry
CHECK_DEADLOCK FALSE
