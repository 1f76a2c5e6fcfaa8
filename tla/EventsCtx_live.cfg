CONSTANTS
  u1 = u1
  u2 = u2
  w1 = w1
  None = None
  Users = {u1, u2}
  Workers = {w1}
  Counts = {1}
  MaxLoops = 3
SPECIFICATION FairSpec
PROPERTIES CallsReturn
CHECK_DEADLOCK FALSE
