CONSTANTS
  l1 = l1
  t1 = t1
  t2 = t2
  None = None
  Loops = {l1}
  Threads = {t1, t2}
  PipeCapacity = 2
  ReadSize = 1
  MaxPosts = 2
SPECIFICATION Spec
SYMMETRY Symmetry
INVARIANTS TypeOK NoLostWakeUp PosterOrder TasksConserved
