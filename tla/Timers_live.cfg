CONSTANTS
  a = a
  b = b
  None = None
  Forever = Forever
  LoopTimers = {a}
  ThreadTimers = {b}
  Intervals = {1}
  IntSpan = 64
  MaxTasks = 2
  Shifts = {0, 1}
  MaxTime = 3
  MaxBusy = 1
SPECIFICATION FairSpec
PROPERTIES PassEnds ResetFires TrueRepeats
