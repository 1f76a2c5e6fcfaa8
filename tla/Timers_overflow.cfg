CONSTANTS
  a = a
  b = b
  None = None
  Forever = Forever
  LoopTimers = {a}
  ThreadTimers = {b}
  Intervals = {0, 2}
  IntSpan = 4
  MaxTasks = 2
  Shifts = {0}
  MaxTime = 4
  MaxBusy = 1
SPECIFICATION Spec
INVARIANTS SleepIsBounded
