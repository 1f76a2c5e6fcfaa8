CONSTANTS
  a = a
  b = b
  None = None
  Forever = Forever
  LoopTimers = {a}
  ThreadTimers = {b}
  Intervals = {0, 2}
  IntSpan = 64
  MaxTasks = 2
  Shifts = {0, 2}
  MaxTime = 4
  MaxBusy = 1
SPECIFICATION Spec
INVARIANTS TypeOK TaskInOnePlace OneActiveTask CancelIsFinal NotEarly SleepIsBounded
PROPERTIES EarliestFirst
