SPECIFICATION Spec
CONSTANTS
  Inputs = {1, 2}
  WinLo = 12
  WinHi = 14
  Forget = 20
  Timeout = 2
  Sleeps <- SleepTimes
  MaxFlips = 3
  MaxSets = 1
INVARIANTS Debounced OncePerPress
CHECK_DEADLOCK FALSE
