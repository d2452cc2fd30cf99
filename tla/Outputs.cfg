SPECIFICATION FairSpec
CONSTANTS
  Outputs = {1, 2}
  Periods = {0, 2}
  Strays = {0, 1}
  MaxCommands = 3
INVARIANTS LevelAsAsked PulseLength
PROPERTIES PulsesEnd
CHECK_DEADLOCK FALSE
