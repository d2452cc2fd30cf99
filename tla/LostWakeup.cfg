SPECIFICATION FairSpec
CONSTANTS
  NumCameras = 1
  MaxCommands = 1
  MaxRuns = 0
  MayExit = FALSE
PROPERTY QueuedTaskTaken
CHECK_DEADLOCK FALSE
