SPECIFICATION FairSpec
CONSTANTS
  NumCameras = 1
  MaxCommands = 1
  MaxRuns = 1
  MayExit = TRUE
PROPERTIES ResumeHonoured TeardownJoins
CHECK_DEADLOCK FALSE
