\* One camera, both submitters: the two queues, and who can strand work.
SPECIFICATION Spec
CONSTANTS
  NumCameras = 1
  MaxCommands = 2
  MaxRuns = 1
  MayExit = FALSE
INVARIANTS TypeOK ModeRecordPresent SerialSubmissionsPair NoForgottenTicket
PROPERTY OnlySuspendStrands
CHECK_DEADLOCK FALSE
