\* Two cameras: one of them alone, and both at once.
SPECIFICATION FairSpec
CONSTANTS
  Cameras = {0, 1}
  Scripts <- AllScripts
  FlowScripts <- FlowScript
  MaxFlowRuns = 1
  MaxFaults = 1
INVARIANTS OwnMode RecordingIsOwn
PROPERTIES DoneMeansMeasured DoneRanRecording TriggerAnswered
CHECK_DEADLOCK FALSE
