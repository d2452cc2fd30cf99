\* Both cameras in the cycle, restarts, runs the backend commands itself.
SPECIFICATION Spec
CONSTANTS
  TriggerCams = {0, 1}
  PinnedCams = {0, 1}
  DoutModes = {TRUE}
  Outcomes = {"good"}
  MaxTriggers = 2
  MaxAutoTests = 1
  MaxCommandRuns = 1
INVARIANTS TypeOK TriggerConservation OneRunPerTrigger OneAnswerPerTrigger WaitMeansUnwoken
           LitWhileRunning CleanSlate
PROPERTIES DoneMeansOwnRunDone
