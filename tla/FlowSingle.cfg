\* Only camera 1 has an AutoDone output, so only camera 1 ever arms.
SPECIFICATION FairSpec
CONSTANTS
  TriggerCams = {0, 1}
  PinnedCams = {1}
  DoutModes = {TRUE, FALSE}
  Outcomes = {"noRecipe", "broken", "good"}
  MaxTriggers = 2
  MaxAutoTests = 2
  MaxCommandRuns = 0
PROPERTIES TriggerAccepted RunAnswered
