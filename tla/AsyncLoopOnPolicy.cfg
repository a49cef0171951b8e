SPECIFICATION FairSpec
CONSTANTS
  WindowSize = 1
  NumPromptsPerTrainStep = 1
  TargetOffpolicySteps = 0
  MaxActive = 1
  NumTrainingSteps = 2
  StartStep = 0
  MaxDropped = 0
  MayFail <- SyncFailures
  Generators = {g1}
  GroupIds <- MCGroupIds
CHECK_DEADLOCK FALSE
PROPERTIES
  SyncFailureEndsRun
