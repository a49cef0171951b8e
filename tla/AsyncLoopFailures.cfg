SPECIFICATION FairSpec
CONSTANTS
  WindowSize = 2
  NumPromptsPerTrainStep = 1
  TargetOffpolicySteps = 1
  MaxActive = 2
  NumTrainingSteps = 3
  StartStep = 1
  MaxDropped = 1
  MayFail <- AllFailures
  Generators = {g1, g2}
  GroupIds <- MCGroupIds
INVARIANTS
  NoTornRead
  VersionLabelTrue
PROPERTIES
  Termination
  SyncFailureEndsRun
