SPECIFICATION Spec
CONSTANTS
  WindowSize = 2
  NumPromptsPerTrainStep = 1
  TargetOffpolicySteps = 1
  MaxActive = 2
  NumTrainingSteps = 4
  StartStep = 0
  MaxDropped = 1
  MayFail <- RolloutFailures
  Generators = {g1, g2}
  GroupIds <- MCGroupIds
INVARIANTS
  PolicyAgeBound
  WindowedFIFO
  SlotAccounting
  NoSpuriousCrash
  CompletedRun
PROPERTIES
  SlotsReleasedAfterPull
  ImplementsFreshTraining
