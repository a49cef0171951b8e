SPECIFICATION Spec
CONSTANTS
  Rows = 3
  PrefetchBatches = 2
  Configs <- MCConfigs
  Degrees = {1, 2}
  NumSteps = 5
  Interval = 2
  MaxDeaths = 2
  MaxCorruptions = 2
INVARIANTS
  TrainsExactly
  ReplayFindsCorruption
  CapturesAtThirdStep
