SPECIFICATION Spec
CONSTANTS
  LastStep = 5
  Interval = 2
  FirstStep = TRUE
  KeepLatestK = 2
  Exempt = {}
  AsyncModes = {"disabled", "async", "async_with_pinned_mem"}
  LastSave = "hf"
  LoadStep <- Latest
  Earlier <- EmptyOrSeed
  MaxDeaths = 1
INVARIANTS
  RestartLoads
