SPECIFICATION FairSpec
CONSTANTS
  LastStep = 5
  Interval = 2
  FirstStep = TRUE
  KeepLatestK = 2
  Exempt = {2}
  AsyncModes = {"disabled", "async", "async_with_pinned_mem"}
  LastSave = "full"
  LoadStep <- Latest
  Earlier <- EmptyOrSeed
  MaxDeaths = 2
INVARIANTS
  LatestLoads
  KeepsLatestK
  SaveUndisturbed
  NoTornSnapshot
PROPERTIES
  ImplementsRegister
  JobEnds
