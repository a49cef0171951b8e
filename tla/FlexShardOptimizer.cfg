SPECIFICATION OptimizerSpec
CONSTANTS
  Ranks = {0, 1}
  NumSlots = 2
  PlanSets <- MCPlanSets
  Models <- MCModels
  NumSteps = 2
  MayRaise = {0}
INVARIANTS
  NoBufferRace
  PlansDeliver
PROPERTIES
  ImplementsOptimizerSteps
