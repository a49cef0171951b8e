SPECIFICATION Spec
CONSTANTS
  Generators = {g1}
  Setups <- MCSetups
INVARIANTS
  TrainedAsSampled
