SPECIFICATION Spec
CONSTANTS
  Generators = {g1, g2}
  Setups <- MCPulls
INVARIANTS
  MinVersionIsOldest
