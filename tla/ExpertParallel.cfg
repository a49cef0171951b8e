SPECIFICATION ExpertParallelSpec
CONSTANTS
  NumLayers = 2
  Precision = "float32"
  Setups <- MCSetups
  PadMultiples = {0, 2}
INVARIANTS
  RowsInPlace
  DispatchersAgree
