SPECIFICATION FairSpec
CONSTANTS
  DpDegree = 2
  q1 = q1
  q2 = q2
  Requests = {q1, q2}
  MaxPulls = 1
  Setups <- MCSetups
INVARIANTS
  RequestHeldOnce
  VersionsBounded
  PullPrecedesCalls
  DrainSurvives
PROPERTIES
  CallersAnswered
  CloseReleasesCallers
