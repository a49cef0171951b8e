SPECIFICATION FairSpec
CONSTANTS
  NumCandidates = 2
  Setups <- MCSetups
  s1 = s1
  s2 = s2
  c1 = c1
  c2 = c2
  c3 = c3
  Sessions = {s1, s2}
  NoSession = none
  Calls = {c1, c2, c3}
  SessionOf <- MCSessionOf
  MaxPulls = 2
  PullMayFail = TRUE
INVARIANTS
  LoadAccounting
  DrainedWhilePulling
  NoRouteAssertion
  NoCandidateStarves
  SessionAffinity
PROPERTIES
  ImplementsPool
  RouterProgress
