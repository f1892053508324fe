CONSTANTS
  Lookups = {l1, l2}
  N = 2
  LookupTimeout = 4
  TunnelTimeout = 2
  Pause = 5
  LocalOnNXDomain = TRUE
  ClaimDelay = 1
  MaxTime = 7
SYMMETRY Symmetry
SPECIFICATION Spec
INVARIANTS OneProbe ProbingEnds
PROPERTIES LocalGetsTheRest EqualShare
