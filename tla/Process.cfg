CONSTANTS
  MaxKeys = 3
  MaxFaults = 2
  MaxEdits = 1
SPECIFICATION Spec
INVARIANTS NoTornFile PairMatches MarkerMeansShown LineIsCurrent ActiveMeansListening
PROPERTIES KeyKept StopEnds StartEnds
