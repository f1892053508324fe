CONSTANTS
  Kinds <- BothKinds
  Conns = {c1}
  Limit = 1
  NoConn = NoConn
SPECIFICATION FairSpec
PROPERTIES ShutdownEnds StalledRequestEnds
