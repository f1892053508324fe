CONSTANTS
  Kinds <- HTTPOnly
  Conns = {c1}
  Limit = 0
  NoConn = NoConn
SPECIFICATION Spec
INVARIANT DrainedIsFinished
