CONSTANTS
  Kinds <- BothKinds
  Conns = {c1, c2}
  Limit = 1
  NoConn = NoConn
SPECIFICATION Spec
SYMMETRY Symmetry
INVARIANTS SlotPerClient OneAccessLine CountsInFlight DrainLeavesOne
