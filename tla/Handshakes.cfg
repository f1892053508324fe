CONSTANTS
  Conns = {c1, c2}
  Srcs = {a}
  NoConn = NoConn
SPECIFICATION Spec
INVARIANT RelayUnbounded
