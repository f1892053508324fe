CONSTANTS
  Kinds <- SOCKS5Only
  Conns = {c1, c2}
  Limit = 1
  NoConn = NoConn
SPECIFICATION FairSpec
PROPERTY BacklogServed
