CONSTANTS
  Callers = {s1}
  Hosts <- MCHosts
  NoName = ""
  Canonical <- MCCanonical
  LocalKey <- MCLocalKey
  Literal <- MCLiteral
  NoAddr = "none"
  TunnelAnswers <- MCAnswers
  LocalAnswers <- MCAnswers
  MaxSize = 2
  TTL = 2
  NegativeTTL = 1
  LocalOnNXDomain = FALSE
  MaxTime = 2
SPECIFICATION CacheSpec
PROPERTY EvictsOldest
