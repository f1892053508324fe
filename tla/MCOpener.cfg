CONSTANTS
  Callers = {s1, s2}
  Hosts <- MCHosts
  NoName = ""
  Canonical <- MCCanonical
  LocalKey <- MCLocalKey
  Literal <- MCLiteral
  NoAddr = "none"
  TunnelAnswers <- MCTunnelAnswers
  LocalAnswers <- MCLocalAnswers
  MaxSize = 2
  TTL = 2
  NegativeTTL = 1
  LocalOnNXDomain = TRUE
  MaxTime = 1
  Private = {"lan", "lo"}
  HostLocal = {"lo"}
  IPv4 = {"pub4", "lan", "lo"}
  Family = "both"
  RuleLists <- MCRuleLists
SYMMETRY Symmetry
SPECIFICATION Spec
INVARIANTS PoliciesApart AddressesFitRoute DirectNamesStayLocal
PROPERTIES CacheBounded AnswersAreFresh LiveEntriesKept DirectOnlyWhileDown
