------------------------------ MODULE MCDNSCache ------------------------------
(* DNSCache for TLC: three names and the empty one, which normalizeHost makes  *)
(* of ".".                                                                   *)
EXTENDS DNSCache

MCHosts == {"a", "b", "c", ".", ""}
MCCanonical == [h \in MCHosts |-> IF h = "." THEN "" ELSE h]
MCLocalKey ==
  [h \in MCHosts |-> CASE h = "a" -> "local:a" [] h = "b" -> "local:b"
                       [] h = "c" -> "local:c" [] h = "." -> "local:."
                       [] OTHER -> "local:"]
MCLiteral == [h \in MCHosts |-> "none"]
MCAnswers == {<<"pub4">>}
==============================================================================
