------------------------------- MODULE MCOpener -------------------------------
(* Opener for TLC: a listed name with no, one and two dots after it, the     *)
(* host name that is its local key, and a private literal; public addresses  *)
(* of both families, a LAN address and loopback.  The name is listed as a    *)
(* domain, or after an ip rule by a regular expression that allows the dot.  *)
EXTENDS Opener, TLC

MCHosts == {"intra", "intra.", "intra..", "local:intra", "10.0.0.1"}
MCCanonical ==
  [h \in MCHosts |-> CASE h = "intra." -> "intra" [] h = "intra.." -> "intra."
                       [] OTHER -> h]
MCLocalKey ==
  [h \in MCHosts |-> CASE h = "intra" -> "local:intra" [] h = "intra." -> "local:intra."
                       [] h = "intra.." -> "local:intra.."
                       [] h = "local:intra" -> "local:local:intra"
                       [] OTHER -> "local:10.0.0.1"]
MCLiteral == [h \in MCHosts |-> IF h = "10.0.0.1" THEN "lan" ELSE "none"]
MCTunnelAnswers == {<<"lan", "pub6", "pub4">>}
MCLocalAnswers == {<<"lo", "lan">>}
MCDomainRule == [kind |-> "name", match |-> {"intra"}]
MCRegexRule == [kind |-> "name", match |-> {"intra", "intra."}]
MCIPRule == [kind |-> "ip", match |-> {"pub6"}]
MCRuleLists == {<<MCIPRule, MCRegexRule>>, <<MCDomainRule>>}
Symmetry == Permutations(Callers)
==============================================================================
