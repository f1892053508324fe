-------------------------------- MODULE Opener --------------------------------
(***************************************************************************)
(* The opener of ssh-gate (opener.go, rules.go, routing.go) over the DNS   *)
(* cache: for every proxied connection it decides the route, resolves the  *)
(* host by the route's policy and dials down the list of addresses.        *)
(*                                                                         *)
(* Opens run concurrently and share the cache, its lookups and the tunnel. *)
(* An address is known by its class: the private ranges, the host-local    *)
(* part of them, and its family.                                           *)
(***************************************************************************)
EXTENDS DNSCache

CONSTANTS
  Private,      \* addresses isPrivate reports
  HostLocal,    \* those of them that dropHostLocal drops
  IPv4,         \* addresses with Is4()
  Family,       \* DIRECT_IP_FAMILY: "both", "ipv4" or "ipv6"
  RuleLists     \* values of DIRECT_RULES, in the order of the configuration

Elements(list) == {list[i] : i \in DOMAIN list}

(* What a lookup can return. *)
Addresses ==
  {Literal[h] : h \in Hosts}
  \union UNION {Elements(a) : a \in TunnelAnswers \union LocalAnswers}

(* A rule: kind "ip" with the addresses of its prefix, or kind "name" (a    *)
(* domain or a regular expression) with the canonical hosts it matches.     *)
Rule == [kind : {"ip", "name"}, match : SUBSET (Hosts \union Addresses)]

ASSUME OpenerAssumption ==
  /\ TunnelAnswers \union LocalAnswers \subseteq Seq(Addresses)
  /\ RuleLists \subseteq Seq(Rule)

VARIABLES
  rules,    \* e.rules, fixed at the start
  sess,     \* what each open is doing
  sawDown   \* history: the tunnel was down at some moment of this open up
            \* to the dial, or when the lookup that it shares answered

vars == <<now, up, cache, flight, call, rules, sess, sawDown>>

Sessions == Callers

Nobody == [pc |-> "idle", host |-> NoName, rule |-> 0, route |-> "none",
           reason |-> "none", addrs |-> <<>>]

Resolving(s) == sess[s].pc \in {"matching", "resolve"}

(* A loop that appends the elements it wants, which are at the positions I. *)
Pick(list, I) ==
  LET out[n \in 0 .. Len(list)] ==
        IF n = 0 THEN <<>>
        ELSE IF n \in I THEN Append(out[n - 1], list[n]) ELSE out[n - 1]
  IN  out[Len(list)]

(* Mutant: the rules stay in the order of the configuration. *)
configuredRules(direct) == direct

(* The rules that need no lookup come first. *)
NewRuleEngine(direct) ==
  Pick(direct, {i \in DOMAIN direct : direct[i].kind = "name"})
  \o Pick(direct, {i \in DOMAIN direct : direct[i].kind = "ip"})

TypeOK ==
  /\ CacheTypeOK
  /\ rules \in {NewRuleEngine(list) : list \in RuleLists}
  /\ \A s \in Sessions :
       /\ sess[s].pc \in {"idle", "matching", "resolve", "dial"}
       /\ sess[s].host \in Hosts \union {NoName}
       /\ sess[s].rule \in 0 .. Len(rules)
       /\ sess[s].route \in {"none", "direct", "tunnel"}
       /\ sess[s].reason \in {"none", "private", "rule", "fallback", "local-private"}
       /\ sess[s].pc = "dial" => sess[s].addrs # <<>>
  /\ sawDown \in [Sessions -> BOOLEAN]

Init ==
  /\ CacheInit
  /\ rules \in {NewRuleEngine(list) : list \in RuleLists}
  /\ sess = [s \in Sessions |-> Nobody]
  /\ sawDown = [s \in Sessions |-> FALSE]

------------------------------------------------------------------------------
(* The rules.                                                               *)

(* Mutant: an address with a zone passes as public. *)
isPrivateUnzoned(a) == a \in Private \ HostLocal

isPrivate(a) == a \in Private

isPrivateHost(h) == Literal[h] # NoAddr /\ isPrivate(Literal[h])

(* The rules from the i-th on that decide something about a host without or *)
(* with a lookup: the name rules that match it, and all ip rules.           *)
RulesLeft(h, i) ==
  {j \in i .. Len(rules) : rules[j].kind = "ip" \/ h \in rules[j].match}

FirstRule(h, i) == CHOOSE j \in RulesLeft(h, i) : \A l \in RulesLeft(h, i) : j <= l

Is(pc, h, j, route, reason) ==
  [pc |-> pc, host |-> h, rule |-> j, route |-> route, reason |-> reason,
   addrs |-> <<>>]

(* candidates: the host is resolved by the policy of its route. *)
Resolves(s, h, route, reason) ==
  /\ sess' = [sess EXCEPT ![s] = Is("resolve", h, 0, route, reason)]
  /\ Asks(s, IF route = "direct" THEN "local" ELSE "tunnel", h)

(* Decide from the i-th rule on: a name rule that matches means direct; an  *)
(* ip rule needs the host's addresses by the tunnel policy, and ResolveAll  *)
(* normalizes what Decide has normalized; with no rule left the route is    *)
(* the tunnel.                                                              *)
Decides(s, h, i) ==
  LET left == RulesLeft(normalizeHost(h), i)
      j == FirstRule(normalizeHost(h), i)
  IN  \/ /\ left = {}
         /\ Resolves(s, h, "tunnel", "fallback")
      \/ /\ left # {}
         /\ rules[j].kind = "name"
         /\ Resolves(s, h, "direct", "rule")
      \/ /\ left # {}
         /\ rules[j].kind = "ip"
         /\ sess' = [sess EXCEPT ![s] = Is("matching", h, j, "none", "none")]
         /\ Asks(s, "tunnel", normalizeHost(h))

(* A proxy asks for a connection to a host, in the client's spelling; a     *)
(* private literal goes direct before any rule.                             *)
Open(s, h) ==
  /\ sess[s].pc = "idle"
  /\ \/ isPrivateHost(normalizeHost(h)) /\ Resolves(s, h, "direct", "private")
     \/ ~isPrivateHost(normalizeHost(h)) /\ Decides(s, h, 1)
  /\ sawDown' = [sawDown EXCEPT ![s] = ~up]
  /\ UNCHANGED rules

HasResult(s) == call[s].st = "back"

(* An ip rule looks at the answer of its lookup; a failed one matches not.  *)
MatchesAddr(s) ==
  LET host == sess[s].host
      hit == \E i \in DOMAIN call[s].res.addrs :
               call[s].res.addrs[i] \in rules[sess[s].rule].match
  IN  /\ sess[s].pc = "matching"
      /\ HasResult(s)
      /\ \/ hit /\ Resolves(s, host, "direct", "rule")
         \/ ~hit /\ Decides(s, host, sess[s].rule + 1)
      /\ UNCHANGED <<rules, sawDown>>

------------------------------------------------------------------------------
(* candidates.                                                              *)

familyMatches(a) ==
  \/ Family = "both"
  \/ Family = "ipv4" /\ a \in IPv4
  \/ Family = "ipv6" /\ a \notin IPv4

public(addrs) == Pick(addrs, {i \in DOMAIN addrs : ~isPrivate(addrs[i])})

dropHostLocal(addrs) == Pick(addrs, {i \in DOMAIN addrs : addrs[i] \notin HostLocal})

pickTunnelAddr(addrs) ==
  LET v4 == Pick(addrs, {i \in DOMAIN addrs : addrs[i] \in IPv4})
  IN  IF v4 # <<>> THEN Head(v4) ELSE Head(addrs)

tunnelOrder(addrs) ==
  <<pickTunnelAddr(addrs)>>
  \o Pick(addrs, {i \in DOMAIN addrs : addrs[i] # pickTunnelAddr(addrs)})

directOrder(addrs) == Pick(addrs, {i \in DOMAIN addrs : familyMatches(addrs[i])})

(* The tunnel route turns direct for a private answer of the local resolver.*)
mayGoDirect(r) == r.localDirect /\ dropHostLocal(r.addrs) # <<>>

(* What is dialed, and how; no addresses is an error. *)
candidates(s, r) ==
  CASE sess[s].route = "direct" ->
         [route |-> "direct", reason |-> sess[s].reason, addrs |-> directOrder(r.addrs)]
    [] sess[s].route = "tunnel" /\ public(r.addrs) # <<>> ->
         [route |-> "tunnel", reason |-> sess[s].reason,
          addrs |-> tunnelOrder(public(r.addrs))]
    [] sess[s].route = "tunnel" /\ public(r.addrs) = <<>> /\ mayGoDirect(r) ->
         [route |-> "direct", reason |-> "local-private",
          addrs |-> directOrder(dropHostLocal(r.addrs))]
    [] OTHER -> [route |-> "tunnel", reason |-> sess[s].reason, addrs |-> <<>>]

Resolved(s) ==
  LET c == candidates(s, call[s].res)
  IN  /\ sess[s].pc = "resolve"
      /\ HasResult(s)
      /\ \/ /\ c.addrs # <<>>
            /\ sess' = [sess EXCEPT ![s] =
                 [Nobody EXCEPT !.pc = "dial", !.route = c.route,
                                !.reason = c.reason, !.addrs = c.addrs]]
         \/ /\ c.addrs = <<>>
            /\ sess' = [sess EXCEPT ![s] = Nobody]
      /\ sawDown' = [sawDown EXCEPT ![s] = FALSE]
      /\ Frees(s)
      /\ UNCHANGED rules

------------------------------------------------------------------------------
(* Open, the dials.                                                         *)

(* An address fails; the next one is tried, the first error is reported     *)
(* when none is left.                                                       *)
DialFails(s) ==
  /\ sess[s].pc = "dial"
  /\ \/ /\ Len(sess[s].addrs) > 1
        /\ sess' = [sess EXCEPT ![s].addrs = Tail(@)]
     \/ /\ Len(sess[s].addrs) = 1
        /\ sess' = [sess EXCEPT ![s] = Nobody]
  /\ UNCHANGED <<cacheVars, rules, sawDown>>

(* A dial succeeds; through the tunnel only while it is up.  Resolve, which *)
(* dials nothing and wants the head of the list, ends here as well.         *)
DialSucceeds(s) ==
  /\ sess[s].pc = "dial"
  /\ sess[s].route = "tunnel" => up
  /\ sess' = [sess EXCEPT ![s] = Nobody]
  /\ UNCHANGED <<cacheVars, rules, sawDown>>

Dial(s) == DialFails(s) \/ DialSucceeds(s)

------------------------------------------------------------------------------
SessionStep(s) == MatchesAddr(s) \/ Resolved(s) \/ Dial(s)

InCache(A) == A /\ UNCHANGED <<rules, sess, sawDown>>

(* A call goes on.  One that comes between the answer of a shared lookup and *)
(* its hand-over joins it late, and has its answer as of that moment.        *)
CallGoesOn(s) ==
  /\ CallStep(s)
  /\ sawDown' = [sawDown EXCEPT ![s] =
       @ \/ (call[s].st = "miss" /\ flight[call[s].key].st = "ready")]
  /\ UNCHANGED <<rules, sess>>

TunnelFlips ==
  /\ TunnelChanges
  /\ sawDown' = [s \in Sessions |-> sawDown[s] \/ (~up' /\ Resolving(s))]
  /\ UNCHANGED <<rules, sess>>

Next ==
  \/ \E s \in Sessions :
       \/ \E h \in Hosts : Open(s, h)
       \/ SessionStep(s)
       \/ CallGoesOn(s)
  \/ \E k \in Keys : InCache(FlightStep(k))
  \/ InCache(purge)
  \/ TunnelFlips
  \/ InCache(Tick)

Spec == Init /\ [][Next]_vars

------------------------------------------------------------------------------
(* Nothing private is dialed through the tunnel, where it would be a host   *)
(* of the VPS's network, and no DNS answer turns a tunnel destination into  *)
(* a direct one on this machine itself, whichever answers the cache, the    *)
(* rules' lookups and the final lookup gave.                                *)
AddressesFitRoute ==
  \A s \in Sessions : sess[s].pc = "dial" =>
    \A i \in DOMAIN sess[s].addrs :
      /\ sess[s].route = "tunnel" => sess[s].addrs[i] \notin Private
      /\ sess[s].reason = "local-private" => sess[s].addrs[i] \notin HostLocal

(* A name rule matches the normalized host h. *)
Listed(h) == \E i \in DOMAIN rules : rules[i].kind = "name" /\ h \in rules[i].match

(* The hosts that are looked up as h by an ip rule. *)
AskedAs(h) == {g \in Hosts : normalizeHost(normalizeHost(g)) = h}

(* "A name listed in DIRECT_RULES never reaches the tunnel resolver,        *)
(* whatever the order of the rules" (rules.go): an open whose host matches  *)
(* a name rule asks the local resolver only, and no tunnel lookup of a      *)
(* listed name is out or was kept.  The exception is a name that a client   *)
(* also writes with two dots after it: Decide trims one and finds no rule,  *)
(* the lookup trims the other.                                              *)
DirectNamesStayLocal ==
  /\ \A s \in Sessions :
       Resolving(s) /\ Listed(normalizeHost(sess[s].host)) => call[s].policy = "local"
  /\ \A h \in Hosts :
       Listed(h) /\ (\A g \in AskedAs(h) : Listed(normalizeHost(g))) =>
         /\ flight[h].st # "none" => flight[h].policy = "local"
         /\ h \in DOMAIN cache => cache[h].via = "local"

(* A tunnel destination goes direct on the word of the local resolver only  *)
(* if a tunnel resolver did not know the name, or the tunnel was down at    *)
(* some moment of this very open, or when the lookup that the open was in   *)
(* time to share had its answer: a fall back kept from an outage that is    *)
(* over sends nothing into the clear.                                       *)
DirectOnlyWhileDown ==
  [][\A s \in Sessions :
       /\ sess[s].pc = "resolve"
       /\ sess'[s].pc = "dial"
       /\ sess'[s].reason = "local-private"
       /\ call[s].res.via = "fallback"
       => sawDown[s]]_vars
==============================================================================
