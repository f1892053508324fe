----------------------------- MODULE OpenerProofs -----------------------------
(***************************************************************************)
(* Proofs about Opener: its opens use the cache by its protocol, so all    *)
(* that is proved of DNSCache holds while they run; no answer of an outage *)
(* that is over sends a tunnel destination direct; every address that is   *)
(* dialed fits the route; and an open whose host a name rule matches never *)
(* asks the tunnel's resolvers.                                            *)
(***************************************************************************)
EXTENDS Opener, DNSCacheProofs, NatFacts

(* An open that resolves has a host. *)
HostKnown ==
  /\ DOMAIN sess = Sessions
  /\ \A s \in Sessions : Resolving(s) => sess[s].host \in Hosts

(* Deciding about a host keeps it, and resolves it. *)
LEMMA DecidesKeeps ==
  ASSUME NEW s \in Sessions, NEW h \in Hosts, NEW i,
         \/ Decides(s, h, i)
         \/ Resolves(s, h, "direct", "private")
         \/ Resolves(s, h, "direct", "rule")
  PROVE  /\ \E r : sess' = [sess EXCEPT ![s] = r] /\ r.host = h
         /\ \E g \in Hosts, policy \in Policies : Asks(s, policy, g)
  <1>1. ASSUME NEW pc, NEW j, NEW route, NEW reason,
               sess' = [sess EXCEPT ![s] = Is(pc, h, j, route, reason)]
        PROVE  \E r : sess' = [sess EXCEPT ![s] = r] /\ r.host = h
    <2>1. Is(pc, h, j, route, reason).host = h
      BY DEF Is
    <2> QED
      BY ZenonT(30), <1>1, <2>1
  <1>2. ASSUME NEW route, NEW reason, Resolves(s, h, route, reason)
        PROVE  /\ \E r : sess' = [sess EXCEPT ![s] = r] /\ r.host = h
               /\ \E g \in Hosts, policy \in Policies : Asks(s, policy, g)
    BY ZenonT(30), <1>1, <1>2 DEF Resolves, Policies
  <1>3. normalizeHost(h) \in Hosts
    BY CacheAssumption DEF normalizeHost
  <1>4. \/ \E route, reason : Resolves(s, h, route, reason)
        \/ \E j : /\ sess' = [sess EXCEPT ![s] = Is("matching", h, j, "none", "none")]
                  /\ Asks(s, "tunnel", normalizeHost(h))
    BY ZenonT(30) DEF Decides
  <1>5. "tunnel" \in Policies
    BY DEF Policies
  <1>6. ASSUME NEW j,
               sess' = [sess EXCEPT ![s] = Is("matching", h, j, "none", "none")],
               Asks(s, "tunnel", normalizeHost(h))
        PROVE  /\ \E r : sess' = [sess EXCEPT ![s] = r] /\ r.host = h
               /\ \E g \in Hosts, policy \in Policies : Asks(s, policy, g)
    <2>1. \E g \in Hosts, policy \in Policies : Asks(s, policy, g)
      BY ONLY ZenonT(30), <1>3, <1>5, <1>6
    <2> QED
      BY ONLY ZenonT(30), <2>1, <1>1, <1>6
  <1> QED
    BY ONLY ZenonT(30), <1>2, <1>4, <1>6

(* Every step of the opener keeps the hosts, and is a step of the cache or  *)
(* leaves it alone.                                                         *)
LEMMA StepIsCacheStep ==
  HostKnown /\ [Next]_vars => HostKnown' /\ [CacheNext]_cacheVars
  <1> SUFFICES ASSUME HostKnown, [Next]_vars
               PROVE  HostKnown' /\ (CacheNext \/ UNCHANGED cacheVars)
    OBVIOUS
  <1>1. ASSUME NEW s \in Sessions, NEW r, sess' = [sess EXCEPT ![s] = r],
               r.host \in Hosts \/ r.pc \notin {"matching", "resolve"}
        PROVE  HostKnown'
    BY SMTT(30), SMTT(60), <1>1 DEF HostKnown, Resolving
  <1>2. ASSUME NEW s \in Sessions, NEW h \in Hosts, NEW i,
               \/ Decides(s, h, i)
               \/ Resolves(s, h, "direct", "private")
               \/ Resolves(s, h, "direct", "rule")
        PROVE  HostKnown' /\ CacheNext
    <2>1. /\ \E r : sess' = [sess EXCEPT ![s] = r] /\ r.host = h
          /\ \E g \in Hosts, policy \in Policies : Asks(s, policy, g)
      BY ONLY <1>2, s \in Sessions, h \in Hosts, DecidesKeeps
    <2> QED
      BY ZenonT(30), <2>1, <1>1 DEF CacheNext, Sessions
  <1>3. ASSUME NEW s \in Sessions, NEW h \in Hosts, Open(s, h)
        PROVE  HostKnown' /\ CacheNext
    BY ZenonT(30), SMTT(30), <1>2, <1>3 DEF Open
  <1>4. ASSUME NEW s \in Sessions, MatchesAddr(s)
        PROVE  HostKnown' /\ CacheNext
    <2>1. sess[s].host \in Hosts
      BY <1>4 DEF MatchesAddr, HostKnown, Resolving
    <2> QED
      BY ZenonT(30), SMTT(30), <1>2, <1>4, <2>1 DEF MatchesAddr
  <1>5. ASSUME NEW s \in Sessions, Resolved(s)
        PROVE  HostKnown' /\ CacheNext
    <2> DEFINE c == candidates(s, call[s].res)
               q == [Nobody EXCEPT !.pc = "dial", !.route = c.route,
                                   !.reason = c.reason, !.addrs = c.addrs]
    <2>1. sess' = [sess EXCEPT ![s] = q] \/ sess' = [sess EXCEPT ![s] = Nobody]
      BY <1>5 DEF Resolved
    <2> HIDE DEF c
    <2>2. q.pc = "dial" /\ Nobody.pc = "idle"
      BY DEF Nobody
    <2>3. CacheNext
      BY <1>5 DEF Resolved, CacheNext, Sessions
    <2> HIDE DEF q
    <2> QED
      BY SMTT(30), SMTT(60), <2>1, <2>2, <2>3, <1>1
  <1>6. ASSUME NEW s \in Sessions, Dial(s)
        PROVE  HostKnown' /\ UNCHANGED cacheVars
    <2>1. UNCHANGED cacheVars /\ sess[s].pc = "dial"
      BY <1>6 DEF Dial, DialFails, DialSucceeds
    <2> DEFINE q == [sess[s] EXCEPT !.addrs = Tail(@)]
    <2>2. \/ sess' = [sess EXCEPT ![s] = q]
          \/ sess' = [sess EXCEPT ![s] = Nobody]
      BY SMTT(30), SMTT(60), <1>6 DEF Dial, DialFails, DialSucceeds, HostKnown
    <2>3. q.pc = sess[s].pc /\ Nobody.pc = "idle"
      BY DEF Nobody
    <2> HIDE DEF q
    <2> QED
      BY SMTT(30), SMTT(60), <2>1, <2>2, <2>3, <1>1
  <1>7. ASSUME NEW s \in Sessions, CallGoesOn(s)
        PROVE  sess' = sess /\ CacheNext
    BY <1>7 DEF CallGoesOn, CacheNext, Sessions
  <1>8. ASSUME \/ \E k \in Keys : InCache(FlightStep(k))
               \/ InCache(purge) \/ TunnelFlips \/ InCache(Tick)
        PROVE  sess' = sess /\ CacheNext
    BY <1>8 DEF InCache, TunnelFlips, CacheNext
  <1>9. sess' = sess => HostKnown'
    BY ZenonT(30) DEF HostKnown, Resolving
  <1>10. CASE UNCHANGED vars
    BY <1>9, <1>10 DEF vars, cacheVars
  <1> QED
    BY SMTT(30), SMTT(60), <1>3, <1>4, <1>5, <1>6, <1>7, <1>8, <1>9, <1>10 DEF Next, SessionStep

(* The opener implements the cache's protocol: it asks, waits and is        *)
(* through as resolveTunnel and localResolveAll prescribe, so everything    *)
(* proved of the cache with callers that ask for anything holds here.       *)
THEOREM OpensUseCache == Spec => CacheSpec
  <1>1. Init => CacheInit /\ HostKnown
    BY DEF Init, HostKnown, Nobody, Resolving
  <1> QED
    BY <1>1, StepIsCacheStep, PTL DEF Spec, CacheSpec

(* The cache's invariant holds while opens run. *)
LEMMA CacheInvHolds == Spec => []CacheInv
  BY OpensUseCache, CacheInvariant, PTL

(* With opens sharing the cache: the policies stay apart under the keys     *)
(* that are of one alone, a full cache grows no further and no live entry   *)
(* goes before an older one, both with no entry under the empty name in it, *)
(* and no answer outlives its lifetime.                                     *)
THEOREM CachePromisesKept ==
  Spec => []PoliciesApart /\ CacheBounded /\ AnswersAreFresh /\ LiveEntriesKept
  BY OpensUseCache, PoliciesStayApart, NeverOverfull, FreshAnswers, LiveKept, PTL

------------------------------------------------------------------------------
(* A result of the fall back that may go direct. *)
Degraded(r) == r.via = "fallback" /\ r.localDirect

(* Why sawDown is set whenever such a result gets to an open: it was there  *)
(* while the tunnel was down and the open was resolving, or the open joined *)
(* the lookup after its answer.                                             *)
OpenInv ==
  /\ DOMAIN sess = Sessions /\ sess = [s \in DOMAIN sess |-> sess[s]]
  /\ sawDown \in [Sessions -> BOOLEAN]
  /\ \A s \in Sessions :
       /\ DOMAIN sess[s] = {"pc", "host", "rule", "route", "reason", "addrs"}
       /\ call[s].st # "none" => Resolving(s)
       /\ Resolving(s) => sess[s].reason # "local-private"
       /\ Resolving(s) /\ ~up => sawDown[s]
       /\ call[s].st = "back" /\ Degraded(call[s].res) => sawDown[s]
       /\ /\ call[s].st = "wait"
          /\ flight[call[s].key].st = "ready"
          /\ Degraded(flight[call[s].key].res)
          => sawDown[s]

(* No open is under way at the start. *)
LEMMA InitOpenInv == Init => OpenInv
  BY DEF Init, CacheInit, OpenInv, Nobody, NoCall, Resolving, Sessions

(* Deciding and asking put an open at the start of a lookup. *)
LEMMA DecidesAsks ==
  ASSUME OpenInv, NEW s \in Sessions, NEW h, NEW i,
         \/ Decides(s, h, i)
         \/ Resolves(s, h, "direct", "private")
         \/ Resolves(s, h, "direct", "rule")
  PROVE  /\ \E r : /\ sess' = [sess EXCEPT ![s] = r]
                   /\ DOMAIN r = {"pc", "host", "rule", "route", "reason", "addrs"}
                   /\ r.pc \in {"matching", "resolve"}
                   /\ r.reason # "local-private"
         /\ \E c : call' = [call EXCEPT ![s] = c] /\ c.st = "check"
         /\ UNCHANGED <<now, up, cache, flight>>
  <1>1. ASSUME NEW p, NEW j, NEW route, NEW reason
        PROVE  /\ DOMAIN Is(p, h, j, route, reason) =
                    {"pc", "host", "rule", "route", "reason", "addrs"}
               /\ Is(p, h, j, route, reason).pc = p
               /\ Is(p, h, j, route, reason).reason = reason
    BY DEF Is
  <1>2. ASSUME NEW policy, NEW g, Asks(s, policy, g)
        PROVE  /\ \E c : call' = [call EXCEPT ![s] = c] /\ c.st = "check"
               /\ UNCHANGED <<now, up, cache, flight>>
    <2> DEFINE host == normalizeHost(g)
               c == [st |-> "check", policy |-> policy, host |-> host,
                     key |-> Key(policy, host), res |-> NoResult]
    <2>1. call' = [call EXCEPT ![s] = c] /\ UNCHANGED <<now, up, cache, flight>>
      BY ZenonT(30), <1>2 DEF Asks
    <2>2. c.st = "check"
      OBVIOUS
    <2> HIDE DEF c
    <2> QED
      BY <2>1, <2>2
  <1>3. ASSUME NEW route, NEW reason,
               Resolves(s, h, route, reason)
        PROVE  /\ sess' = [sess EXCEPT ![s] = Is("resolve", h, 0, route, reason)]
               /\ \E policy : Asks(s, policy, h)
    BY <1>3 DEF Resolves
  <1>4. \/ Resolves(s, h, "tunnel", "fallback")
        \/ Resolves(s, h, "direct", "rule")
        \/ Resolves(s, h, "direct", "private")
        \/ \E j : /\ sess' = [sess EXCEPT ![s] = Is("matching", h, j, "none", "none")]
                  /\ Asks(s, "tunnel", normalizeHost(h))
    BY ZenonT(30) DEF Decides
  <1>5. ASSUME NEW p \in {"matching", "resolve"}, NEW j, NEW route,
               NEW reason \in {"none", "fallback", "rule", "private"},
               sess' = [sess EXCEPT ![s] = Is(p, h, j, route, reason)]
        PROVE  \E r : /\ sess' = [sess EXCEPT ![s] = r]
                     /\ DOMAIN r = {"pc", "host", "rule", "route", "reason", "addrs"}
                     /\ r.pc \in {"matching", "resolve"}
                     /\ r.reason # "local-private"
    <2> DEFINE q == Is(p, h, j, route, reason)
    <2>1. /\ sess' = [sess EXCEPT ![s] = q]
          /\ DOMAIN q = {"pc", "host", "rule", "route", "reason", "addrs"}
          /\ q.pc \in {"matching", "resolve"}
          /\ q.reason # "local-private"
      BY <1>1, <1>5
    <2> HIDE DEF q
    <2> QED
      BY <2>1, Zenon
  <1>6. CASE \E reason \in {"fallback", "rule", "private"} : \E route :
               Resolves(s, h, route, reason)
    <2>1. PICK reason \in {"fallback", "rule", "private"} : \E r : Resolves(s, h, r, reason)
      BY <1>6
    <2>2. PICK route : Resolves(s, h, route, reason)
      BY <2>1
    <2>3. /\ sess' = [sess EXCEPT ![s] = Is("resolve", h, 0, route, reason)]
          /\ \E policy : Asks(s, policy, h)
      BY <2>2, <1>3
    <2> QED
      BY ZenonT(30), <2>3, <1>2, <1>5
  <1>7. CASE \E j : /\ sess' = [sess EXCEPT ![s] = Is("matching", h, j, "none", "none")]
                    /\ Asks(s, "tunnel", normalizeHost(h))
    BY ZenonT(30), <1>7, <1>2, <1>5
  <1> QED
    BY <1>4, <1>6, <1>7

(* What OpenInv says of one open. *)
OpenRight(s) ==
  /\ DOMAIN sess[s] = {"pc", "host", "rule", "route", "reason", "addrs"}
  /\ call[s].st # "none" => Resolving(s)
  /\ Resolving(s) => sess[s].reason # "local-private"
  /\ Resolving(s) /\ ~up => sawDown[s]
  /\ call[s].st = "back" /\ Degraded(call[s].res) => sawDown[s]
  /\ /\ call[s].st = "wait"
     /\ flight[call[s].key].st = "ready"
     /\ Degraded(flight[call[s].key].res)
     => sawDown[s]

(* The steps of an open preserve OpenInv. *)
LEMMA OpenSteps ==
  ASSUME CacheInv, OpenInv, NEW s \in Sessions,
         \/ \E h \in Hosts : Open(s, h)
         \/ MatchesAddr(s) \/ Resolved(s) \/ Dial(s)
  PROVE  OpenInv'
  <1>1. /\ DOMAIN sess = Sessions /\ sess = [t \in DOMAIN sess |-> sess[t]]
        /\ sawDown \in [Sessions -> BOOLEAN]
        /\ \A t \in Sessions : OpenRight(t)
    BY DEF OpenInv, OpenRight
  <1>2. call \in [Sessions -> Calls]
        /\ up \in BOOLEAN
    BY ZenonT(30), SMTT(30) DEF CacheInv, CacheTypeOK, Sessions
  (* Only the session's own records change.                                 *)
  <1>3. ASSUME NEW r, NEW c, NEW d \in BOOLEAN,
               sess' = [sess EXCEPT ![s] = r],
               call' = [call EXCEPT ![s] = c],
               sawDown' = [sawDown EXCEPT ![s] = d],
               UNCHANGED <<up, flight>>,
               DOMAIN r = {"pc", "host", "rule", "route", "reason", "addrs"},
               c.st \in {"none", "check"},
               \/ r.pc \in {"matching", "resolve"} /\ (up \/ d)
               \/ r.pc \notin {"matching", "resolve"} /\ c.st = "none",
               r.pc \in {"matching", "resolve"} => r.reason # "local-private"
        PROVE  OpenInv'
    <2>1. /\ sess'[s] = r /\ call'[s] = c /\ sawDown'[s] = d
          /\ \A t \in Sessions \ {s} :
               sess'[t] = sess[t] /\ call'[t] = call[t] /\ sawDown'[t] = sawDown[t]
      BY <1>1, <1>2, <1>3
    <2>2. /\ DOMAIN sess' = Sessions /\ sess' = [t \in DOMAIN sess' |-> sess'[t]]
          /\ sawDown' \in [Sessions -> BOOLEAN]
      BY ZenonT(30), <1>1, <1>3
    <2>3. OpenRight(s)'
      BY ZenonT(30), SMTT(30), <2>1, <1>3 DEF OpenRight, Resolving
    <2>4. ASSUME NEW t \in Sessions \ {s}
          PROVE  OpenRight(t)'
      BY <2>1, <1>1, <1>3 DEF OpenRight, Resolving
    <2> QED
      BY SMTT(30), SMTT(60), <2>2, <2>3, <2>4 DEF OpenInv, OpenRight
  <1>4. ASSUME NEW h \in Hosts, Open(s, h)
        PROVE  OpenInv'
    <2>1. /\ \/ Resolves(s, h, "direct", "private") \/ Decides(s, h, 1)
          /\ sawDown' = [sawDown EXCEPT ![s] = ~up]
      BY <1>4 DEF Open
    <2>2. PICK r : /\ sess' = [sess EXCEPT ![s] = r]
                   /\ DOMAIN r = {"pc", "host", "rule", "route", "reason", "addrs"}
                   /\ r.pc \in {"matching", "resolve"}
                   /\ r.reason # "local-private"
      BY SMTT(30), SMTT(60), <2>1, DecidesAsks
    <2>3. PICK c : call' = [call EXCEPT ![s] = c] /\ c.st = "check"
      BY SMTT(30), SMTT(60), <2>1, DecidesAsks
    <2>4. UNCHANGED <<up, flight>>
      BY <2>1, DecidesAsks
    <2>5. (~up) \in BOOLEAN /\ (up \/ ~up)
      BY <1>2
    <2> QED
      BY ZenonT(30), <2>1, <2>2, <2>3, <2>4, <2>5, <1>3
  <1>5. CASE MatchesAddr(s)
    <2> DEFINE host == sess[s].host
    <2>1. /\ \/ Resolves(s, host, "direct", "rule")
             \/ Decides(s, host, sess[s].rule + 1)
          /\ UNCHANGED sawDown /\ Resolving(s)
      BY <1>5 DEF MatchesAddr, Resolving
    <2> HIDE DEF host
    <2>2. PICK r : /\ sess' = [sess EXCEPT ![s] = r]
                   /\ DOMAIN r = {"pc", "host", "rule", "route", "reason", "addrs"}
                   /\ r.pc \in {"matching", "resolve"}
                   /\ r.reason # "local-private"
      BY ZenonT(30), SMTT(30), <2>1, DecidesAsks
    <2>3. PICK c : call' = [call EXCEPT ![s] = c] /\ c.st = "check"
      BY SMTT(30), SMTT(60), <2>1, DecidesAsks
    <2>4. UNCHANGED <<up, flight>>
      BY SMTT(30), SMTT(60), <2>1, DecidesAsks
    <2>5. sawDown[s] \in BOOLEAN /\ sawDown' = [sawDown EXCEPT ![s] = sawDown[s]]
      BY SMTT(30), SMTT(60), <2>1, <1>1
    <2>6. up \/ sawDown[s]
      BY <2>1, <1>1 DEF OpenRight
    <2> QED
      BY ZenonT(30), SMTT(30), <2>2, <2>3, <2>4, <2>5, <2>6, <1>3
  <1>6. CASE Resolved(s)
    <2>1. /\ sawDown' = [sawDown EXCEPT ![s] = FALSE]
          /\ call' = [call EXCEPT ![s] = NoCall] /\ UNCHANGED <<up, flight>>
      BY <1>6 DEF Resolved, Frees
    <2>2. NoCall.st = "none"
      BY DEF NoCall
    <2>3. \E r : /\ sess' = [sess EXCEPT ![s] = r]
                /\ DOMAIN r = {"pc", "host", "rule", "route", "reason", "addrs"}
                /\ r.pc \notin {"matching", "resolve"}
      <3> DEFINE c == candidates(s, call[s].res)
                 q == [Nobody EXCEPT !.pc = "dial", !.route = c.route,
                                     !.reason = c.reason, !.addrs = c.addrs]
      <3>1. sess' = [sess EXCEPT ![s] = q] \/ sess' = [sess EXCEPT ![s] = Nobody]
        BY <1>6 DEF Resolved
      <3> HIDE DEF c
      <3>2. /\ DOMAIN q = {"pc", "host", "rule", "route", "reason", "addrs"} /\ q.pc = "dial"
            /\ DOMAIN Nobody = {"pc", "host", "rule", "route", "reason", "addrs"}
            /\ Nobody.pc = "idle"
        BY DEF Nobody
      <3> HIDE DEF q
      <3> QED
        BY SMTT(30), SMTT(60), <3>1, <3>2
    <2> QED
      BY ZenonT(30), <2>1, <2>2, <2>3, <1>3
  <1>7. CASE Dial(s)
    <2>1. /\ sess[s].pc = "dial"
          /\ UNCHANGED <<cacheVars, sawDown>>
      BY SMTT(30), SMTT(60), <1>7 DEF Dial, DialFails, DialSucceeds
    <2>2. call[s].st = "none"
      BY <2>1, <1>1 DEF OpenRight, Resolving
    <2>3. \E r : /\ sess' = [sess EXCEPT ![s] = r]
                /\ DOMAIN r = {"pc", "host", "rule", "route", "reason", "addrs"}
                /\ r.pc \notin {"matching", "resolve"}
      <3> DEFINE q == [sess[s] EXCEPT !.addrs = Tail(@)]
      <3>1. sess' = [sess EXCEPT ![s] = q] \/ sess' = [sess EXCEPT ![s] = Nobody]
        BY SMTT(30), SMTT(60), <1>1, <1>7 DEF Dial, DialFails, DialSucceeds
      <3>2. DOMAIN sess[s] = {"pc", "host", "rule", "route", "reason", "addrs"}
        BY <1>1 DEF OpenRight
      <3>3. DOMAIN q = {"pc", "host", "rule", "route", "reason", "addrs"} /\ q.pc = "dial"
        BY SMTT(30), SMTT(60), <2>1, <3>2
      <3>4. DOMAIN Nobody = {"pc", "host", "rule", "route", "reason", "addrs"} /\ Nobody.pc = "idle"
        BY DEF Nobody
      <3> HIDE DEF q
      <3> QED
        BY SMTT(30), SMTT(60), <3>1, <3>3, <3>4
    <2>4. /\ call' = [call EXCEPT ![s] = call[s]]
          /\ sawDown' = [sawDown EXCEPT ![s] = sawDown[s]] /\ sawDown[s] \in BOOLEAN
          /\ UNCHANGED <<up, flight>>
      BY <2>1, <1>1, <1>2 DEF cacheVars
    <2> QED
      BY ZenonT(30), <2>2, <2>3, <2>4, <1>3
  <1> QED
    BY ZenonT(30), SMTT(30), <1>4, <1>5, <1>6, <1>7

(* The steps of the cache under the opens preserve OpenInv. *)
LEMMA SharedSteps ==
  ASSUME CacheInv, OpenInv,
         \/ \E s \in Sessions : CallGoesOn(s)
         \/ \E k \in Keys : InCache(FlightStep(k))
         \/ InCache(purge) \/ TunnelFlips \/ InCache(Tick)
  PROVE  OpenInv'
  <1>1. /\ DOMAIN sess = Sessions /\ sess = [t \in DOMAIN sess |-> sess[t]]
        /\ sawDown \in [Sessions -> BOOLEAN]
        /\ \A t \in Sessions : OpenRight(t)
    BY DEF OpenInv, OpenRight
  <1>2. /\ call \in [Sessions -> Calls]
        /\ flight \in [Keys -> Flights]
        /\ up \in BOOLEAN /\ CacheTypeOK /\ CallPlace /\ PoliciesApart
    BY ZenonT(30), SMTT(30) DEF CacheInv, CacheTypeOK, Sessions
  <1>0. \A t \in Sessions : call[t].st # "none" => call[t].key \in Keys
    BY <1>2, CallKey DEF Sessions
  <1>3. ASSUME sess' = sess, sawDown' \in [Sessions -> BOOLEAN],
               \A t \in Sessions : OpenRight(t)'
        PROVE  OpenInv'
    BY SMTT(30), SMTT(60), <1>1, <1>3 DEF OpenInv, OpenRight
  <1>4. ASSUME NEW s \in Sessions, CallGoesOn(s)
        PROVE  OpenInv'
    <2>1. /\ CallStep(s) /\ sess' = sess
          /\ sawDown' = [sawDown EXCEPT ![s] =
               @ \/ (call[s].st = "miss" /\ flight[call[s].key].st = "ready")]
      BY <1>4 DEF CallGoesOn
    <2>2. sawDown' \in [Sessions -> BOOLEAN]
          /\ \A t \in Sessions : sawDown[t] => sawDown'[t]
      BY ZenonT(30), SMTT(30), <2>1, <1>1
    <2>3. call[s].st # "none" /\ call[s].key \in Keys
      BY ZenonT(30), SMTT(30), <2>1, <1>0 DEF CallStep, LiteralBack, Hit, Miss, Do
    <2>4. /\ up' = up
          /\ \A t \in Sessions \ {s} : call'[t] = call[t]
          /\ \A k \in Keys : flight'[k].st = "ready" =>
               flight[k].st = "ready" /\ flight'[k].res = flight[k].res
      <3>1. CASE LiteralBack(s) \/ Hit(s) \/ Miss(s)
        BY <3>1, <1>2 DEF LiteralBack, Hit, Miss, Back
      <3>2. CASE Do(s)
        BY ZenonT(30), SMTT(30), <3>2, <2>3, <1>2 DEF Do
      <3> QED
        BY ZenonT(30), SMTT(30), <3>1, <3>2, <2>1 DEF CallStep
    <2>5. \/ call'[s].st = "back" /\ ~Degraded(call'[s].res)
          \/ call'[s].st = "miss"
          \/ /\ call'[s].st = "wait" /\ call'[s].key = call[s].key
             /\ call[s].st = "miss"
      <3>1. CASE LiteralBack(s)
        BY SMTT(30), SMTT(60), <3>1, <1>2 DEF LiteralBack, Back, Degraded
      <3>2. CASE Hit(s)
        <4>1. call[s].key \in DOMAIN cache
          BY SMTT(30), SMTT(60), <3>2 DEF Hit, Cached
        <4>2. cache[call[s].key].via # "fallback"
          BY <4>1, <1>2 DEF PoliciesApart
        <4> QED
          BY ZenonT(30), SMTT(30), <3>2, <4>2, <1>2 DEF Hit, Back, Degraded
      <3>3. CASE Miss(s)
        BY <3>3, <1>2 DEF Miss
      <3>4. CASE Do(s)
        BY ZenonT(30), SMTT(30), <3>4, <1>2 DEF Do
      <3> QED
        BY ZenonT(30), SMTT(30), <3>1, <3>2, <3>3, <3>4, <2>1 DEF CallStep
    <2>6. ASSUME NEW t \in Sessions \ {s}
          PROVE  OpenRight(t)'
      <3>1. call[t].st = "wait" => call[t].key \in Keys
        BY SMTT(30), SMTT(60), <1>0
      <3>2. /\ OpenRight(t) /\ sess' = sess /\ up' = up /\ call'[t] = call[t]
            /\ sawDown[t] => sawDown'[t]
        BY ONLY ZenonT(30), <2>1, <2>2, <2>4, <2>6, <1>1
      <3>3. call[t].st = "wait" /\ flight'[call[t].key].st = "ready" =>
              /\ flight[call[t].key].st = "ready"
              /\ flight'[call[t].key].res = flight[call[t].key].res
        BY ONLY ZenonT(30), <3>1, <2>4
      <3> QED
        BY ONLY ZenonT(30), SMTT(60), <3>2, <3>3 DEF OpenRight, Resolving, Degraded
    <2>7. OpenRight(s)'
      <3>1. Resolving(s) /\ Resolving(s)'
        BY <2>1, <2>3, <1>1 DEF OpenRight, Resolving
      <3>2. call[s].st = "miss" /\ flight[call[s].key].st = "ready" => sawDown'[s]
        BY ZenonT(30), <2>1, <1>1
      <3> QED
        BY ZenonT(30), SMTT(30), <3>1, <3>2, <2>1, <2>2, <2>3, <2>4, <2>5, <1>1 DEF OpenRight
    <2> QED
      BY ZenonT(30), SMTT(30), <2>1, <2>2, <2>6, <2>7, <1>3
  <1>5. ASSUME NEW k \in Keys, NEW r \in Outcomes(k), InCache(Answer(k, r))
        PROVE  OpenInv'
    <2>1. /\ UNCHANGED <<up, call, sess, sawDown>>
          /\ flight' = [flight EXCEPT ![k].st = "ready", ![k].res = r]
      BY <1>5 DEF InCache, Answer
    <2>2. Degraded(r) => ~up
      <3>1. \/ \E a, d : r = Found(a, d, "fallback") /\ d = fallbackDirect
            \/ \E a, d : \E w \in {"tunnel", "localOnNXDomain", "local"} : r = Found(a, d, w)
            \/ \E w, nx : r = Failed(w, nx)
        BY ZenonT(30) DEF Outcomes, lookup, lookupLocal
      <3>2. ASSUME NEW a, NEW d, r = Found(a, d, "fallback"), d = fallbackDirect
            PROVE  r.localDirect = fallbackDirect
        BY <3>2 DEF Found
      <3>3. ASSUME NEW a, NEW d, NEW w \in {"tunnel", "localOnNXDomain", "local"},
                   r = Found(a, d, w)
            PROVE  r.via # "fallback"
        BY <3>3 DEF Found
      <3>4. ASSUME NEW w, NEW nx, r = Failed(w, nx)
            PROVE  r.localDirect = FALSE
        BY <3>4 DEF Failed
      <3>5. CASE r.localDirect = fallbackDirect
        BY ZenonT(30), <3>5 DEF Degraded, fallbackDirect
      <3>6. CASE r.via # "fallback" \/ r.localDirect = FALSE
        BY SMTT(30), SMTT(60), <3>6 DEF Degraded
      <3> QED
        BY ZenonT(30), <3>1, <3>2, <3>3, <3>4, <3>5, <3>6
    <2>3. flight'[k].res = r /\ \A j \in Keys \ {k} : flight'[j] = flight[j]
      BY ZenonT(30), SMTT(30), <2>1, <1>2 DEF Flights
    <2>0. UNCHANGED <<up, call, sess, sawDown>>
      BY <2>1
    <2>4. ASSUME NEW t \in Sessions
          PROVE  OpenRight(t)'
      <3>1. call[t].st = "wait" => call[t].key \in Keys
        BY SMTT(30), SMTT(60), <1>0
      <3> QED
        BY SMTT(30), SMTT(60), <3>1, <2>0, <2>2, <2>3, <1>1 DEF OpenRight, Resolving
    <2> QED
      BY SMTT(30), SMTT(60), <2>1, <2>4, <1>1, <1>3
  <1>6. ASSUME NEW k \in Keys, InCache(Delivers(k))
        PROVE  OpenInv'
    <2>1. /\ UNCHANGED <<up, sess, sawDown>>
          /\ flight[k].st = "ready"
          /\ flight' = [flight EXCEPT ![k] = NoFlight]
      BY ZenonT(30), <1>6 DEF InCache, Delivers
    <2>2. flight'[k].st = "none" /\ \A j \in Keys \ {k} : flight'[j] = flight[j]
      BY <2>1, <1>2 DEF NoFlight
    <2>3. ASSUME NEW t \in Sessions
          PROVE  \/ call'[t] = call[t] /\ ~(call[t].st = "wait" /\ call[t].key = k)
                 \/ /\ call[t].st = "wait" /\ call[t].key = k
                    /\ call'[t].st = "back" /\ call'[t].res = flight[k].res
      <3>1. call[t] \in Calls
        BY SMTT(30), SMTT(60), <1>2
      <3>2. call'[t] = IF call[t].st = "wait" /\ call[t].key = k
                       THEN [call[t] EXCEPT !.st = "back", !.res = flight[k].res]
                       ELSE call[t]
        BY ZenonT(30), <1>6 DEF InCache, Delivers, Sessions
      <3> QED
        BY <3>1, <3>2
    <2>4. ASSUME NEW t \in Sessions
          PROVE  OpenRight(t)'
      <3>1. call[t].st = "wait" => call[t].key \in Keys
        BY SMTT(30), SMTT(60), <1>0
      <3> QED
        BY SMTT(30), SMTT(60), <3>1, <2>1, <2>2, <2>3, <1>1 DEF OpenRight, Resolving
    <2> QED
      BY SMTT(30), SMTT(60), <2>1, <2>4, <1>1, <1>3
  <1>7. CASE InCache(purge) \/ InCache(Tick)
    <2>1. UNCHANGED <<up, call, flight, sess, sawDown>>
      BY <1>7 DEF InCache, purge, Tick
    <2> QED
      BY SMTT(30), SMTT(60), <2>1, <1>1, <1>3 DEF OpenRight, Resolving
  <1>8. CASE TunnelFlips
    <2>1. /\ UNCHANGED <<call, flight, sess>>
          /\ sawDown' = [s \in Sessions |-> sawDown[s] \/ (~up' /\ Resolving(s))]
      BY <1>8 DEF TunnelFlips, TunnelChanges
    <2>2. sawDown' \in [Sessions -> BOOLEAN]
      BY ZenonT(30), SMTT(30), <2>1, <1>1 DEF Resolving
    <2>3. ASSUME NEW t \in Sessions
          PROVE  OpenRight(t)'
      <3>1. (sawDown[t] => sawDown'[t]) /\ (~up' /\ Resolving(t) => sawDown'[t])
        BY ZenonT(30), <2>1
      <3> QED
        BY <3>1, <2>1, <1>1 DEF OpenRight, Resolving
    <2> QED
      BY SMTT(30), SMTT(60), <2>1, <2>2, <2>3, <1>3
  <1> QED
    BY ZenonT(30), SMTT(30), <1>4, <1>5, <1>6, <1>7, <1>8 DEF InCache, FlightStep

(* OpenInv holds whatever clients, resolvers and the tunnel do. *)
LEMMA OpenInvHolds == Spec => []OpenInv
  <1>1. CacheInv /\ OpenInv /\ [Next]_vars => OpenInv'
    <2>1. CASE CacheInv /\ OpenInv /\ Next
      BY ZenonT(30), <2>1, OpenSteps, SharedSteps DEF Next, SessionStep
    <2>2. CASE OpenInv /\ UNCHANGED vars
      BY <2>2 DEF vars, OpenInv, Resolving
    <2> QED
      BY <2>1, <2>2
  <1> QED
    BY <1>1, InitOpenInv, CacheInvHolds, PTL DEF Spec

(* No answer of an outage that is over sends a tunnel destination direct,   *)
(* for any rules, hosts, answers and number of opens.                       *)
THEOREM FallbackEndsWithOutage == Spec => DirectOnlyWhileDown
  <1> DEFINE A == \A s \in Sessions :
                    /\ sess[s].pc = "resolve"
                    /\ sess'[s].pc = "dial"
                    /\ sess'[s].reason = "local-private"
                    /\ call[s].res.via = "fallback"
                    => sawDown[s]
  <1>1. CacheInv /\ OpenInv /\ [Next]_vars => [A]_vars
    <2> SUFFICES ASSUME CacheInv, OpenInv, Next, NEW s \in Sessions,
                        sess[s].pc = "resolve", sess'[s].pc = "dial",
                        sess'[s].reason = "local-private",
                        call[s].res.via = "fallback"
                 PROVE  sawDown[s]
      BY SMTT(30), SMTT(60) DEF vars
    <2>1. /\ DOMAIN sess = Sessions /\ sess = [t \in DOMAIN sess |-> sess[t]]
          /\ \A t \in Sessions : OpenRight(t)
      BY DEF OpenInv, OpenRight
    <2>2. ASSUME NEW t \in Sessions, Dial(t)
          PROVE  FALSE
      BY <2>1, <2>2 DEF Dial, DialFails, DialSucceeds, Nobody
    <2>3. ASSUME NEW t \in Sessions,
                 (\E h \in Hosts : Open(t, h)) \/ MatchesAddr(t)
          PROVE  FALSE
      <3>1. PICK h, i : \/ Decides(t, h, i)
                        \/ Resolves(t, h, "direct", "private")
                        \/ Resolves(t, h, "direct", "rule")
        BY ZenonT(30), <2>3 DEF Open, MatchesAddr
      <3>2. PICK r : sess' = [sess EXCEPT ![t] = r] /\ r.pc \in {"matching", "resolve"}
        BY SMTT(30), SMTT(60), <3>1, DecidesAsks
      <3>3. sess'[s].pc = IF s = t THEN r.pc ELSE sess[s].pc
        BY SMTT(30), SMTT(60), <3>2, <2>1
      <3> QED
        BY <3>2, <3>3
    <2>4. ASSUME sess' = sess
          PROVE  FALSE
      BY SMTT(30), SMTT(60), <2>4
    <2>5. ASSUME \/ \E t \in Sessions : CallGoesOn(t)
                 \/ \E k \in Keys : InCache(FlightStep(k))
                 \/ InCache(purge) \/ TunnelFlips \/ InCache(Tick)
          PROVE  sess' = sess
      BY SMTT(30), SMTT(60), <2>5 DEF CallGoesOn, InCache, TunnelFlips
    <2>6. ASSUME NEW t \in Sessions, Resolved(t)
          PROVE  sawDown[s]
      <3> DEFINE c == candidates(t, call[t].res)
                 q == [Nobody EXCEPT !.pc = "dial", !.route = c.route,
                                     !.reason = c.reason, !.addrs = c.addrs]
      <3>1. sess' = [sess EXCEPT ![t] = q] \/ sess' = [sess EXCEPT ![t] = Nobody]
        BY <2>6 DEF Resolved
      <3>2. t = s
        BY <3>1, <2>1
      <3>3. q.reason = c.reason /\ Nobody.reason = "none"
        BY DEF Nobody
      <3>4. c.reason = "local-private"
        BY ZenonT(30), <3>1, <3>2, <3>3, <2>1
      <3>5. sess[s].reason # "local-private"
        BY SMTT(30), SMTT(60), <2>1 DEF OpenRight, Resolving
      <3>6. call[s].res.localDirect
        BY SMTT(30), SMTT(60), <3>2, <3>4, <3>5 DEF candidates, mayGoDirect
      <3>7. call[s].st = "back"
        BY <2>6, <3>2 DEF Resolved, HasResult
      <3> QED
        BY SMTT(30), SMTT(60), <3>6, <3>7, <2>1 DEF OpenRight, Degraded
    <2> QED
      BY SMTT(30), SMTT(60), <2>2, <2>3, <2>4, <2>5, <2>6 DEF Next, SessionStep
  <1> QED
    BY <1>1, CacheInvHolds, OpenInvHolds, PTL DEF Spec, DirectOnlyWhileDown

------------------------------------------------------------------------------
(* The loops that append what they want.  A least counterexample takes the  *)
(* place of induction over the length of the list.                          *)

(* What a loop has appended after n elements. *)
Appends(out, list, I, n) ==
  out[n] = IF n = 0 THEN <<>>
           ELSE IF n \in I THEN Append(out[n - 1], list[n]) ELSE out[n - 1]

LEMMA PickRuns ==
  ASSUME NEW T, NEW list \in Seq(T), NEW I
  PROVE  \E out \in [0 .. Len(list) -> Seq(T)] :
           \A n \in 0 .. Len(list) : Appends(out, list, I, n)
  <1> DEFINE Runs(m) == \E out \in [0 .. m -> Seq(T)] :
                          \A n \in 0 .. m : Appends(out, list, I, n)
             Bad == {m \in 0 .. Len(list) : ~Runs(m)}
  <1>1. Len(list) \in Nat
    OBVIOUS
  <1>2. Runs(0)
    <2> DEFINE f == [n \in 0 .. 0 |-> <<>>]
    <2>1. f \in [0 .. 0 -> Seq(T)] /\ \A n \in 0 .. 0 : Appends(f, list, I, n)
      BY DEF Appends
    <2> QED BY <2>1
  <1>3. ASSUME NEW m \in 1 .. Len(list), Runs(m - 1) PROVE Runs(m)
    <2>1. PICK g \in [0 .. m - 1 -> Seq(T)] : \A n \in 0 .. m - 1 : Appends(g, list, I, n)
      BY <1>3
    <2> DEFINE e == IF m \in I THEN Append(g[m - 1], list[m]) ELSE g[m - 1]
               f == [n \in 0 .. m |-> IF n = m THEN e ELSE g[n]]
    <2>2. m - 1 \in 0 .. m - 1 /\ list[m] \in T /\ m \in Nat /\ m # 0
      OBVIOUS
    <2>3. e \in Seq(T)
      BY <2>1, <2>2
    <2>4. f \in [0 .. m -> Seq(T)]
      BY SMTT(30), SMTT(60), <2>2, <2>3
    <2>5. Appends(f, list, I, m)
      <3>1. f[m] = e /\ f[m - 1] = g[m - 1]
        BY SMTT(30), SMTT(60), <2>2
      <3> QED BY SMTT(30), SMTT(60), <2>2, <3>1 DEF Appends
    <2>6. ASSUME NEW n \in 0 .. m - 1 PROVE Appends(f, list, I, n)
      <3>1. f[n] = g[n] /\ (n # 0 => f[n - 1] = g[n - 1])
        BY <2>2
      <3>2. Appends(g, list, I, n)
        BY <2>1
      <3> HIDE DEF f
      <3> QED BY SMTT(30), SMTT(60), <3>1, <3>2 DEF Appends
    <2>7. \A n \in 0 .. m : n = m \/ n \in 0 .. m - 1
      OBVIOUS
    <2> HIDE DEF f
    <2> QED BY ZenonT(30), <2>4, <2>5, <2>6, <2>7
  <1>4. Bad = {}
    <2> SUFFICES ASSUME Bad # {} PROVE FALSE
      OBVIOUS
    <2>1. Bad \in SUBSET Nat
      OBVIOUS
    <2> HIDE DEF Runs
    <2>2. PICK m \in Bad : \A y \in Bad : m <= y
      <3> HIDE DEF Bad
      <3> QED BY <2>1, LeastNat
    <2>3. m \in 0 .. Len(list) /\ ~Runs(m) /\ m # 0
      BY <1>2
    <2>4. m - 1 \notin Bad /\ m - 1 \in 0 .. Len(list)
      BY <2>2, <2>3
    <2> QED BY <2>3, <2>4, <1>3
  <1>5. Len(list) \in 0 .. Len(list)
    BY <1>1
  <1>6. Runs(Len(list))
    <2> HIDE DEF Runs
    <2> QED BY <1>4, <1>5
  <1> QED BY <1>6

LEMMA PickStep ==
  ASSUME NEW T, NEW list \in Seq(T), NEW I
  PROVE  \E out : /\ Pick(list, I) = out[Len(list)]
                  /\ \A n \in 0 .. Len(list) : Appends(out, list, I, n)
  <1> DEFINE R(out) == [n \in 0 .. Len(list) |->
                IF n = 0 THEN <<>>
                ELSE IF n \in I THEN Append(out[n - 1], list[n]) ELSE out[n - 1]]
             out == CHOOSE o : o = R(o)
  <1>1. \E o : o = R(o)
    <2>1. PICK g \in [0 .. Len(list) -> Seq(T)] : \A n \in 0 .. Len(list) : Appends(g, list, I, n)
      BY ZenonT(30), PickRuns
    <2>2. g = R(g)
      BY <2>1 DEF Appends
    <2> QED BY ZenonT(30), <2>2
  <1>2. out = R(out)
    <2> HIDE DEF R
    <2> QED BY <1>1
  <1>3. Pick(list, I) = out[Len(list)]
    BY DEF Pick
  <1> HIDE DEF out
  <1> QED BY ZenonT(30), <1>2, <1>3 DEF Appends

LEMMA ElementsNone == Elements(<<>>) = {}
  BY DEF Elements

LEMMA ElementsAppend ==
  ASSUME NEW T, NEW list \in Seq(T), NEW e \in T
  PROVE  Elements(Append(list, e)) = Elements(list) \union {e}
  <1> DEFINE new == Append(list, e)
  <1>1. /\ DOMAIN new = 1 .. Len(list) + 1 /\ DOMAIN list = 1 .. Len(list)
        /\ Len(list) \in Nat
        /\ new[Len(list) + 1] = e
        /\ \A i \in 1 .. Len(list) : new[i] = list[i]
    OBVIOUS
  <1> HIDE DEF new
  <1>2. ASSUME NEW x \in Elements(new) PROVE x \in Elements(list) \union {e}
    BY <1>1 DEF Elements
  <1>3. ASSUME NEW x \in Elements(list) PROVE x \in Elements(new)
    BY <1>1 DEF Elements
  <1>4. e \in Elements(new)
    BY <1>1 DEF Elements
  <1> QED BY SMTT(30), SMTT(60), <1>2, <1>3, <1>4 DEF new

LEMMA ElementsConcat ==
  ASSUME NEW T, NEW a \in Seq(T), NEW b \in Seq(T)
  PROVE  Elements(a \o b) = Elements(a) \union Elements(b)
  <1> DEFINE new == a \o b
  <1>1. /\ DOMAIN new = 1 .. Len(a) + Len(b) /\ DOMAIN a = 1 .. Len(a)
        /\ DOMAIN b = 1 .. Len(b) /\ Len(a) \in Nat /\ Len(b) \in Nat
        /\ \A i \in 1 .. Len(a) : new[i] = a[i]
        /\ \A i \in Len(a) + 1 .. Len(a) + Len(b) : new[i] = b[i - Len(a)]
    OBVIOUS
  <1> HIDE DEF new
  <1>2. ASSUME NEW x \in Elements(new) PROVE x \in Elements(a) \union Elements(b)
    <2>1. PICK i \in 1 .. Len(a) + Len(b) : x = new[i]
      BY SMTT(30), SMTT(60), <1>1 DEF Elements
    <2>2. CASE i \in 1 .. Len(a)
      BY ZenonT(30), SMTT(30), <1>1, <2>1, <2>2 DEF Elements
    <2>3. CASE i \notin 1 .. Len(a)
      <3>1. i - Len(a) \in 1 .. Len(b) /\ i \in Len(a) + 1 .. Len(a) + Len(b)
        BY SMTT(30), SMTT(60), <1>1, <2>3
      <3> QED BY ZenonT(30), <1>1, <2>1, <3>1 DEF Elements
    <2> QED BY <2>2, <2>3
  <1>3. ASSUME NEW x \in Elements(a) PROVE x \in Elements(new)
    BY SMTT(30), SMTT(60), <1>1 DEF Elements
  <1>4. ASSUME NEW x \in Elements(b) PROVE x \in Elements(new)
    <2>1. PICK i \in 1 .. Len(b) : x = b[i]
      BY <1>1 DEF Elements
    <2>2. i + Len(a) \in Len(a) + 1 .. Len(a) + Len(b) /\ (i + Len(a)) - Len(a) = i
          /\ i + Len(a) \in 1 .. Len(a) + Len(b)
      BY SMTT(30), SMTT(60), <1>1
    <2>3. new[i + Len(a)] = x
      BY SMTT(30), SMTT(60), <1>1, <2>1, <2>2
    <2> QED BY ZenonT(30), <1>1, <2>2, <2>3 DEF Elements
  <1> QED BY SMTT(30), SMTT(60), <1>2, <1>3, <1>4 DEF new

(* A loop appends exactly what it wants. *)
LEMMA PickElements ==
  ASSUME NEW T, NEW list \in Seq(T), NEW I
  PROVE  /\ Pick(list, I) \in Seq(T)
         /\ Elements(Pick(list, I)) = {list[i] : i \in I \cap DOMAIN list}
  <1>1. PICK out : /\ Pick(list, I) = out[Len(list)]
                   /\ \A n \in 0 .. Len(list) : Appends(out, list, I, n)
    BY PickStep
  <1> DEFINE Wanted(n) == {list[i] : i \in I \cap (1 .. n)}
             Right(n) == out[n] \in Seq(T) /\ Elements(out[n]) = Wanted(n)
             Bad == {n \in 0 .. Len(list) : ~Right(n)}
  <1>2. Right(0)
    <2>1. 0 \in 0 .. Len(list) /\ 1 .. 0 = {}
      OBVIOUS
    <2>2. out[0] = <<>>
      BY SMTT(30), SMTT(60), <1>1, <2>1 DEF Appends
    <2>3. Wanted(0) = {}
      BY SMTT(30), SMTT(60), <2>1
    <2> QED BY <2>2, <2>3, ElementsNone
  <1>3. ASSUME NEW n \in 1 .. Len(list), Right(n - 1) PROVE Right(n)
    <2>1. /\ n \in Nat /\ n # 0 /\ list[n] \in T
          /\ out[n] = IF n \in I THEN Append(out[n - 1], list[n]) ELSE out[n - 1]
      BY SMTT(30), SMTT(60), <1>1 DEF Appends
    <2>2. CASE n \in I
      <3>1. out[n] = Append(out[n - 1], list[n])
        BY SMTT(30), SMTT(60), <2>1, <2>2
      <3>2. out[n] \in Seq(T)
        BY SMTT(30), SMTT(60), <3>1, <2>1, <1>3
      <3>3. Elements(out[n]) = Elements(out[n - 1]) \union {list[n]}
        <4>1. out[n - 1] \in Seq(T) /\ list[n] \in T
          BY SMTT(30), SMTT(60), <1>3, <2>1
        <4>2. Elements(Append(out[n - 1], list[n])) = Elements(out[n - 1]) \union {list[n]}
          <5> DEFINE q == out[n - 1]
                     x == list[n]
          <5>1. q \in Seq(T) /\ x \in T
            BY <4>1
          <5> HIDE DEF q, x
          <5>2. Elements(Append(q, x)) = Elements(q) \union {x}
            BY ONLY <5>1, ElementsAppend, SMTT(30), SMTT(60)
          <5> QED BY ONLY <5>2 DEF q, x
        <4> QED BY SMTT(30), SMTT(60), <3>1, <4>2
      <3>4. Wanted(n) = Wanted(n - 1) \union {list[n]}
        BY SMTT(30), SMTT(60), <2>1, <2>2
      <3> QED BY ZenonT(30), <3>2, <3>3, <3>4, <1>3
    <2>3. CASE n \notin I
      <3>1. Wanted(n) = Wanted(n - 1)
        <4>1. I \cap (1 .. n) = I \cap (1 .. n - 1)
          BY SMTT(30), SMTT(60), <2>1, <2>3
        <4> QED BY SMTT(30), SMTT(60), <4>1
      <3> QED BY ZenonT(30), SMTT(30), <3>1, <2>1, <2>3, <1>3
    <2> QED BY SMTT(30), SMTT(60), <2>2, <2>3
  <1>4. Bad = {}
    <2> SUFFICES ASSUME Bad # {} PROVE FALSE
      OBVIOUS
    <2>1. Bad \in SUBSET Nat
      BY SMTT(30), SMTT(60)
    <2> HIDE DEF Right
    <2>2. PICK m \in Bad : \A y \in Bad : m <= y
      <3> HIDE DEF Bad
      <3> QED BY <2>1, LeastNat
    <2>3. m \in 0 .. Len(list) /\ ~Right(m) /\ m # 0
      BY <1>2
    <2>4. m - 1 \notin Bad /\ m - 1 \in 0 .. Len(list)
      BY <2>2, <2>3
    <2> QED BY <2>3, <2>4, <1>3
  <1>5. Len(list) \in 0 .. Len(list) /\ DOMAIN list = 1 .. Len(list)
    OBVIOUS
  <1>6. Right(Len(list))
    <2> HIDE DEF Right
    <2> QED BY SMTT(30), SMTT(60), <1>4, <1>5
  <1> QED BY SMTT(30), SMTT(60), <1>1, <1>5, <1>6

LEMMA PickNone ==
  ASSUME NEW T, NEW list \in Seq(T), NEW I
  PROVE  Pick(list, I) = <<>> <=> I \cap DOMAIN list = {}
  <1>1. /\ Pick(list, I) \in Seq(T)
        /\ Elements(Pick(list, I)) = {list[i] : i \in I \cap DOMAIN list}
    BY PickElements
  <1> HIDE DEF Pick
  <1>2. Pick(list, I) = <<>> <=> DOMAIN Pick(list, I) = {}
    BY <1>1
  <1>3. DOMAIN Pick(list, I) = {} <=> Elements(Pick(list, I)) = {}
    BY SMTT(30), SMTT(60) DEF Elements
  <1> QED BY ZenonT(30), SMTT(30), <1>1, <1>2, <1>3

(* The rules of the engine are the configured ones, name rules first. *)
NamesFirst(list) ==
  \A i, j \in DOMAIN list : i <= j /\ list[i].kind = "ip" => list[j].kind = "ip"

LEMMA RulesOrdered ==
  ASSUME NEW list \in RuleLists
  PROVE  /\ NewRuleEngine(list) \in Seq(Rule)
         /\ Elements(NewRuleEngine(list)) = Elements(list)
         /\ NamesFirst(NewRuleEngine(list))
  <1> DEFINE N == {i \in DOMAIN list : list[i].kind = "name"}
             A == {i \in DOMAIN list : list[i].kind = "ip"}
             names == Pick(list, N)
             ips == Pick(list, A)
  <1>1. list \in Seq(Rule)
    BY SMTT(30), SMTT(60), OpenerAssumption
  <1>2. names \in Seq(Rule) /\ Elements(names) = {list[i] : i \in N \cap DOMAIN list}
    BY SMTT(30), SMTT(60), <1>1, PickElements
  <1>3. ips \in Seq(Rule) /\ Elements(ips) = {list[i] : i \in A \cap DOMAIN list}
    BY <1>1, PickElements
  <1>4. NewRuleEngine(list) = names \o ips
    BY DEF NewRuleEngine
  <1> HIDE DEF names, ips
  <1>5. \A i \in DOMAIN list : list[i].kind \in {"ip", "name"}
    <2>1. \A i \in DOMAIN list : list[i] \in Rule
      BY <1>1
    <2>2. \A r \in Rule : r.kind \in {"ip", "name"}
      BY SMTT(30), SMTT(60) DEF Rule
    <2> QED BY <2>1, <2>2
  <1>6. Elements(names) \union Elements(ips) = Elements(list)
    <2>1. \A i \in DOMAIN list : i \in N \cap DOMAIN list \/ i \in A \cap DOMAIN list
      BY <1>5
    <2>2. {list[i] : i \in N \cap DOMAIN list} \union {list[i] : i \in A \cap DOMAIN list}
          = {list[i] : i \in DOMAIN list}
      <3> HIDE DEF N, A
      <3> QED BY <2>1
    <2> HIDE DEF N, A
    <2> QED BY ZenonT(30), <1>2, <1>3, <2>2 DEF Elements
  <1>7. ASSUME NEW i \in DOMAIN names PROVE names[i].kind = "name"
    <2>1. names[i] \in {list[j] : j \in N \cap DOMAIN list}
      BY SMTT(30), SMTT(60), <1>2 DEF Elements
    <2> QED BY <2>1
  <1>8. ASSUME NEW i \in DOMAIN ips PROVE ips[i].kind = "ip"
    <2>1. ips[i] \in {list[j] : j \in A \cap DOMAIN list}
      BY ZenonT(30), <1>3 DEF Elements
    <2> QED BY SMTT(30), SMTT(60), <2>1
  <1>9. Elements(names \o ips) = Elements(list)
    <2>1. names \in Seq(Rule) /\ ips \in Seq(Rule)
      BY <1>2, <1>3
    <2>2. Elements(names \o ips) = Elements(names) \union Elements(ips)
      BY ONLY <2>1, ElementsConcat, SMTT(30), SMTT(60)
    <2> QED BY <2>2, <1>6
  <1>10. NamesFirst(names \o ips)
    <2> DEFINE all == names \o ips
    <2>1. /\ DOMAIN all = 1 .. Len(names) + Len(ips)
          /\ DOMAIN names = 1 .. Len(names) /\ Len(names) \in Nat
          /\ DOMAIN ips = 1 .. Len(ips) /\ Len(ips) \in Nat
          /\ \A i \in 1 .. Len(names) : all[i] = names[i]
          /\ \A i \in Len(names) + 1 .. Len(names) + Len(ips) : all[i] = ips[i - Len(names)]
      BY SMTT(30), SMTT(60), <1>2, <1>3
    <2> HIDE DEF all
    <2>2. \A i \in 1 .. Len(names) : all[i].kind = "name"
      BY SMTT(30), SMTT(60), <2>1, <1>7
    <2>3. \A i \in Len(names) + 1 .. Len(names) + Len(ips) : all[i].kind = "ip"
      BY SMTT(30), SMTT(60), <2>1, <1>8
    <2>4. ASSUME NEW i \in DOMAIN all, NEW j \in DOMAIN all, i <= j, all[i].kind = "ip"
          PROVE  all[j].kind = "ip"
      <3>1. i \notin 1 .. Len(names)
        BY SMTT(30), SMTT(60), <2>2, <2>4
      <3>2. j \in Len(names) + 1 .. Len(names) + Len(ips)
        BY SMTT(30), SMTT(60), <2>1, <2>4, <3>1
      <3> QED BY SMTT(30), SMTT(60), <2>3, <3>2
    <2> QED BY SMTT(30), SMTT(60), <2>4 DEF NamesFirst, all
  <1> QED BY SMTT(30), SMTT(60), <1>2, <1>3, <1>4, <1>9, <1>10

------------------------------------------------------------------------------
(* A listed name that every host looked up as it is a spelling of. *)
Protected(k) == Listed(k) /\ \A g \in AskedAs(k) : Listed(normalizeHost(g))

MayAsk(policy, k) == policy = "tunnel" => ~Protected(k)

(* A call is one its open may ask for; one for an ip rule is of the tunnel   *)
(* policy, so it is evidence that no name rule matches when the rules after  *)
(* it are tried.                                                             *)
AskRight(s) ==
  /\ call[s].st # "none" => MayAsk(call[s].policy, call[s].key)
  /\ sess[s].pc = "matching" => call[s].policy = "tunnel"
  /\ Resolving(s) /\ Listed(normalizeHost(sess[s].host)) => call[s].policy = "local"

(* Why no name with a rule gets to the tunnel resolver: no call is for one,  *)
(* the lookups are those of the calls and the entries those of the lookups.  *)
AskInv ==
  /\ rules \in {NewRuleEngine(list) : list \in RuleLists}
  /\ \A s \in Sessions : AskRight(s)
  /\ \A k \in Keys : flight[k].st # "none" => MayAsk(flight[k].policy, k)
  /\ \A k \in DOMAIN cache : cache[k].via = "local" \/ ~Protected(k)

(* An address that may be dialed on a route for a reason. *)
FitsRoute(a, route, reason) ==
  /\ route = "tunnel" => a \notin Private
  /\ reason = "local-private" => a \notin HostLocal

Routes == {"none", "direct", "tunnel"}
Reasons == {"none", "private", "rule", "fallback", "local-private"}

(* What an open holds: every address still to be dialed fits its route. *)
RouteRight(r) ==
  /\ r.pc \in {"idle", "matching", "resolve", "dial"}
  /\ r.host \in Hosts \/ (r.host = NoName /\ r.pc \in {"idle", "dial"})
  /\ r.rule \in 0 .. Len(rules)
  /\ r.route \in Routes /\ r.reason \in Reasons
  /\ r.addrs \in Seq(Addresses)
  /\ r.pc = "dial" =>
       /\ r.addrs # <<>>
       /\ \A a \in Elements(r.addrs) : FitsRoute(a, r.route, r.reason)

RouteInv == \A s \in Sessions : RouteRight(sess[s])

(* The rules are ordered, name rules first, throughout. *)
LEMMA RulesKnown ==
  ASSUME rules \in {NewRuleEngine(list) : list \in RuleLists}
  PROVE  /\ rules \in Seq(Rule) /\ NamesFirst(rules)
         /\ Len(rules) \in Nat /\ DOMAIN rules = 1 .. Len(rules)
  <1>1. PICK list \in RuleLists : rules = NewRuleEngine(list)
    OBVIOUS
  <1>2. rules \in Seq(Rule) /\ NamesFirst(rules)
    BY SMTT(30), SMTT(60), <1>1, RulesOrdered
  <1> QED BY <1>2

(* The rule that is tried next is the first one left. *)
LEMMA FirstRuleLeast ==
  ASSUME Len(rules) \in Nat, NEW h, NEW i \in Nat, RulesLeft(h, i) # {}
  PROVE  /\ FirstRule(h, i) \in RulesLeft(h, i)
         /\ \A l \in RulesLeft(h, i) : FirstRule(h, i) <= l
  <1> DEFINE S == RulesLeft(h, i)
  <1>1. S \in SUBSET Nat /\ S # {}
    BY DEF RulesLeft
  <1>2. FirstRule(h, i) = CHOOSE j \in S : \A l \in S : j <= l
    BY DEF FirstRule
  <1> HIDE DEF S
  <1>3. \E j \in S : \A l \in S : j <= l
    BY <1>1, LeastNat
  <1> QED BY SMTT(30), SMTT(60), <1>2, <1>3 DEF S

(* An open starts a lookup that it may ask for. *)
AsksRightly(s, r, c) ==
  /\ sess' = [sess EXCEPT ![s] = r]
  /\ call' = [call EXCEPT ![s] = c]
  /\ UNCHANGED <<now, up, cache, flight>>
  /\ r.pc \in {"matching", "resolve"} /\ r.host \in Hosts /\ r.rule \in 0 .. Len(rules)
  /\ r.route \in Routes /\ r.reason \in Reasons /\ r.addrs = <<>>
  /\ MayAsk(c.policy, c.key)
  /\ r.pc = "matching" => c.policy = "tunnel"
  /\ Listed(normalizeHost(r.host)) => c.policy = "local"

LEMMA AskedRightly ==
  ASSUME NEW s \in Sessions, NEW h \in Hosts, NEW g \in {h, normalizeHost(h)},
         NEW policy \in Policies, NEW p \in {"matching", "resolve"},
         NEW j \in 0 .. Len(rules), NEW route \in Routes, NEW reason \in Reasons,
         sess' = [sess EXCEPT ![s] = Is(p, h, j, route, reason)],
         Asks(s, policy, g),
         policy = "tunnel" => ~Listed(normalizeHost(h)),
         p = "matching" => policy = "tunnel"
  PROVE  \E r, c : AsksRightly(s, r, c)
  <1> DEFINE q == Is(p, h, j, route, reason)
             k == Key(policy, normalizeHost(g))
             c == [st |-> "check", policy |-> policy, host |-> normalizeHost(g),
                   key |-> k, res |-> NoResult]
  <1>1. /\ q.pc = p /\ q.host = h /\ q.rule = j /\ q.route = route
        /\ q.reason = reason /\ q.addrs = <<>>
    BY SMTT(30), SMTT(60) DEF Is
  <1>2. c.policy = policy /\ c.key = k
    BY Zenon
  <1>3. call' = [call EXCEPT ![s] = c] /\ UNCHANGED <<now, up, cache, flight>>
    BY Zenon DEF Asks
  <1>4. MayAsk(policy, k)
    <2> SUFFICES ASSUME policy = "tunnel", Protected(k) PROVE FALSE
      BY DEF MayAsk
    <2>1. k = normalizeHost(g) /\ ~Listed(normalizeHost(h))
      BY DEF Key
    <2>2. g = h => ~Listed(k)
      BY <2>1, Zenon
    <2>3. g = normalizeHost(h) => h \in AskedAs(k)
      BY <2>1, Zenon DEF AskedAs
    <2> QED BY ZenonT(30), <2>1, <2>2, <2>3 DEF Protected
  <1>5. sess' = [sess EXCEPT ![s] = q]
    BY SMTT(30), SMTT(60)
  <1>6. Listed(normalizeHost(h)) => policy = "local"
    BY DEF Policies
  <1> HIDE DEF q, k, c
  <1>7. AsksRightly(s, q, c)
    BY ONLY ZenonT(30), <1>1, <1>2, <1>3, <1>4, <1>5, <1>6, p \in {"matching", "resolve"},
       h \in Hosts, j \in 0 .. Len(rules), route \in Routes, reason \in Reasons,
       p = "matching" => policy = "tunnel" DEF AsksRightly
  <1> QED BY <1>7, Zenon

(* A host that goes direct is resolved locally. *)
LEMMA ResolvesDirect ==
  ASSUME Len(rules) \in Nat, NEW s \in Sessions, NEW h \in Hosts, NEW reason \in Reasons,
         Resolves(s, h, "direct", reason)
  PROVE  \E r, c : AsksRightly(s, r, c)
  <1>1. 0 \in 0 .. Len(rules) /\ "direct" \in Routes /\ "local" \in Policies
    BY SMTT(30), SMTT(60) DEF Routes, Policies
  <1>2. sess' = [sess EXCEPT ![s] = Is("resolve", h, 0, "direct", reason)] /\ Asks(s, "local", h)
    BY SMTT(30), SMTT(60) DEF Resolves
  <1> QED BY Zenon, <1>1, <1>2, AskedRightly

(* Deciding asks the tunnel resolver only for names without a rule: at the  *)
(* first rule because the name rules are before the ip rules, later because *)
(* the call for an ip rule was such a one already.                          *)
LEMMA DecidesRightly ==
  ASSUME rules \in {NewRuleEngine(list) : list \in RuleLists},
         NEW s \in Sessions, NEW h \in Hosts, NEW i \in Nat \ {0},
         i = 1 \/ ~Listed(normalizeHost(h)), Decides(s, h, i)
  PROVE  \E r, c : AsksRightly(s, r, c)
  <1> DEFINE n == normalizeHost(h)
             j == FirstRule(n, i)
  <1>1. /\ NamesFirst(rules) /\ Len(rules) \in Nat /\ DOMAIN rules = 1 .. Len(rules)
        /\ rules \in Seq(Rule)
    BY SMTT(30), SMTT(60), RulesKnown
  <1>2. n = normalizeHost(h)
    OBVIOUS
  <1> HIDE DEF n
  <1>3. CASE RulesLeft(n, i) = {} /\ Resolves(s, h, "tunnel", "fallback")
    <2>1. ~Listed(n)
      BY SMTT(30), SMTT(60), <1>1, <1>2, <1>3 DEF Listed, RulesLeft
    <2>2. 0 \in 0 .. Len(rules) /\ "tunnel" \in Routes /\ "fallback" \in Reasons
          /\ "tunnel" \in Policies
      BY SMTT(30), SMTT(60), <1>1 DEF Routes, Reasons, Policies
    <2>3. sess' = [sess EXCEPT ![s] = Is("resolve", h, 0, "tunnel", "fallback")]
          /\ Asks(s, "tunnel", h)
      BY <1>3 DEF Resolves
    <2> QED BY ZenonT(30), <2>1, <2>2, <2>3, <1>2, AskedRightly
  <1>4. CASE Resolves(s, h, "direct", "rule")
    BY <1>1, <1>4, ResolvesDirect, ZenonT(30) DEF Reasons
  <1>5. CASE /\ RulesLeft(n, i) # {} /\ rules[j].kind = "ip"
             /\ sess' = [sess EXCEPT ![s] = Is("matching", h, j, "none", "none")]
             /\ Asks(s, "tunnel", n)
    <2>1. j \in RulesLeft(n, i) /\ \A l \in RulesLeft(n, i) : j <= l
      BY ZenonT(30), <1>1, <1>5, FirstRuleLeast
    <2> HIDE DEF j
    <2>2. j \in 1 .. Len(rules)
      BY ONLY SMTT(30), SMTT(60), <1>1, <2>1 DEF RulesLeft
    <2>3. ~Listed(n)
      <3> SUFFICES ASSUME Listed(n), i = 1 PROVE FALSE
        BY ZenonT(30), <1>2
      <3>1. PICK l \in DOMAIN rules : rules[l].kind = "name" /\ n \in rules[l].match
        BY <1>2 DEF Listed
      <3>2. l \in RulesLeft(n, i)
        BY SMTT(30), SMTT(60), <1>1, <3>1 DEF RulesLeft
      <3>3. j <= l
        BY SMTT(30), SMTT(60), <2>1, <3>2
      <3> QED BY ZenonT(30), <1>1, <1>5, <2>2, <3>1, <3>3 DEF NamesFirst
    <2>4. j \in 0 .. Len(rules) /\ "none" \in Routes /\ "none" \in Reasons
          /\ "tunnel" \in Policies
      BY <1>1, <2>2 DEF Routes, Reasons, Policies
    <2> QED BY ZenonT(30), <2>3, <2>4, <1>2, <1>5, AskedRightly
  <1> QED BY ZenonT(30), <1>3, <1>4, <1>5 DEF Decides, n, j

(* An open, or the answer for an ip rule, ends in a lookup it may ask for. *)
LEMMA OpensRightly ==
  ASSUME CacheInv, AskInv, RouteInv, NEW s \in Sessions,
         \/ \E h \in Hosts : Open(s, h)
         \/ MatchesAddr(s)
  PROVE  UNCHANGED rules /\ \E r, c : AsksRightly(s, r, c)
  <1>1. rules \in {NewRuleEngine(list) : list \in RuleLists} /\ Len(rules) \in Nat
    BY RulesKnown DEF AskInv
  <1>2. "private" \in Reasons /\ "rule" \in Reasons
    BY DEF Reasons
  <1>3. ASSUME NEW h \in Hosts, Open(s, h)
        PROVE  UNCHANGED rules /\ \E r, c : AsksRightly(s, r, c)
    <2>1. UNCHANGED rules /\ (Resolves(s, h, "direct", "private") \/ Decides(s, h, 1))
      BY <1>3 DEF Open
    <2>2. 1 \in Nat \ {0}
      OBVIOUS
    <2> QED BY ZenonT(30), <1>1, <1>2, <2>1, <2>2, ResolvesDirect, DecidesRightly
  <1>4. ASSUME MatchesAddr(s)
        PROVE  UNCHANGED rules /\ \E r, c : AsksRightly(s, r, c)
    <2> DEFINE host == sess[s].host
               i == sess[s].rule + 1
    <2>1. /\ sess[s].pc = "matching" /\ call[s].st = "back" /\ UNCHANGED rules
          /\ Resolves(s, host, "direct", "rule") \/ Decides(s, host, i)
      BY ZenonT(30), <1>4 DEF MatchesAddr, HasResult
    <2>2. host \in Hosts
      BY <2>1 DEF RouteInv, RouteRight
    <2>3. ~Listed(normalizeHost(host))
      BY <2>1 DEF AskInv, AskRight, Resolving
    <2>4. i \in Nat \ {0}
      BY <1>1 DEF RouteInv, RouteRight
    <2> HIDE DEF host, i
    <2> QED BY ZenonT(30), <1>1, <1>2, <2>1, <2>2, <2>3, <2>4, ResolvesDirect, DecidesRightly
  <1> QED BY ZenonT(30), SMTT(30), <1>3, <1>4

(* What the cache does by itself: a call keeps its key and its policy, a    *)
(* lookup is that of a call, an entry that of a lookup.                     *)
CallKept(c) ==
  /\ call'[c].policy = call[c].policy /\ call'[c].key = call[c].key
  /\ call'[c].st # "none" => call[c].st # "none"

LookupsKept ==
  /\ \A k \in Keys :
       flight'[k].st # "none" =>
         \/ flight[k].st # "none" /\ flight'[k].policy = flight[k].policy
         \/ \E c \in Callers : /\ call[c].st # "none" /\ call[c].key = k
                               /\ flight'[k].policy = call[c].policy
  /\ \A k \in DOMAIN cache' :
       \/ k \in DOMAIN cache /\ cache'[k].via = cache[k].via
       \/ /\ k \in Keys /\ flight[k].st # "none"
          /\ flight[k].policy = "tunnel" \/ cache'[k].via = "local"

LEMMA CacheCarriesOn ==
  ASSUME CacheInv,
         \/ \E c \in Callers : CallStep(c)
         \/ \E k \in Keys : FlightStep(k)
         \/ purge \/ TunnelChanges \/ Tick \/ UNCHANGED cacheVars
  PROVE  LookupsKept /\ \A c \in Callers : CallKept(c)
  <1> DEFINE CallsKept == \A c \in Callers : CallKept(c)
  <1>1. /\ call \in [Callers -> Calls]
        /\ flight \in [Keys -> Flights] /\ CacheTypeOK
    BY SMTT(30), SMTT(60) DEF CacheInv, CacheTypeOK
  <1>2. ASSUME NEW c \in Callers, LiteralBack(c) \/ Hit(c) \/ Miss(c)
        PROVE  LookupsKept /\ CallsKept
    <2>1. /\ call[c].st = "check" /\ UNCHANGED <<cache, flight>>
          /\ \/ \E r : call' = [call EXCEPT ![c].st = "back", ![c].res = r]
             \/ call' = [call EXCEPT ![c].st = "miss"]
      BY SMTT(30), SMTT(60), <1>2 DEF LiteralBack, Hit, Miss, Back
    <2>2. CallsKept
      BY ONLY SMTT(30), SMTT(60), <1>1, <2>1 DEF CallKept, Calls
    <2> QED BY ZenonT(30), SMTT(30), <2>1, <2>2 DEF LookupsKept
  <1>3. ASSUME NEW c \in Callers, Do(c)
        PROVE  LookupsKept /\ CallsKept
    <2> DEFINE key == call[c].key
               f == [st |-> "out", policy |-> call[c].policy, res |-> NoResult]
    <2>1. /\ call[c].st = "miss" /\ UNCHANGED cache
          /\ call' = [call EXCEPT ![c].st = "wait"]
          /\ flight' = [flight EXCEPT ![key] = IF @.st = "none" THEN f ELSE @]
      BY <1>3 DEF Do
    <2>2. CallsKept
      BY ONLY SMTT(30), SMTT(60), <1>1, <2>1 DEF CallKept, Calls
    <2>3. f.policy = call[c].policy
      OBVIOUS
    <2> HIDE DEF f
    <2>4. \A k \in Keys : flight'[k] = flight[k] \/ (k = key /\ flight'[k] = f)
      BY ONLY SMTT(30), SMTT(60), <1>1, <2>1
    <2> QED BY SMTT(30), SMTT(60), <2>1, <2>2, <2>3, <2>4 DEF LookupsKept
  <1>4. ASSUME NEW k \in Keys, Delivers(k)
        PROVE  LookupsKept /\ CallsKept
    <2>1. /\ UNCHANGED cache
          /\ flight' = [flight EXCEPT ![k] = NoFlight]
          /\ call' = [c \in Callers |->
               IF call[c].st = "wait" /\ call[c].key = k
               THEN [call[c] EXCEPT !.st = "back", !.res = flight[k].res]
               ELSE call[c]]
      BY ZenonT(30), SMTT(30), <1>4 DEF Delivers
    <2>2. ASSUME NEW d \in Callers PROVE CallKept(d)
      <3> DEFINE new == [call[d] EXCEPT !.st = "back", !.res = flight[k].res]
      <3>1. call[d] \in Calls
        BY <1>1
      <3>2. new.key = call[d].key /\ new.policy = call[d].policy
        BY SMTT(30), SMTT(60), <3>1 DEF Calls
      <3>3. call'[d] = call[d] \/ (call[d].st = "wait" /\ call'[d] = new)
        BY ZenonT(30), SMTT(30), <2>1
      <3> HIDE DEF new
      <3> QED BY SMTT(30), SMTT(60), <3>2, <3>3 DEF CallKept
    <2>3. \A j \in Keys : flight'[j].st # "none" => flight'[j] = flight[j]
      <3>1. flight'[k] = NoFlight /\ \A j \in Keys \ {k} : flight'[j] = flight[j]
        BY <1>1, <2>1, Zenon
      <3> QED BY SMTT(30), SMTT(60), <3>1 DEF NoFlight
    <2>4. LookupsKept
      BY ONLY ZenonT(30), SMTT(30), <2>1, <2>3 DEF LookupsKept
    <2> QED BY <2>2, <2>4
  <1>5. ASSUME NEW k \in Keys, NEW r \in Outcomes(k), Answer(k, r)
        PROVE  LookupsKept /\ CallsKept
    <2>1. /\ flight[k].st = "out" /\ UNCHANGED call
          /\ flight' = [flight EXCEPT ![k].st = "ready", ![k].res = r]
          /\ store(k, entryOf(r)) \/ UNCHANGED cache
      BY ZenonT(30), SMTT(30), <1>5 DEF Answer
    <2>2. \A j \in Keys : flight'[j].policy = flight[j].policy /\ (j # k => flight'[j] = flight[j])
      BY ONLY SMTT(30), SMTT(60), <1>1, <2>1 DEF Flights
    <2>3. r.via = "local" \/ flight[k].policy = "tunnel"
      <3>1. r.via \in Sources(flight[k].policy) /\ flight[k].policy \in Policies
        BY <1>1, OutcomeType DEF Flights
      <3> QED BY <3>1 DEF Sources, Policies
    <2>4. entryOf(r).via = r.via
      BY DEF entryOf
    <2>5. \A j \in DOMAIN cache' :
            \/ j \in DOMAIN cache /\ cache'[j].via = cache[j].via
            \/ j = k /\ cache'[j].via = r.via
      BY SMTT(30), SMTT(60), <1>1, <2>1, <2>4, StoreEffect
    <2>6. CallsKept
      BY <2>1 DEF CallKept
    <2>7. LookupsKept
      <3>1. \A j \in Keys : flight'[j].st # "none" =>
              flight[j].st # "none" /\ flight'[j].policy = flight[j].policy
        BY ZenonT(30), SMTT(30), <2>1, <2>2
      <3>2. ASSUME NEW j \in DOMAIN cache'
            PROVE  \/ j \in DOMAIN cache /\ cache'[j].via = cache[j].via
                   \/ /\ j \in Keys /\ flight[j].st # "none"
                      /\ flight[j].policy = "tunnel" \/ cache'[j].via = "local"
        <4>1. flight[k].st # "none"
          BY <2>1
        <4> QED BY ONLY ZenonT(30), SMTT(30), k \in Keys, j \in DOMAIN cache', <2>3, <2>5, <4>1
      <3> QED BY ONLY ZenonT(30), <3>1, <3>2 DEF LookupsKept
    <2> QED BY <2>6, <2>7
  <1>6. ASSUME purge PROVE LookupsKept /\ CallsKept
    BY ZenonT(30), SMTT(30), <1>6 DEF purge, LookupsKept, CallKept
  <1>7. ASSUME UNCHANGED <<cache, flight, call>> PROVE LookupsKept /\ CallsKept
    BY <1>7 DEF LookupsKept, CallKept
  <1> HIDE DEF CallsKept
  <1>8. ASSUME NEW c \in Callers, CallStep(c) PROVE LookupsKept /\ CallsKept
    BY ZenonT(30), <1>2, <1>3, <1>8 DEF CallStep
  <1>9. ASSUME NEW k \in Keys, FlightStep(k) PROVE LookupsKept /\ CallsKept
    BY ZenonT(30), <1>4, <1>5, <1>9 DEF FlightStep
  <1>10. LookupsKept /\ CallsKept
    <2>1. TunnelChanges \/ Tick \/ UNCHANGED cacheVars => UNCHANGED <<cache, flight, call>>
      BY DEF TunnelChanges, Tick, cacheVars
    <2>2. CASE \E c \in Callers : CallStep(c)
      BY ONLY ZenonT(30), <2>2, <1>8
    <2>3. CASE \E k \in Keys : FlightStep(k)
      BY ONLY ZenonT(30), <2>3, <1>9
    <2>4. CASE TunnelChanges \/ Tick \/ UNCHANGED cacheVars
      <3>1. UNCHANGED <<cache, flight, call>>
        BY <2>1, <2>4
      <3> QED BY ONLY <3>1, <1>7
    <2> QED BY ZenonT(30), SMTT(30), <1>6, <2>2, <2>3, <2>4
  <1> QED BY <1>10 DEF CallsKept

(* What is listed and protected stays so, as the rules stay. *)
LEMMA ListedStays ==
  ASSUME UNCHANGED rules
  PROVE  /\ \A h : Listed(h)' <=> Listed(h)
         /\ \A k : Protected(k)' <=> Protected(k)
         /\ \A p, k : MayAsk(p, k)' <=> MayAsk(p, k)
  <1>1. \A h : Listed(h)' <=> Listed(h)
    BY Zenon DEF Listed
  <1>2. \A k : Protected(k)' <=> Protected(k)
    BY ZenonT(30), <1>1 DEF Protected, AskedAs, normalizeHost
  <1> QED BY ZenonT(30), <1>1, <1>2 DEF MayAsk

(* The lookups and the entries stay right if the calls were. *)
LEMMA LookupsRight ==
  ASSUME AskInv, UNCHANGED rules, LookupsKept
  PROVE  /\ (\A k \in Keys : flight[k].st # "none" => MayAsk(flight[k].policy, k))'
         /\ (\A k \in DOMAIN cache : cache[k].via = "local" \/ ~Protected(k))'
  <1>1. ASSUME NEW k \in Keys, flight'[k].st # "none"
        PROVE  MayAsk(flight[k].policy, k)'
    <2>1. MayAsk(flight'[k].policy, k)
      BY ZenonT(30), SMTT(30), <1>1 DEF LookupsKept, AskInv, AskRight, Sessions
    <2> QED BY ZenonT(30), <2>1 DEF MayAsk, Protected, Listed, AskedAs, normalizeHost
  <1>2. ASSUME NEW k \in DOMAIN cache'
        PROVE  cache'[k].via = "local" \/ ~Protected(k)'
    <2>1. cache'[k].via = "local" \/ ~Protected(k)
      BY ZenonT(30), SMTT(30), <1>2 DEF LookupsKept, AskInv, MayAsk
    <2> QED BY ZenonT(30), <2>1, ListedStays
  <1> QED BY ZenonT(30), <1>1, <1>2

(* A step that asks for nothing keeps what was asked for. *)
LEMMA CarriedOnRightly ==
  ASSUME AskInv, UNCHANGED rules, LookupsKept,
         \A s \in Sessions :
           /\ sess'[s] = sess[s] \/ ~Resolving(s)'
           /\ CallKept(s) \/ (call'[s].st = "none" /\ ~Resolving(s)')
  PROVE  AskInv'
  <1>1. ASSUME NEW s \in Sessions PROVE AskRight(s)'
    <2>1. AskRight(s)
      BY DEF AskInv
    <2>2. (call[s].st # "none" => MayAsk(call[s].policy, call[s].key))'
      <3>1. call'[s].st # "none" => MayAsk(call'[s].policy, call'[s].key)
        BY ZenonT(30), <2>1 DEF AskRight, CallKept
      <3> QED BY ZenonT(30), <3>1 DEF MayAsk, Protected, Listed, AskedAs, normalizeHost
    <2>3. CASE ~Resolving(s)'
      BY ZenonT(30), <2>2, <2>3 DEF AskRight, Resolving
    <2>4. CASE sess'[s] = sess[s] /\ CallKept(s)
      <3>1. (sess[s].pc = "matching" => call[s].policy = "tunnel")'
        BY <2>1, <2>4 DEF AskRight, CallKept
      <3>2. (Resolving(s) /\ Listed(normalizeHost(sess[s].host)) => call[s].policy = "local")'
        BY ZenonT(30), <2>1, <2>4 DEF AskRight, CallKept, Resolving, Listed, normalizeHost
      <3> QED BY ZenonT(30), <2>2, <3>1, <3>2 DEF AskRight
    <2> QED BY ZenonT(30), <2>3, <2>4
  <1>2. (rules \in {NewRuleEngine(list) : list \in RuleLists})'
    BY ZenonT(30) DEF AskInv
  <1> QED BY ZenonT(30), <1>1, <1>2, LookupsRight DEF AskInv

(* An open that starts a lookup it may ask for keeps both invariants. *)
LEMMA AskingRightly ==
  ASSUME CacheInv, OpenInv, AskInv, RouteInv, UNCHANGED rules,
         NEW s \in Sessions, NEW r, NEW c, AsksRightly(s, r, c)
  PROVE  AskInv' /\ RouteInv'
  <1>1. /\ call \in [Sessions -> Calls]
        /\ DOMAIN sess = Sessions
    BY ZenonT(30) DEF CacheInv, CacheTypeOK, Sessions, OpenInv
  <1>2. /\ sess' = [sess EXCEPT ![s] = r]
        /\ call' = [call EXCEPT ![s] = c]
        /\ UNCHANGED <<cache, flight>>
        /\ MayAsk(c.policy, c.key) /\ (r.pc = "matching" => c.policy = "tunnel")
        /\ Listed(normalizeHost(r.host)) => c.policy = "local"
    BY ZenonT(30) DEF AsksRightly
  <1>3. /\ sess'[s] = r /\ call'[s] = c
        /\ \A t \in Sessions \ {s} : sess'[t] = sess[t] /\ call'[t] = call[t]
    BY ZenonT(30), <1>1, <1>2
  <1>4. ASSUME NEW t \in Sessions PROVE AskRight(t)'
    <2>1. /\ call'[t].st # "none" => MayAsk(call'[t].policy, call'[t].key)
          /\ sess'[t].pc = "matching" => call'[t].policy = "tunnel"
          /\ /\ sess'[t].pc \in {"matching", "resolve"}
             /\ Listed(normalizeHost(sess'[t].host))
             => call'[t].policy = "local"
      <3>1. CASE t = s
        BY ZenonT(30), <1>2, <1>3, <3>1
      <3>2. CASE t # s
        BY ZenonT(30), <1>3, <3>2 DEF AskInv, AskRight, Resolving
      <3> QED BY <3>1, <3>2
    <2> QED BY ZenonT(30), <2>1 DEF AskRight, Resolving, MayAsk, Protected, Listed, AskedAs, normalizeHost
  <1>5. LookupsKept
    BY SMTT(30), SMTT(60), <1>2 DEF LookupsKept
  <1>6. AskInv'
    <2>1. (rules \in {NewRuleEngine(list) : list \in RuleLists})'
      BY DEF AskInv
    <2> QED BY ZenonT(30), <1>4, <1>5, <2>1, LookupsRight DEF AskInv
  <1>7. RouteRight(r)
    BY SMTT(30), SMTT(60), SMTT(90) DEF AsksRightly, RouteRight
  <1>8. ASSUME NEW t \in Sessions PROVE RouteRight(sess[t])'
    <2>1. RouteRight(sess'[t])
      BY ZenonT(30), SMTT(30), <1>3, <1>7 DEF RouteInv
    <2> QED BY ZenonT(30), SMTT(30), <2>1 DEF RouteRight
  <1> QED BY ZenonT(30), <1>6, <1>8 DEF RouteInv

(* A step of an open that asks for nothing. *)
LEMMA RoutesKept ==
  ASSUME OpenInv, RouteInv, UNCHANGED rules, NEW s \in Sessions, NEW r,
         sess' = [sess EXCEPT ![s] = r], RouteRight(r)
  PROVE  RouteInv'
  <1>1. sess'[s] = r /\ \A t \in Sessions \ {s} : sess'[t] = sess[t]
    BY SMTT(30), SMTT(60) DEF OpenInv
  <1>2. ASSUME NEW t \in Sessions PROVE RouteRight(sess[t])'
    <2>1. RouteRight(sess'[t])
      BY <1>1 DEF RouteInv
    <2> QED BY ZenonT(30), <2>1 DEF RouteRight
  <1> QED BY ZenonT(30), SMTT(30), <1>2 DEF RouteInv

(* What a lookup returns is a list of addresses. *)
LEMMA AnswersAreLists == AddrLists \subseteq Seq(Addresses)
  <1>1. TunnelAnswers \union LocalAnswers \subseteq Seq(Addresses)
    BY OpenerAssumption
  <1>2. ASSUME NEW h \in Hosts PROVE <<Literal[h]>> \in Seq(Addresses)
    <2>1. Literal[h] \in Addresses
      BY DEF Addresses
    <2> QED BY <2>1
  <1>3. <<>> \in Seq(Addresses)
    OBVIOUS
  <1> QED BY ZenonT(30), <1>1, <1>2, <1>3 DEF AddrLists

LEMMA HeadElement ==
  ASSUME NEW T, NEW list \in Seq(T), list # <<>>
  PROVE  Head(list) \in Elements(list) /\ Head(list) \in T
  <1>1. Len(list) \in Nat /\ DOMAIN list = 1 .. Len(list) /\ Len(list) # 0
    OBVIOUS
  <1>2. 1 \in DOMAIN list /\ Head(list) = list[1] /\ list[1] \in T
    BY SMTT(30), SMTT(60), <1>1
  <1> QED BY <1>2 DEF Elements

LEMMA TailElements ==
  ASSUME NEW T, NEW list \in Seq(T), Len(list) > 1
  PROVE  /\ Tail(list) \in Seq(T) /\ Tail(list) # <<>>
         /\ Elements(Tail(list)) \subseteq Elements(list)
  <1> DEFINE new == Tail(list)
  <1>1. /\ new \in Seq(T) /\ Len(list) \in Nat /\ Len(new) = Len(list) - 1
        /\ DOMAIN new = 1 .. Len(list) - 1 /\ DOMAIN list = 1 .. Len(list)
        /\ \A i \in 1 .. Len(list) - 1 : new[i] = list[i + 1]
    OBVIOUS
  <1> HIDE DEF new
  <1>2. new # <<>>
    <2>1. Len(new) # 0
      BY SMTT(30), SMTT(60), <1>1
    <2> QED BY <2>1
  <1>3. ASSUME NEW x \in Elements(new) PROVE x \in Elements(list)
    <2>1. PICK i \in 1 .. Len(list) - 1 : x = list[i + 1]
      BY ZenonT(30), SMTT(30), <1>1 DEF Elements
    <2>2. i + 1 \in DOMAIN list
      BY <1>1
    <2> QED BY SMTT(30), SMTT(60), <2>1, <2>2 DEF Elements
  <1> QED BY ZenonT(30), SMTT(30), <1>1, <1>2, <1>3 DEF new

(* The loops of candidates: what they keep, and that they add nothing. *)
LEMMA PickedFrom ==
  ASSUME NEW list \in Seq(Addresses), NEW I
  PROVE  /\ Pick(list, I) \in Seq(Addresses)
         /\ \A x \in Elements(Pick(list, I)) : \E i \in DOMAIN list : i \in I /\ x = list[i]
  <1>1. /\ Pick(list, I) \in Seq(Addresses)
        /\ Elements(Pick(list, I)) = {list[i] : i \in I \cap DOMAIN list}
    BY PickElements
  <1> QED BY Zenon, <1>1

LEMMA PublicOnly ==
  ASSUME NEW list \in Seq(Addresses)
  PROVE  public(list) \in Seq(Addresses) /\ \A a \in Elements(public(list)) : a \notin Private
  <1> DEFINE I == {i \in DOMAIN list : ~isPrivate(list[i])}
  <1>1. public(list) = Pick(list, I)
    BY DEF public
  <1>2. \A i \in I : list[i] \notin Private
    BY DEF isPrivate
  <1> HIDE DEF I
  <1>3. /\ Pick(list, I) \in Seq(Addresses)
        /\ \A x \in Elements(Pick(list, I)) :
             \E i \in DOMAIN list : i \in I /\ x = list[i]
    BY SMTT(30), SMTT(60), PickedFrom
  <1> QED BY <1>1, <1>2, <1>3

LEMMA HostLocalDropped ==
  ASSUME NEW list \in Seq(Addresses)
  PROVE  /\ dropHostLocal(list) \in Seq(Addresses)
         /\ \A a \in Elements(dropHostLocal(list)) : a \notin HostLocal
  <1> DEFINE I == {i \in DOMAIN list : list[i] \notin HostLocal}
  <1>1. dropHostLocal(list) = Pick(list, I)
    BY DEF dropHostLocal
  <1>2. \A i \in I : list[i] \notin HostLocal
    OBVIOUS
  <1> HIDE DEF I
  <1>3. /\ Pick(list, I) \in Seq(Addresses)
        /\ \A x \in Elements(Pick(list, I)) :
             \E i \in DOMAIN list : i \in I /\ x = list[i]
    BY PickedFrom
  <1> QED BY SMTT(30), SMTT(60), <1>1, <1>2, <1>3

LEMMA DirectOrderFrom ==
  ASSUME NEW list \in Seq(Addresses)
  PROVE  directOrder(list) \in Seq(Addresses) /\ Elements(directOrder(list)) \subseteq Elements(list)
  <1> DEFINE I == {i \in DOMAIN list : familyMatches(list[i])}
  <1>1. directOrder(list) = Pick(list, I)
    BY DEF directOrder
  <1> HIDE DEF I
  <1>2. \A i \in DOMAIN list : list[i] \in Elements(list)
    BY DEF Elements
  <1>3. /\ Pick(list, I) \in Seq(Addresses)
        /\ \A x \in Elements(Pick(list, I)) :
             \E i \in DOMAIN list : i \in I /\ x = list[i]
    BY PickedFrom
  <1> QED BY SMTT(30), SMTT(60), <1>1, <1>2, <1>3

LEMMA TunnelOrderFrom ==
  ASSUME NEW list \in Seq(Addresses), list # <<>>
  PROVE  /\ tunnelOrder(list) \in Seq(Addresses) /\ tunnelOrder(list) # <<>>
         /\ Elements(tunnelOrder(list)) \subseteq Elements(list)
  <1> DEFINE I == {i \in DOMAIN list : list[i] \in IPv4}
             v4 == Pick(list, I)
             first == pickTunnelAddr(list)
             J == {i \in DOMAIN list : list[i] # first}
             rest == Pick(list, J)
  <1>1. \A i \in DOMAIN list : list[i] \in Elements(list)
    BY DEF Elements
  <1>2. v4 \in Seq(Addresses) /\ Elements(v4) \subseteq Elements(list)
    <2> HIDE DEF I
    <2>1. /\ Pick(list, I) \in Seq(Addresses)
          /\ \A x \in Elements(Pick(list, I)) :
               \E i \in DOMAIN list : i \in I /\ x = list[i]
      BY PickedFrom
    <2> QED BY <1>1, <2>1
  <1>3. first = IF v4 # <<>> THEN Head(v4) ELSE Head(list)
    BY SMTT(30), SMTT(60) DEF pickTunnelAddr
  <1>4. rest \in Seq(Addresses) /\ Elements(rest) \subseteq Elements(list)
    <2> HIDE DEF J
    <2>1. /\ Pick(list, J) \in Seq(Addresses)
          /\ \A x \in Elements(Pick(list, J)) :
               \E i \in DOMAIN list : i \in J /\ x = list[i]
      BY SMTT(30), SMTT(60), PickedFrom
    <2> QED BY <1>1, <2>1
  <1>5. tunnelOrder(list) = <<first>> \o rest
    BY DEF tunnelOrder
  <1> HIDE DEF v4, first, rest
  <1>6. first \in Elements(list) /\ first \in Addresses
    BY Zenon, <1>2, <1>3, HeadElement
  <1>7. <<first>> \in Seq(Addresses) /\ Elements(<<first>>) = {first}
    BY <1>6 DEF Elements
  <1>8. Elements(<<first>> \o rest) = Elements(<<first>>) \union Elements(rest)
    <2> DEFINE one == <<first>>
    <2>1. one \in Seq(Addresses)
      BY <1>7
    <2> HIDE DEF one
    <2>2. Elements(one \o rest) = Elements(one) \union Elements(rest)
      BY ONLY SMTT(30), SMTT(60), <2>1, <1>4, ElementsConcat
    <2> QED BY <2>2 DEF one
  <1>9. <<first>> \o rest \in Seq(Addresses) /\ <<first>> \o rest # <<>>
    BY ONLY SMTT(30), SMTT(60), <1>4, <1>7
  <1> QED BY Zenon, <1>4, <1>5, <1>6, <1>7, <1>8, <1>9

(* What candidates has dialed fits the route it is dialed on. *)
LEMMA CandidatesFit ==
  ASSUME NEW s, NEW r, r.addrs \in Seq(Addresses),
         sess[s].route \in Routes, sess[s].reason \in Reasons \ {"local-private"}
  PROVE  LET c == candidates(s, r)
         IN  /\ c.route \in Routes /\ c.reason \in Reasons /\ c.addrs \in Seq(Addresses)
             /\ \A a \in Elements(c.addrs) : FitsRoute(a, c.route, c.reason)
  <1> DEFINE list == r.addrs
             pub == public(list)
             local == dropHostLocal(list)
             Of(route, reason, addrs) == [route |-> route, reason |-> reason, addrs |-> addrs]
             Fit(c) == /\ c.route \in Routes /\ c.reason \in Reasons /\ c.addrs \in Seq(Addresses)
                       /\ \A a \in Elements(c.addrs) : FitsRoute(a, c.route, c.reason)
  <1>1. /\ pub \in Seq(Addresses) /\ (\A a \in Elements(pub) : a \notin Private)
        /\ local \in Seq(Addresses) /\ (\A a \in Elements(local) : a \notin HostLocal)
    BY SMTT(30), SMTT(60), PublicOnly, HostLocalDropped
  <1>2. "tunnel" \in Routes /\ "direct" \in Routes /\ "local-private" \in Reasons
    BY SMTT(30), SMTT(60) DEF Routes, Reasons
  <1>3. \/ candidates(s, r) = Of("direct", sess[s].reason, directOrder(list))
        \/ candidates(s, r) = Of("direct", "local-private", directOrder(local))
        \/ candidates(s, r) = Of("tunnel", sess[s].reason, <<>>)
        \/ pub # <<>> /\ candidates(s, r) = Of("tunnel", sess[s].reason, tunnelOrder(pub))
    <2> HIDE DEF Of
    <2>1. CASE sess[s].route = "direct"
      BY <2>1 DEF candidates, Of
    <2>2. CASE sess[s].route = "tunnel" /\ pub # <<>>
      BY <2>2 DEF candidates, Of
    <2>3. CASE sess[s].route = "tunnel" /\ pub = <<>> /\ mayGoDirect(r)
      BY <2>3 DEF candidates, Of
    <2>4. CASE sess[s].route = "tunnel" /\ pub = <<>> /\ ~mayGoDirect(r)
      BY <2>4 DEF candidates, Of
    <2>5. CASE sess[s].route = "none"
      BY SMTT(30), SMTT(60), <2>5 DEF candidates, Of
    <2> QED BY ZenonT(30), <2>1, <2>2, <2>3, <2>4, <2>5 DEF Routes
  <1> HIDE DEF pub, local, list
  <1>4. ASSUME NEW route \in Routes, NEW reason \in Reasons, NEW addrs \in Seq(Addresses),
               \A a \in Elements(addrs) : FitsRoute(a, route, reason)
        PROVE  Fit(Of(route, reason, addrs))
    BY ZenonT(30), <1>4
  <1> HIDE DEF Of, Fit
  <1>5. Fit(Of("direct", sess[s].reason, directOrder(list)))
    <2>1. directOrder(list) \in Seq(Addresses)
      BY ZenonT(30), SMTT(30), DirectOrderFrom DEF list
    <2> QED BY ZenonT(30), SMTT(30), <1>2, <1>4, <2>1 DEF FitsRoute
  <1>6. Fit(Of("direct", "local-private", directOrder(local)))
    <2>1. directOrder(local) \in Seq(Addresses) /\ Elements(directOrder(local)) \subseteq Elements(local)
      BY SMTT(30), SMTT(60), <1>1, DirectOrderFrom
    <2> QED BY ZenonT(30), SMTT(30), <1>1, <1>2, <1>4, <2>1 DEF FitsRoute
  <1>7. Fit(Of("tunnel", sess[s].reason, <<>>))
    <2>1. <<>> \in Seq(Addresses) /\ Elements(<<>>) = {}
      BY ONLY SMTT(30), SMTT(60), ElementsNone
    <2> QED BY ZenonT(30), <1>2, <1>4, <2>1
  <1>8. ASSUME pub # <<>> PROVE Fit(Of("tunnel", sess[s].reason, tunnelOrder(pub)))
    <2>1. tunnelOrder(pub) \in Seq(Addresses) /\ Elements(tunnelOrder(pub)) \subseteq Elements(pub)
      BY ONLY ZenonT(30), SMTT(30), <1>1, <1>8, TunnelOrderFrom
    <2> QED BY SMTT(30), SMTT(60), <1>1, <1>2, <1>4, <2>1 DEF FitsRoute
  <1>9. Fit(candidates(s, r))
    BY SMTT(30), SMTT(60), <1>3, <1>5, <1>6, <1>7, <1>8
  <1> QED BY SMTT(30), SMTT(60), <1>9 DEF Fit

(* The end of the final lookup, and the dials. *)
LEMMA EndsRightly ==
  ASSUME CacheInv, OpenInv, AskInv, RouteInv, NEW s \in Sessions, Resolved(s) \/ Dial(s)
  PROVE  AskInv' /\ RouteInv'
  <1>1. /\ call \in [Callers -> Calls]
        /\ DOMAIN sess = Sessions
        /\ DOMAIN sess[s] = {"pc", "host", "rule", "route", "reason", "addrs"}
        /\ RouteRight(sess[s]) /\ s \in Callers
    BY SMTT(30), SMTT(60) DEF CacheInv, CacheTypeOK, Sessions, OpenInv, RouteInv
  <1>2. Len(rules) \in Nat
    BY SMTT(30), SMTT(60), SMTT(90), RulesKnown DEF AskInv
  <1>3. RouteRight(Nobody) /\ Nobody.pc = "idle"
    BY <1>2 DEF RouteRight, Nobody, Routes, Reasons
  <1>4. ASSUME NEW r, sess' = [sess EXCEPT ![s] = r], r.pc \in {"idle", "dial"}, RouteRight(r),
               UNCHANGED rules, LookupsKept,
               \A t \in Callers : CallKept(t) \/ (t = s /\ call'[t].st = "none")
        PROVE  AskInv' /\ RouteInv'
    <2>1. \A t \in Sessions : IF t = s THEN ~Resolving(t)' ELSE sess'[t] = sess[t]
      BY ONLY SMTT(30), SMTT(60), <1>1, <1>4 DEF Resolving
    <2>2. \A t \in Sessions :
            /\ sess'[t] = sess[t] \/ ~Resolving(t)'
            /\ CallKept(t) \/ (call'[t].st = "none" /\ ~Resolving(t)')
      BY ONLY ZenonT(30), <2>1, <1>4 DEF Sessions
    <2>3. AskInv'
      BY ONLY ZenonT(30), <2>2, <1>4, AskInv, CarriedOnRightly
    <2>4. RouteInv'
      BY ONLY ZenonT(30), <1>4, OpenInv, RouteInv, s \in Sessions, RoutesKept
    <2> QED BY <2>3, <2>4
  <1>5. CASE Resolved(s)
    <2> DEFINE c == candidates(s, call[s].res)
               d == [Nobody EXCEPT !.pc = "dial", !.route = c.route,
                                   !.reason = c.reason, !.addrs = c.addrs]
    <2>1. /\ sess[s].pc = "resolve" /\ UNCHANGED rules /\ Frees(s)
          /\ \/ c.addrs # <<>> /\ sess' = [sess EXCEPT ![s] = d]
             \/ sess' = [sess EXCEPT ![s] = Nobody]
      BY ZenonT(30), <1>5 DEF Resolved
    <2>2. /\ call[s].res.addrs \in Seq(Addresses)
      <3>1. call[s].res \in Results
        BY ZenonT(30), <1>1 DEF Calls
      <3>2. call[s].res.addrs \in AddrLists
        BY SMTT(30), SMTT(60), <3>1 DEF Results
      <3> QED BY SMTT(30), SMTT(60), <3>2, AnswersAreLists
    <2>3. sess[s].route \in Routes /\ sess[s].reason \in Reasons \ {"local-private"}
      BY SMTT(30), SMTT(60), <1>1, <2>1 DEF RouteRight, OpenInv, Resolving
    <2>4. /\ c.route \in Routes /\ c.reason \in Reasons /\ c.addrs \in Seq(Addresses)
          /\ \A a \in Elements(c.addrs) : FitsRoute(a, c.route, c.reason)
      BY ZenonT(30), <2>2, <2>3, CandidatesFit
    <2> HIDE DEF c
    <2>5. d.pc = "dial" /\ d.host = NoName /\ d.rule = 0 /\ d.route = c.route
          /\ d.reason = c.reason /\ d.addrs = c.addrs
      BY ZenonT(30), SMTT(30) DEF Nobody
    <2>6. c.addrs # <<>> => RouteRight(d) /\ d.pc \in {"idle", "dial"}
      <3> HIDE DEF d
      <3> QED BY ONLY SMTT(30), SMTT(60), <1>2, <2>4, <2>5 DEF RouteRight
    <2> HIDE DEF d
    <2>7. LookupsKept /\ \A t \in Callers : CallKept(t) \/ (t = s /\ call'[t].st = "none")
      <3>1. call' = [call EXCEPT ![s] = NoCall] /\ UNCHANGED <<cache, flight>>
        BY <2>1 DEF Frees
      <3>2. NoCall.st = "none"
        BY ZenonT(30) DEF NoCall
      <3>3. \A t \in Callers : IF t = s THEN call'[t].st = "none" ELSE call'[t] = call[t]
        BY SMTT(30), SMTT(60), <1>1, <3>1, <3>2
      <3>4. \A t \in Callers : CallKept(t) \/ (t = s /\ call'[t].st = "none")
        BY ONLY ZenonT(30), <3>3 DEF CallKept
      <3>5. LookupsKept
        BY SMTT(30), SMTT(60), <3>1 DEF LookupsKept
      <3> QED BY <3>4, <3>5
    <2>8. Nobody.pc \in {"idle", "dial"}
      BY <1>3
    <2> QED BY ONLY ZenonT(30), <1>3, <1>4, <2>1, <2>6, <2>7, <2>8
  <1>6. CASE Dial(s)
    <2>1. /\ UNCHANGED <<cacheVars, rules>> /\ sess[s].pc = "dial"
          /\ \/ sess' = [sess EXCEPT ![s] = Nobody]
             \/ Len(sess[s].addrs) > 1 /\ sess' = [sess EXCEPT ![s].addrs = Tail(@)]
      BY ZenonT(30), <1>6 DEF Dial, DialFails, DialSucceeds
    <2>2. LookupsKept /\ \A t \in Callers : CallKept(t)
      BY SMTT(30), SMTT(60), <2>1, CacheCarriesOn
    <2>3. CASE Len(sess[s].addrs) > 1 /\ sess' = [sess EXCEPT ![s].addrs = Tail(@)]
      <3> DEFINE r == [sess[s] EXCEPT !.addrs = Tail(sess[s].addrs)]
      <3>1. sess' = [sess EXCEPT ![s] = r]
        BY ZenonT(30), <2>3
      <3>2. /\ r.pc = sess[s].pc /\ r.host = sess[s].host /\ r.rule = sess[s].rule /\ r.route = sess[s].route
            /\ r.reason = sess[s].reason /\ r.addrs = Tail(sess[s].addrs)
        BY <1>1
      <3> HIDE DEF r
      <3>3. /\ r.addrs \in Seq(Addresses) /\ r.addrs # <<>>
            /\ Elements(r.addrs) \subseteq Elements(sess[s].addrs)
        BY ZenonT(30), SMTT(30), <1>1, <2>3, <3>2, TailElements DEF RouteRight
      <3>4. RouteRight(r) /\ r.pc \in {"idle", "dial"}
        BY SMTT(30), SMTT(60), <1>1, <2>1, <3>2, <3>3 DEF RouteRight
      <3> QED BY ZenonT(30), <1>4, <2>1, <2>2, <3>1, <3>4
    <2>4. Nobody.pc \in {"idle", "dial"}
      BY <1>3
    <2> QED BY ONLY ZenonT(30), <1>3, <1>4, <2>1, <2>2, <2>3, <2>4
  <1> QED BY ZenonT(30), <1>5, <1>6

LEMMA InitRoutes == Init => AskInv /\ RouteInv
  <1> SUFFICES ASSUME Init PROVE AskInv /\ RouteInv
    OBVIOUS
  <1>1. AskInv
    BY ZenonT(30) DEF Init, CacheInit, AskInv, AskRight, Resolving, Nobody, NoCall, NoFlight, Sessions
  <1>2. Len(rules) \in Nat
    BY ZenonT(30), RulesKnown DEF Init
  <1>3. RouteRight(Nobody)
    BY SMTT(30), SMTT(60), <1>2 DEF RouteRight, Nobody, Routes, Reasons
  <1> QED BY SMTT(30), SMTT(60), <1>1, <1>3 DEF Init, RouteInv

LEMMA RoutesStep == CacheInv /\ OpenInv /\ AskInv /\ RouteInv /\ [Next]_vars => AskInv' /\ RouteInv'
  <1> SUFFICES ASSUME CacheInv, OpenInv, AskInv, RouteInv, [Next]_vars
               PROVE  AskInv' /\ RouteInv'
    OBVIOUS
  <1>1. ASSUME NEW s \in Sessions, (\E h \in Hosts : Open(s, h)) \/ MatchesAddr(s)
        PROVE  AskInv' /\ RouteInv'
    <2>1. UNCHANGED rules /\ \E r, c : AsksRightly(s, r, c)
      BY <1>1, OpensRightly
    <2> QED BY SMTT(30), SMTT(60), <2>1, AskingRightly
  <1>2. ASSUME NEW s \in Sessions, Resolved(s) \/ Dial(s)
        PROVE  AskInv' /\ RouteInv'
    BY ZenonT(30), <1>2, EndsRightly
  <1>3. ASSUME UNCHANGED <<rules, sess>>,
               \/ \E c \in Callers : CallStep(c)
               \/ \E k \in Keys : FlightStep(k)
               \/ purge \/ TunnelChanges \/ Tick \/ UNCHANGED cacheVars
        PROVE  AskInv' /\ RouteInv'
    <2>1. LookupsKept /\ \A s \in Sessions : CallKept(s)
      BY SMTT(30), SMTT(60), <1>3, CacheCarriesOn DEF Sessions
    <2>2. RouteInv'
      BY ZenonT(30), <1>3 DEF RouteInv, RouteRight
    <2>3. AskInv'
      BY ZenonT(30), <1>3, <2>1, CarriedOnRightly
    <2> QED BY <2>2, <2>3
  <1>4. ASSUME NEW s \in Sessions, CallGoesOn(s)
        PROVE  AskInv' /\ RouteInv'
    BY SMTT(30), SMTT(60), <1>3, <1>4 DEF CallGoesOn, Sessions
  <1>5. CASE \/ \E k \in Keys : InCache(FlightStep(k))
             \/ InCache(purge) \/ TunnelFlips \/ InCache(Tick)
    BY ZenonT(30), SMTT(30), <1>3, <1>5 DEF InCache, TunnelFlips
  <1>6. CASE UNCHANGED vars
    BY <1>3, <1>6 DEF vars, cacheVars
  <1> QED BY ZenonT(30), SMTT(30), <1>1, <1>2, <1>4, <1>5, <1>6 DEF Next, SessionStep

LEMMA RoutesHold == Spec => [](CacheInv /\ OpenInv /\ AskInv /\ RouteInv)
  BY InitRoutes, RoutesStep, CacheInvHolds, OpenInvHolds, PTL DEF Spec

(* The opener keeps its types: in particular an open that is dialing has an *)
(* address left, and the rule whose addresses it waits for is one of the    *)
(* engine's.                                                                *)
THEOREM OpenerTypes == Spec => []TypeOK
  <1>1. CacheInv /\ OpenInv /\ AskInv /\ RouteInv => TypeOK
    <2> SUFFICES ASSUME CacheInv, OpenInv, AskInv, RouteInv PROVE TypeOK
      OBVIOUS
    <2>1. /\ CacheTypeOK /\ sawDown \in [Sessions -> BOOLEAN]
          /\ rules \in {NewRuleEngine(list) : list \in RuleLists}
      BY ONLY ZenonT(30), CacheInv, OpenInv, AskInv DEF CacheInv, OpenInv, AskInv
    <2>2. ASSUME NEW s \in Sessions
          PROVE  /\ sess[s].pc \in {"idle", "matching", "resolve", "dial"}
                 /\ sess[s].host \in Hosts \union {NoName}
                 /\ sess[s].rule \in 0 .. Len(rules)
                 /\ sess[s].route \in {"none", "direct", "tunnel"}
                 /\ sess[s].reason \in {"none", "private", "rule", "fallback", "local-private"}
                 /\ sess[s].pc = "dial" => sess[s].addrs # <<>>
      BY DEF RouteInv, RouteRight, Routes, Reasons
    <2> QED BY <2>1, <2>2 DEF TypeOK
  <1> QED BY <1>1, RoutesHold, PTL

(* candidates: nothing private is dialed through the tunnel and no DNS      *)
(* answer turns a tunnel destination into a direct one on this machine, for *)
(* any rules, answers, address classes and number of opens.                 *)
THEOREM RoutesFit == Spec => []AddressesFitRoute
  <1>1. RouteInv => AddressesFitRoute
    <2> SUFFICES ASSUME RouteInv, NEW s \in Sessions, sess[s].pc = "dial",
                        NEW i \in DOMAIN sess[s].addrs
                 PROVE  FitsRoute(sess[s].addrs[i], sess[s].route, sess[s].reason)
      BY SMTT(30), SMTT(60) DEF AddressesFitRoute, FitsRoute
    <2>1. sess[s].addrs[i] \in Elements(sess[s].addrs)
      BY DEF Elements
    <2> QED BY ZenonT(30), <2>1 DEF RouteInv, RouteRight
  <1> QED BY <1>1, RoutesHold, PTL

(* NewRuleEngine and decide: an open whose host a name rule matches asks    *)
(* the local resolver only, and a listed name never reaches the tunnel      *)
(* resolver unless a client also writes it with more dots than Decide       *)
(* trims, for any configuration, in any order and any spelling, with any    *)
(* number of opens that share the cache and its lookups.                    *)
THEOREM NamesStayLocal == Spec => []DirectNamesStayLocal
  <1>1. CacheInv /\ AskInv => DirectNamesStayLocal
    <2> SUFFICES ASSUME CacheInv, AskInv PROVE DirectNamesStayLocal
      OBVIOUS
    <2>1. ASSUME NEW s \in Sessions, Resolving(s), Listed(normalizeHost(sess[s].host))
          PROVE  call[s].policy = "local"
      BY ZenonT(30), <2>1 DEF AskInv, AskRight
    <2>2. ASSUME NEW h \in Hosts, Protected(h)
          PROVE  /\ flight[h].st # "none" => flight[h].policy = "local"
                 /\ h \in DOMAIN cache => cache[h].via = "local"
      <3>1. h \in Keys
        BY DEF Keys, KeySpace
      <3>2. flight[h].policy \in {"tunnel", "local"}
        BY <3>1 DEF CacheInv, CacheTypeOK, Flights, Policies
      <3> QED BY ZenonT(30), <2>2, <3>1, <3>2 DEF AskInv, MayAsk
    <2> QED BY ZenonT(30), <2>1, <2>2 DEF DirectNamesStayLocal, Protected
  <1> QED BY <1>1, RoutesHold, PTL
==============================================================================
