----------------------------- MODULE DNSUpstreams -----------------------------
(***************************************************************************)
(* The tunnel resolvers of ssh-gate (dns.go): concurrent lookups that try  *)
(* the resolvers in order, the pause of a resolver that cannot be reached, *)
(* the one probe allowed after a pause, the share of the tunnel step each  *)
(* resolver gets, and the fall back to the local resolver.                 *)
(*                                                                         *)
(* A lookup is one run of the function singleflight shares (cachedLookup), *)
(* so lookups of different names interleave; a finished one may start      *)
(* again for another name.  Each lock of an upstream's mutex is one step.  *)
(* A call with a deadline returns by its deadline: the clock does not pass *)
(* the deadline of a call that is still out.                               *)
(***************************************************************************)
EXTENDS Integers, FiniteSets, Links

CONSTANTS
  Lookups,          \* lookups that can be in flight at once
  N,                \* len(c.tunnel)
  LookupTimeout,    \* the bound of the whole lookup (5 s)
  TunnelTimeout,    \* tunnelLookupTimeout (3 s)
  Pause,            \* upstreamPause (10 s)
  LocalOnNXDomain,  \* localOnNXDomain
  ClaimDelay,       \* bound: how long the claims of a lookup take, which do
                    \* no more than lock a mutex
  MaxTime           \* bound: clock ticks

ASSUME DNSAssumption ==
  /\ N \in Nat /\ MaxTime \in Nat \ {0}
  /\ LookupTimeout \in Nat /\ TunnelTimeout \in Nat /\ Pause \in Nat
  /\ LookupTimeout < Pause
  /\ ClaimDelay \in Nat /\ ClaimDelay + TunnelTimeout < LookupTimeout
  /\ LocalOnNXDomain \in BOOLEAN

VARIABLES
  now,          \* the clock; the process starts at 1, 0 is Go's zero time
  link,         \* the SSH tunnel, see Links
  pausedUntil,  \* upstream field, 0 when reachable
  probing,      \* upstream field
  pc,           \* where each lookup is
  at,           \* the time a lookup took before its claims
  due,          \* the deadline of its context
  claimed,      \* active, less what releaseProbes has released
  probes,       \* history: the resolvers it probes, from the claim until it
                \* has settled pausedUntil or is released
  cur,          \* the resolver it claims, asks or has asked last
  deadline,     \* the deadline of its tunnelCtx
  askedAt,      \* when it asked cur
  share         \* the time it gave cur

upstreamVars == <<pausedUntil, probing>>
clockVars == <<at, due, deadline, askedAt, share>>
vars == <<now, link, pausedUntil, probing, pc, at, due, claimed, probes, cur,
          deadline, askedAt, share>>

Upstreams == 1 .. N
Time == 0 .. MaxTime
Until == 0 .. MaxTime + Pause

tunnelUp == link # "down"

TypeOK ==
  /\ now \in Time
  /\ link \in Links
  /\ pausedUntil \in [Upstreams -> Until]
  /\ probing \in [Upstreams -> BOOLEAN]
  /\ pc \in [Lookups -> {"idle", "claim", "ask", "local", "release"}]
  /\ at \in [Lookups -> Time]
  /\ due \in [Lookups -> Until]
  /\ claimed \in [Lookups -> SUBSET Upstreams]
  /\ probes \in [Lookups -> SUBSET Upstreams]
  /\ cur \in [Lookups -> 0 .. N]
  /\ deadline \in [Lookups -> Int]
  /\ askedAt \in [Lookups -> Time]
  /\ share \in [Lookups -> Int]

Init ==
  /\ now = 1
  /\ link = "up"
  /\ pausedUntil = [u \in Upstreams |-> 0]
  /\ probing = [u \in Upstreams |-> FALSE]
  /\ pc = [l \in Lookups |-> "idle"]
  /\ at = [l \in Lookups |-> 0]
  /\ due = [l \in Lookups |-> 0]
  /\ claimed = [l \in Lookups |-> {}]
  /\ probes = [l \in Lookups |-> {}]
  /\ cur = [l \in Lookups |-> 0]
  /\ deadline = [l \in Lookups |-> 0]
  /\ askedAt = [l \in Lookups |-> 0]
  /\ share = [l \in Lookups |-> 0]

------------------------------------------------------------------------------
(* Claiming.                                                                *)

Start(l) ==
  /\ pc[l] = "idle"
  /\ pc' = [pc EXCEPT ![l] = "claim"]
  /\ at' = [at EXCEPT ![l] = now]
  /\ due' = [due EXCEPT ![l] = now + LookupTimeout]
  /\ cur' = [cur EXCEPT ![l] = 0]
  /\ UNCHANGED <<now, link, upstreamVars, claimed, probes, deadline, askedAt,
                 share>>

(* Mutant: a probe does not keep other lookups out. *)
claimAnyway(l, u) ==
  /\ pausedUntil[u] = 0 \/ at[l] >= pausedUntil[u]
  /\ probing' = [probing EXCEPT ![u] = @ \/ pausedUntil[u] # 0]
  /\ claimed' = [claimed EXCEPT ![l] = @ \union {u}]
  /\ probes' = [probes EXCEPT ![l] =
                  IF pausedUntil[u] = 0 THEN @ ELSE @ \union {u}]

(* u.claim(now) for lookup l, when it reports true: the resolver is         *)
(* reachable, or its pause is over and this is the only probe.              *)
claim(l, u) ==
  /\ pausedUntil[u] = 0 \/ (~probing[u] /\ at[l] >= pausedUntil[u])
  /\ probing' = [probing EXCEPT ![u] = @ \/ pausedUntil[u] # 0]
  /\ claimed' = [claimed EXCEPT ![l] = @ \union {u}]
  /\ probes' = [probes EXCEPT ![l] =
                  IF pausedUntil[u] = 0 THEN @ ELSE @ \union {u}]

Claims(l) ==
  /\ pc[l] = "claim"
  /\ cur[l] < N
  /\ cur' = [cur EXCEPT ![l] = @ + 1]
  /\ claim(l, cur[l] + 1)
  /\ UNCHANGED <<now, link, pausedUntil, pc, clockVars>>

Skips(l) ==
  /\ pc[l] = "claim"
  /\ cur[l] < N
  /\ cur' = [cur EXCEPT ![l] = @ + 1]
  /\ pausedUntil[cur[l] + 1] # 0
  /\ probing[cur[l] + 1] \/ at[l] < pausedUntil[cur[l] + 1]
  /\ UNCHANGED <<now, link, upstreamVars, pc, claimed, probes, clockVars>>

------------------------------------------------------------------------------
(* Asking.                                                                  *)

Later(l, u) == {v \in claimed[l] : v > u}
First(S) == CHOOSE v \in S : \A w \in S : v <= w

(* Mutant: the whole rest of the tunnel step goes to the next resolver. *)
AskWithRest(l, u, end) ==
  /\ cur' = [cur EXCEPT ![l] = First(Later(l, u))]
  /\ askedAt' = [askedAt EXCEPT ![l] = now]
  /\ share' = [share EXCEPT ![l] = end - now]

(* The next claimed resolver after u gets an equal share of what is left    *)
(* until end.                                                               *)
Ask(l, u, end) ==
  /\ cur' = [cur EXCEPT ![l] = First(Later(l, u))]
  /\ askedAt' = [askedAt EXCEPT ![l] = now]
  /\ share' = [share EXCEPT ![l] = (end - now) \div Cardinality(Later(l, u))]

(* The loop over active: ask the one after u, or fall back.                 *)
AskNext(l, u, end) ==
  \/ /\ Later(l, u) # {}
     /\ pc' = [pc EXCEPT ![l] = "ask"]
     /\ Ask(l, u, end)
  \/ /\ Later(l, u) = {}
     /\ pc' = [pc EXCEPT ![l] = "local"]
     /\ UNCHANGED <<cur, askedAt, share>>

(* Mutant: the tunnel step has no bound of its own. *)
BeginTunnelStepUnbounded(l) ==
  /\ pc[l] = "claim"
  /\ cur[l] = N
  /\ deadline' = [deadline EXCEPT ![l] = due[l]]
  /\ AskNext(l, 0, due[l])
  /\ UNCHANGED <<now, link, upstreamVars, claimed, probes, at, due>>

(* The claims are made: the tunnel step begins.  Its context ends with the  *)
(* lookup's own.                                                            *)
BeginTunnelStep(l) ==
  LET end == IF now + TunnelTimeout < due[l] THEN now + TunnelTimeout ELSE due[l]
  IN  /\ pc[l] = "claim"
      /\ cur[l] = N
      /\ deadline' = [deadline EXCEPT ![l] = end]
      /\ AskNext(l, 0, end)
      /\ UNCHANGED <<now, link, upstreamVars, claimed, probes, at, due>>

(* A resolver answers, with addresses or that there is no such name.  The   *)
(* tunnel may be down by the time the answer is recorded.                   *)
Answered(l, notFound) ==
  /\ pc[l] = "ask"
  /\ pausedUntil' = [pausedUntil EXCEPT ![cur[l]] = 0]
  /\ probes' = [probes EXCEPT ![l] = @ \ {cur[l]}]
  /\ pc' = [pc EXCEPT ![l] =
              IF notFound /\ LocalOnNXDomain THEN "local" ELSE "release"]
  /\ UNCHANGED <<now, link, probing, claimed, cur, clockVars>>

(* upstreamFailed: the server is blamed only while Connected().             *)
upstreamFailed(l, u, reachable) ==
  \/ ~tunnelUp /\ UNCHANGED <<pausedUntil, probes>>
  \/ /\ tunnelUp
     /\ pausedUntil' = [pausedUntil EXCEPT ![u] =
                          IF reachable THEN 0 ELSE now + Pause]
     /\ probes' = [probes EXCEPT ![l] = @ \ {u}]

(* The query fails: a channel was opened (reachable) or not.                *)
Failed(l, reachable) ==
  /\ pc[l] = "ask"
  /\ upstreamFailed(l, cur[l], reachable)
  /\ AskNext(l, cur[l], deadline[l])
  /\ UNCHANGED <<now, link, probing, claimed, at, due, deadline>>

(* The local resolver returns, with an answer or an error.                  *)
LocalReturns(l) ==
  /\ pc[l] = "local"
  /\ pc' = [pc EXCEPT ![l] = "release"]
  /\ UNCHANGED <<now, link, upstreamVars, claimed, probes, cur, clockVars>>

(* Mutant: only the resolver asked last is released. *)
releaseLast(l, u) ==
  /\ probing' = [probing EXCEPT ![u] = @ /\ u # cur[l]]
  /\ claimed' = [claimed EXCEPT ![l] = @ \ {u}]
  /\ probes' = [probes EXCEPT ![l] = @ \ {u}]

(* releaseProbes, deferred: also of what was claimed and never asked.       *)
releaseProbe(l, u) ==
  /\ probing' = [probing EXCEPT ![u] = FALSE]
  /\ claimed' = [claimed EXCEPT ![l] = @ \ {u}]
  /\ probes' = [probes EXCEPT ![l] = @ \ {u}]

Releases(l) ==
  /\ pc[l] = "release"
  /\ claimed[l] # {}
  /\ releaseProbe(l, First(claimed[l]))
  /\ UNCHANGED <<now, link, pausedUntil, pc, cur, clockVars>>

Returns(l) ==
  /\ pc[l] = "release"
  /\ claimed[l] = {}
  /\ pc' = [pc EXCEPT ![l] = "idle"]
  /\ at' = [at EXCEPT ![l] = 0]
  /\ due' = [due EXCEPT ![l] = 0]
  /\ cur' = [cur EXCEPT ![l] = 0]
  /\ deadline' = [deadline EXCEPT ![l] = 0]
  /\ askedAt' = [askedAt EXCEPT ![l] = 0]
  /\ share' = [share EXCEPT ![l] = 0]
  /\ UNCHANGED <<now, link, upstreamVars, claimed, probes>>

------------------------------------------------------------------------------
(* The tunnel takes any step that the dialer's promise allows.              *)
LinkChanges ==
  /\ link' \in Links
  /\ <<link, link'>> \in LinkSteps
  /\ UNCHANGED <<now, upstreamVars, pc, claimed, probes, cur, clockVars>>

Tick ==
  /\ now < MaxTime
  /\ \A l \in Lookups :
       /\ pc[l] # "idle" => now < due[l]
       /\ pc[l] = "claim" => now < at[l] + ClaimDelay
       /\ pc[l] = "ask" => now < askedAt[l] + share[l]
  /\ now' = now + 1
  /\ UNCHANGED <<link, upstreamVars, pc, claimed, probes, cur, clockVars>>

Lookup(l) ==
  \/ Start(l) \/ Claims(l) \/ Skips(l) \/ BeginTunnelStep(l)
  \/ \E notFound \in BOOLEAN : Answered(l, notFound)
  \/ \E reachable \in BOOLEAN : Failed(l, reachable)
  \/ LocalReturns(l) \/ Releases(l) \/ Returns(l)

Next ==
  \/ \E l \in Lookups : Lookup(l)
  \/ LinkChanges
  \/ Tick

Spec == Init /\ [][Next]_vars

------------------------------------------------------------------------------
(* A resolver whose pause is over is tried by one lookup: while its probe   *)
(* is out the flag is set and no other lookup holds the resolver.           *)
(* releaseProbes clears the flag for every resolver its lookup claimed,     *)
(* probe or not, so this rests on lookups ending before the pause does.     *)
OneProbe ==
  \A l \in Lookups : \A u \in probes[l] :
    /\ probing[u]
    /\ \A m \in Lookups : u \in claimed[m] => m = l

(* No probe leaves the flag set behind it, which would switch the resolver  *)
(* off for good: a lookup that will release the resolver is in flight.      *)
ProbingEnds ==
  \A u \in Upstreams : probing[u] =>
    \E l \in Lookups : pc[l] # "idle" /\ u \in claimed[l]

(* "An equal share of what is left, so a silent first server leaves the     *)
(* next one the same time" (dns.go lookup): no resolver is given less time  *)
(* than the one asked before it.                                            *)
EqualShare ==
  [][\A l \in Lookups :
       pc[l] = "ask" /\ pc'[l] = "ask" /\ cur'[l] # cur[l] => share'[l] >= share[l]]_vars

(* What the tunnel step leaves of the lookup.                               *)
Rest == LookupTimeout - TunnelTimeout - ClaimDelay

(* tunnelLookupTimeout bounds the tunnel step, "so a silent server leaves   *)
(* the local resolver the rest of the 5 s lookup bound" (dns.go): however   *)
(* many resolvers are silent and whenever the tunnel goes, a lookup that    *)
(* turns to the local resolver does so with Rest of its time left.          *)
LocalGetsTheRest ==
  [][\A l \in Lookups :
       pc[l] # "local" /\ pc'[l] = "local" => now + Rest <= due[l]]_vars

==============================================================================
