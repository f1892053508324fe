------------------------------- MODULE DNSCache -------------------------------
(***************************************************************************)
(* The DNS cache of ssh-gate (dns.go): one map for the answers of the      *)
(* tunnel resolvers and of the local resolver, one shared lookup per key   *)
(* (singleflight), expiry, eviction and the background purge.              *)
(*                                                                         *)
(* A caller is a goroutine inside resolveTunnel or localResolveAll.  What  *)
(* a lookup returns is any outcome lookup and lookupLocal can have; how    *)
(* the tunnel resolvers come to it is in DNSUpstreams.  Between the answer *)
(* of a lookup and its hand-over to the callers no time passes.            *)
(***************************************************************************)
EXTENDS Integers, Sequences, FiniteSets

CONSTANTS
  Callers,          \* goroutines that resolve names
  Hosts,            \* host names and IP literals, in any spelling
  NoName,           \* the empty host name
  Canonical,        \* what normalizeHost makes of each host; it trims one dot,
                    \* so doing it twice may go further than once
  LocalKey,         \* "local:" + host, which may be a host name as well
  Literal,          \* the address of each IP literal, NoAddr for a name
  NoAddr,
  TunnelAnswers,    \* address lists a tunnel resolver can return
  LocalAnswers,     \* address lists the local resolver can return
  MaxSize,          \* dnsCacheMaxSize
  TTL, NegativeTTL, \* c.ttl and c.negativeTTL, in clock ticks
  LocalOnNXDomain,  \* localOnNXDomain
  MaxTime           \* bound: clock ticks

ASSUME CacheAssumption ==
  /\ IsFiniteSet(Hosts)
  /\ Canonical \in [Hosts -> Hosts]
  /\ MaxSize \in Nat \ {0}
  /\ TTL \in Nat \ {0} /\ NegativeTTL \in Nat \ {0} /\ MaxTime \in Nat
  /\ LocalOnNXDomain \in BOOLEAN
  /\ <<>> \notin TunnelAnswers \union LocalAnswers   \* that is an error

VARIABLES
  now,      \* the clock
  up,       \* c.tunnelUp()
  cache,    \* c.cache, a function on the keys it holds
  flight,   \* c.sf: the shared lookup of each key
  call      \* where each caller is, and what it got

cacheVars == <<now, up, cache, flight, call>>

Policies == {"tunnel", "local"}

(* The keys of a policy: the host itself under the tunnel policy, and       *)
(* "local:" + host under the local one.                                     *)
KeySpace(policy) ==
  IF policy = "local" THEN {LocalKey[h] : h \in Hosts} ELSE Hosts

Keys == KeySpace("tunnel") \union KeySpace("local")

(* Nothing keeps a client from asking for a host that begins with "local:". *)
Shared == KeySpace("tunnel") \cap KeySpace("local")

Time == 0 .. MaxTime
Until == 0 .. MaxTime + TTL + NegativeTTL

(* lookupResult with its error: found, or not.  notFound is errNotFound.    *)
(* via, a history field, says who answered; at, when.                       *)
Vias == {"tunnel", "localOnNXDomain", "fallback", "local", "literal"}

AddrLists ==
  TunnelAnswers \union LocalAnswers \union {<<Literal[h]>> : h \in Hosts} \union {<<>>}

Results ==
  [ok : BOOLEAN, addrs : AddrLists, localDirect : BOOLEAN, notFound : BOOLEAN,
   via : Vias, at : Time]

Entries ==
  [neg : BOOLEAN, addrs : AddrLists, localDirect : BOOLEAN, expires : Until,
   via : Vias, at : Time]

NoResult ==
  [ok |-> FALSE, addrs |-> <<>>, localDirect |-> FALSE, notFound |-> FALSE,
   via |-> "literal", at |-> 0]

(* A call of cachedLookup: its key, its host, whose lookup it would run. *)
Calls ==
  [st : {"none", "check", "miss", "wait", "back"}, policy : Policies,
   host : Hosts \union {NoName}, key : Keys \union {NoName}, res : Results]

(* A shared lookup is the one of its first caller. *)
Flights == [st : {"none", "out", "ready"}, policy : Policies, res : Results]

NoCall ==
  [st |-> "none", policy |-> "tunnel", host |-> NoName, key |-> NoName,
   res |-> NoResult]

NoFlight == [st |-> "none", policy |-> "tunnel", res |-> NoResult]

CacheTypeOK ==
  /\ now \in Time
  /\ up \in BOOLEAN
  /\ DOMAIN cache \subseteq Keys
  /\ \A k \in DOMAIN cache : cache[k] \in Entries
  /\ flight \in [Keys -> Flights]
  /\ call \in [Callers -> Calls]

CacheInit ==
  /\ now = 0
  /\ up \in BOOLEAN
  /\ cache = [k \in {} |-> NoResult]
  /\ flight = [k \in Keys |-> NoFlight]
  /\ call = [c \in Callers |-> NoCall]

------------------------------------------------------------------------------
(* cachedLookup.                                                            *)

normalizeHost(h) == Canonical[h]

(* Mutant: the policies share one key space. *)
KeyUnprefixed(policy, h) == h

Key(policy, h) == IF policy = "local" THEN LocalKey[h] ELSE h

(* resolveTunnel and localResolveAll: the host normalized, the key space    *)
(* and the lookup of the policy.                                            *)
Asks(c, policy, h) ==
  LET host == normalizeHost(h)
  IN  /\ call[c].st \in {"none", "back"}
      /\ call' = [call EXCEPT ![c] =
           [st |-> "check", policy |-> policy, host |-> host,
            key |-> Key(policy, host), res |-> NoResult]]
      /\ UNCHANGED <<now, up, cache, flight>>

Back(c, r) == call' = [call EXCEPT ![c].st = "back", ![c].res = r]

(* An IP literal is its own answer. *)
LiteralBack(c) ==
  /\ call[c].st = "check"
  /\ Literal[call[c].host] # NoAddr
  /\ Back(c, [ok |-> TRUE, addrs |-> <<Literal[call[c].host]>>,
              localDirect |-> FALSE, notFound |-> FALSE, via |-> "literal",
              at |-> now])
  /\ UNCHANGED <<now, up, cache, flight>>

(* Mutant: whatever the cache holds is an answer. *)
CachedStale(k) == k \in DOMAIN cache

Cached(k) == k \in DOMAIN cache /\ now < cache[k].expires

Hit(c) ==
  LET k == call[c].key
  IN  /\ call[c].st = "check"
      /\ Literal[call[c].host] = NoAddr
      /\ Cached(k)
      /\ Back(c, [ok |-> ~cache[k].neg, addrs |-> cache[k].addrs,
                  localDirect |-> cache[k].localDirect,
                  notFound |-> cache[k].neg, via |-> cache[k].via,
                  at |-> cache[k].at])
      /\ UNCHANGED <<now, up, cache, flight>>

Miss(c) ==
  /\ call[c].st = "check"
  /\ Literal[call[c].host] = NoAddr
  /\ ~Cached(call[c].key)
  /\ call' = [call EXCEPT ![c].st = "miss"]
  /\ UNCHANGED <<now, up, cache, flight>>

(* c.sf.Do: the first caller of a key starts the lookup, the others wait    *)
(* for its result.  The lookup runs on a context of its own, so a caller    *)
(* that hangs up ends nothing.                                              *)
Do(c) ==
  LET k == call[c].key
  IN  /\ call[c].st = "miss"
      /\ call' = [call EXCEPT ![c].st = "wait"]
      /\ flight' = [flight EXCEPT ![k] =
           IF @.st = "none"
           THEN [st |-> "out", policy |-> call[c].policy, res |-> NoResult] ELSE @]
      /\ UNCHANGED <<now, up, cache>>

------------------------------------------------------------------------------
(* The lookup and the store.                                                *)

Found(a, direct, who) ==
  [ok |-> TRUE, addrs |-> a, localDirect |-> direct, notFound |-> FALSE,
   via |-> who, at |-> now]

Failed(who, nx) ==
  [ok |-> FALSE, addrs |-> <<>>, localDirect |-> FALSE, notFound |-> nx,
   via |-> who, at |-> now]

(* Mutant: the state of the tunnel is not asked. *)
fallbackDirectAlways == LocalOnNXDomain

(* lookup: a tunnel resolver answers; or it says not found, and that        *)
(* stands or the local resolver answers for it (localOnNXDomain); or none   *)
(* answers and the local resolver is the fall back, whose answer may go     *)
(* direct if the tunnel is down once it is there.                           *)
fallbackDirect == LocalOnNXDomain /\ ~up

lookup ==
  {Found(a, FALSE, "tunnel") : a \in TunnelAnswers}
  \union {Failed("tunnel", TRUE)}
  \union {Found(a, TRUE, "localOnNXDomain") : a \in {b \in LocalAnswers : LocalOnNXDomain}}
  \union {Found(a, fallbackDirect, "fallback") : a \in LocalAnswers}
  \union {Failed("fallback", FALSE)}

lookupLocal ==
  {Found(a, FALSE, "local") : a \in LocalAnswers} \union {Failed("local", FALSE)}

Outcomes(k) == IF flight[k].policy = "tunnel" THEN lookup ELSE lookupLocal

(* Which results cachedLookup stores: authoritative answers, and the        *)
(* authoritative not-found.                                                 *)
storable(r) == r.via # "fallback" /\ (r.ok \/ r.notFound)

entryOf(r) ==
  [neg |-> r.notFound, addrs |-> r.addrs, localDirect |-> r.localDirect,
   expires |-> now + (IF r.notFound THEN NegativeTTL ELSE TTL),
   via |-> r.via, at |-> r.at]

(* What store can delete from a full cache, in one of the orders in which   *)
(* Go walks a map.  It is the oldest entry, but the loop takes the key ""   *)
(* for "none so far": it forgets the entries it saw before the one under    *)
(* the empty name if all of them expire after that, and deletes nothing     *)
(* when that one is also the last.                                          *)
Oldest(S) == {k \in S : \A j \in S : cache[k].expires <= cache[j].expires}

Victims ==
  LET others == DOMAIN cache \ {NoName}
      before(k) == {j \in others : cache[j].expires < cache[k].expires}
      skipped(S) == \A j \in S : cache[NoName].expires < cache[j].expires
  IN  IF NoName \in DOMAIN cache
      THEN {{k} : k \in {j \in others : skipped(before(j))}}
           \union {S \in {{}} : skipped(others)}
      ELSE {{k} : k \in Oldest(others)}

(* Mutant: one entry too many. *)
storeOneMore(k, e) ==
  \E gone \in IF Cardinality(DOMAIN cache) > MaxSize THEN Victims ELSE {{}} :
    cache' = [j \in (DOMAIN cache \ gone) \union {k} |->
                IF j = k THEN e ELSE cache[j]]

(* Mutant: any entry may go. *)
storeAnyVictim(k, e) ==
  \E gone \in IF Cardinality(DOMAIN cache) >= MaxSize
              THEN {{j} : j \in DOMAIN cache} ELSE {{}} :
    cache' = [j \in (DOMAIN cache \ gone) \union {k} |->
                IF j = k THEN e ELSE cache[j]]

store(k, e) ==
  \E gone \in IF Cardinality(DOMAIN cache) >= MaxSize THEN Victims ELSE {{}} :
    cache' = [j \in (DOMAIN cache \ gone) \union {k} |->
                IF j = k THEN e ELSE cache[j]]

Answer(k, r) ==
  /\ flight[k].st = "out"
  /\ flight' = [flight EXCEPT ![k].st = "ready", ![k].res = r]
  /\ \/ storable(r) /\ store(k, entryOf(r))
     \/ ~storable(r) /\ UNCHANGED cache
  /\ UNCHANGED <<now, up, call>>

(* singleflight forgets the key and every caller that waits gets the result.*)
Delivers(k) ==
  /\ flight[k].st = "ready"
  /\ flight' = [flight EXCEPT ![k] = NoFlight]
  /\ call' = [c \in Callers |->
       IF call[c].st = "wait" /\ call[c].key = k
       THEN [call[c] EXCEPT !.st = "back", !.res = flight[k].res]
       ELSE call[c]]
  /\ UNCHANGED <<now, up, cache>>

(* The caller is through with its result. *)
Frees(c) ==
  /\ call[c].st = "back"
  /\ call' = [call EXCEPT ![c] = NoCall]
  /\ UNCHANGED <<now, up, cache, flight>>

purge ==
  /\ cache' = [k \in {j \in DOMAIN cache : ~(now > cache[j].expires)} |-> cache[k]]
  /\ UNCHANGED <<now, up, flight, call>>

TunnelChanges ==
  /\ up' = ~up
  /\ UNCHANGED <<now, cache, flight, call>>

Tick ==
  /\ now < MaxTime
  /\ \A k \in Keys : flight[k].st # "ready"
  /\ now' = now + 1
  /\ UNCHANGED <<up, cache, flight, call>>

(* The steps of a call that need no caller. *)
CallStep(c) == LiteralBack(c) \/ Hit(c) \/ Miss(c) \/ Do(c)

FlightStep(k) == Delivers(k) \/ \E r \in Outcomes(k) : Answer(k, r)

CacheNext ==
  \/ \E c \in Callers :
       \/ \E h \in Hosts, policy \in Policies : Asks(c, policy, h)
       \/ CallStep(c)
       \/ Frees(c)
  \/ \E k \in Keys : FlightStep(k)
  \/ purge
  \/ TunnelChanges
  \/ Tick

(* The cache by itself, with callers that ask for anything.  Whatever uses   *)
(* it has to keep to its protocol: a caller with a lookup out waits for it,    *)
(* also when its client is gone.                                             *)
CacheSpec == CacheInit /\ [][CacheNext]_cacheVars

------------------------------------------------------------------------------
(* The cache grows only while it has less than MaxSize entries, whichever   *)
(* lookups end at once, while the purge lags behind and expired entries     *)
(* fill it ("evicting the oldest entry when full", dns.go), except in a     *)
(* step that finds an entry under the empty name, see Victims.              *)
CacheBounded ==
  [][Cardinality(DOMAIN cache') > Cardinality(DOMAIN cache) =>
       Cardinality(DOMAIN cache) < MaxSize \/ NoName \in DOMAIN cache]_cacheVars

(* Neither policy shadows the other ("a separate key space so the two       *)
(* policies cannot shadow each other", dns.go), and no degraded answer is   *)
(* kept: what is cached or given to a caller under a key of the local space *)
(* came from the local resolver; what is cached under a key of the tunnel   *)
(* space came from a tunnel resolver, or from the local one for a name it   *)
(* does not know.  This holds of the keys in one space only: a host that    *)
(* itself begins with "local:" has the local key of another as its own.     *)
PoliciesApart ==
  /\ \A k \in DOMAIN cache :
       /\ cache[k].via # "fallback"
       /\ k \notin Shared =>
            cache[k].via \in IF k \in KeySpace("local") THEN {"local"}
                             ELSE {"tunnel", "localOnNXDomain"}
  /\ \A c \in Callers :
       call[c].st = "back" /\ call[c].key \notin Shared =>
         /\ call[c].policy = "local" => call[c].res.via \in {"local", "literal"}
         /\ call[c].policy = "tunnel" => call[c].res.via # "local"

(* No caller gets an answer older than its TTL when it gets it, whether out *)
(* of the cache or from a lookup it shares: a not-found is at most          *)
(* NegativeTTL old, addresses at most TTL.                                  *)
AnswersAreFresh ==
  [][\A c \in Callers :
       call[c].st # "back" /\ call'[c].st = "back" =>
         now - call'[c].res.at <
           IF call'[c].res.notFound THEN NegativeTTL ELSE TTL]_cacheVars

(* An entry that still counts leaves the cache only to make room in a full  *)
(* cache, and then no other entry would have expired before it: an expired  *)
(* entry is never kept at the cost of a valid one.  The exception is a step *)
(* that finds an entry under the empty name.                                *)
LiveEntriesKept ==
  [][NoName \notin DOMAIN cache =>
       \A k \in DOMAIN cache \ DOMAIN cache' :
         \/ now >= cache[k].expires
         \/ /\ Cardinality(DOMAIN cache) >= MaxSize
            /\ \A j \in DOMAIN cache : cache[k].expires <= cache[j].expires]_cacheVars

(* "store writes entry under key, evicting the oldest entry when full"      *)
(* (dns.go), with no exception: a new key in a full cache costs an oldest   *)
(* entry.                                                                   *)
EvictsOldest ==
  [][Cardinality(DOMAIN cache) >= MaxSize /\ DOMAIN cache' \ DOMAIN cache # {} =>
       \E k \in Oldest(DOMAIN cache) : k \notin DOMAIN cache']_cacheVars
==============================================================================
