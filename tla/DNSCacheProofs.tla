---------------------------- MODULE DNSCacheProofs ----------------------------
(***************************************************************************)
(* Proofs about DNSCache, for any callers, hosts, answers, cache size and  *)
(* lifetimes.                                                              *)
(***************************************************************************)
EXTENDS DNSCache, FiniteSetTheorems, TLAPS

Sources(policy) ==
  IF policy = "local" THEN {"local"} ELSE {"tunnel", "localOnNXDomain", "fallback"}

(* A call that is under way has a host, and the key of it.                  *)
CallPlace ==
  \A c \in Callers :
    call[c].st # "none" =>
      call[c].host \in Hosts /\ call[c].key = Key(call[c].policy, call[c].host)

(* A lookup is of the policy of its key, and an answer that is being handed *)
(* over is as old as the clock and came from a resolver of that policy.     *)
FlightRight ==
  \A k \in Keys :
    /\ flight[k].st # "none" => k \in KeySpace(flight[k].policy)
    /\ flight[k].st = "ready" =>
         flight[k].res.at = now /\ flight[k].res.via \in Sources(flight[k].policy)

(* An entry expires its lifetime after its lookup answered.                 *)
EntriesTimed ==
  \A k \in DOMAIN cache :
    cache[k].expires = cache[k].at + (IF cache[k].neg THEN NegativeTTL ELSE TTL)

CacheInv ==
  /\ CacheTypeOK
  /\ CallPlace
  /\ FlightRight
  /\ EntriesTimed
  /\ PoliciesApart

------------------------------------------------------------------------------
(* The blank result and the results of lookups are results. *)
LEMMA NoResultType == NoResult \in Results /\ NoResult.at = 0
  <1>1. 0 \in Time /\ <<>> \in AddrLists
    BY CacheAssumption DEF Time, AddrLists
  <1> QED
    BY <1>1 DEF NoResult, Results, Vias

(* The key of a host is in the space of its policy. *)
LEMMA KeyInSpace ==
  ASSUME NEW policy \in Policies, NEW h \in Hosts
  PROVE  Key(policy, h) \in KeySpace(policy) /\ Key(policy, h) \in Keys
  BY DEF Policies, Key, KeySpace, Keys

(* A key in the spaces of both policies is a shared one. *)
LEMMA SharedIs ==
  ASSUME NEW p \in Policies, NEW q \in Policies, NEW k,
         k \in KeySpace(p), k \in KeySpace(q), k \notin Shared
  PROVE  p = q
  BY DEF Policies, Shared

(* A call under way has a key of its policy. *)
LEMMA CallKey ==
  ASSUME CacheTypeOK, CallPlace, NEW c \in Callers, call[c].st # "none"
  PROVE  /\ call[c].host \in Hosts /\ call[c].policy \in Policies
         /\ call[c].key \in KeySpace(call[c].policy) /\ call[c].key \in Keys
  <1>1. call[c].policy \in Policies
    BY DEF CacheTypeOK, Calls
  <1>2. call[c].host \in Hosts /\ call[c].key = Key(call[c].policy, call[c].host)
    BY DEF CallPlace
  <1> QED
    BY <1>1, <1>2, KeyInSpace

(* What Outcomes offers has its type, its time and its source. *)
LEMMA OutcomeType ==
  ASSUME CacheTypeOK, NEW k \in Keys, NEW r \in Outcomes(k)
  PROVE  /\ r \in Results
         /\ r.at = now
         /\ r.via \in Sources(flight[k].policy)
  <1>1. now \in Time /\ LocalOnNXDomain \in BOOLEAN /\ up \in BOOLEAN
    BY CacheAssumption DEF CacheTypeOK
  <1>2. fallbackDirect \in BOOLEAN
    BY <1>1 DEF fallbackDirect
  <1>3. ASSUME NEW a \in AddrLists, NEW d \in BOOLEAN, NEW w \in Vias
        PROVE  Found(a, d, w) \in Results /\ Found(a, d, w).at = now
               /\ Found(a, d, w).via = w
    BY <1>1 DEF Found, Results
  <1>4. ASSUME NEW w \in Vias, NEW nx \in BOOLEAN
        PROVE  Failed(w, nx) \in Results /\ Failed(w, nx).at = now
               /\ Failed(w, nx).via = w
    <2>1. <<>> \in AddrLists
      BY DEF AddrLists
    <2> QED
      BY <1>1, <2>1 DEF Failed, Results
  <1>5. \/ \E a \in TunnelAnswers \union LocalAnswers, d \in BOOLEAN, w \in Vias \cap Sources(flight[k].policy) :
             r = Found(a, d, w)
        \/ \E w \in Vias \cap Sources(flight[k].policy), nx \in BOOLEAN : r = Failed(w, nx)
    <2>1. CASE flight[k].policy = "tunnel"
      BY ZenonT(30), <2>1, <1>2 DEF Outcomes, lookup, Sources, Vias
    <2>2. CASE flight[k].policy = "local"
      BY ZenonT(30), <2>2 DEF Outcomes, lookupLocal, Sources, Vias
    <2>3. flight[k].policy \in Policies
      BY DEF CacheTypeOK, Flights
    <2> QED
      BY <2>1, <2>2, <2>3 DEF Policies
  <1>6. TunnelAnswers \union LocalAnswers \subseteq AddrLists
    BY DEF AddrLists
  <1> QED
    BY <1>3, <1>4, <1>5, <1>6

(* The empty cache satisfies the invariant. *)
LEMMA InitCacheInv == CacheInit => CacheInv
  <1> SUFFICES ASSUME CacheInit PROVE CacheInv
    OBVIOUS
  <1>1. NoFlight \in Flights /\ NoFlight.st = "none"
    BY NoResultType DEF NoFlight, Flights, Policies
  <1>2. NoCall \in Calls
        /\ NoCall.st = "none"
    BY NoResultType DEF NoCall, Calls, Policies
  <1>3. CacheTypeOK
    <2>1. now \in Time /\ DOMAIN cache = {}
      BY CacheAssumption DEF CacheInit, Time
    <2>2. flight \in [Keys -> Flights]
      BY <1>1 DEF CacheInit
    <2>3. call \in [Callers -> Calls]
      BY <1>2 DEF CacheInit
    <2> QED
      BY <2>1, <2>2, <2>3 DEF CacheInit, CacheTypeOK, Flights, Calls
  <1>4. DOMAIN cache = {}
    BY DEF CacheInit
  <1>5. CallPlace /\ FlightRight
    BY <1>1, <1>2 DEF CacheInit, CallPlace, FlightRight
  <1>6. EntriesTimed /\ PoliciesApart
    BY <1>2, <1>4 DEF CacheInit, EntriesTimed, PoliciesApart
  <1> QED
    BY <1>3, <1>5, <1>6 DEF CacheInv

(* The steps of one caller preserve the invariant: they change no entry and *)
(* no answer.                                                               *)
LEMMA CallSteps ==
  ASSUME CacheInv, NEW c \in Callers,
         \/ \E h \in Hosts, policy \in Policies : Asks(c, policy, h)
         \/ CallStep(c)
         \/ Frees(c)
  PROVE  CacheInv'
  <1>1. /\ CacheTypeOK /\ CallPlace /\ FlightRight /\ EntriesTimed
        /\ PoliciesApart
    BY DEF CacheInv
  <1>2. call \in [Callers -> Calls] /\ call[c] \in Calls
    BY <1>1 DEF CacheTypeOK, Calls
  (* Only the caller's own record changes, and what it becomes is right.    *)
  <1>3. ASSUME NEW r \in Calls, call' = [call EXCEPT ![c] = r],
               UNCHANGED <<now, up, cache>>,
               flight' \in [Keys -> Flights],
               \A k \in Keys : flight'[k] # flight[k] =>
                 flight'[k].st = "out" /\ k \in KeySpace(flight'[k].policy),
               r.st # "none" => r.host \in Hosts /\ r.key = Key(r.policy, r.host),
               r.st = "back" /\ r.key \notin Shared =>
                 /\ r.policy = "local" => r.res.via \in {"local", "literal"}
                 /\ r.policy = "tunnel" => r.res.via # "local"
        PROVE  CacheInv'
    <2>1. \A d \in Callers : call'[d] = IF d = c THEN r ELSE call[d]
      BY <1>2, <1>3
    <2>2. call' \in [Callers -> Calls]
      BY <1>2, <1>3
    <2>3. CacheTypeOK'
      BY <2>2, <1>1, <1>3 DEF CacheTypeOK, Flights, Calls
    <2>4. CallPlace'
      BY SMTT(30), SMTT(60), <2>1, <1>1, <1>3 DEF CallPlace
    <2>5. FlightRight' /\ EntriesTimed'
      BY SMTT(30), SMTT(60), <1>1, <1>3 DEF FlightRight, EntriesTimed
    <2>6. PoliciesApart'
      BY <2>1, <1>1, <1>3 DEF PoliciesApart
    <2> QED
      BY <2>3, <2>4, <2>5, <2>6 DEF CacheInv
  <1>4. flight \in [Keys -> Flights]
    BY <1>1 DEF CacheTypeOK, Flights
  <1>5. ASSUME NEW h \in Hosts, NEW policy \in Policies, Asks(c, policy, h)
        PROVE  CacheInv'
    <2> DEFINE g == normalizeHost(h)
               r == [st |-> "check", policy |-> policy, host |-> g,
                     key |-> Key(policy, g), res |-> NoResult]
    <2>1. g \in Hosts /\ Key(policy, g) \in Keys
      BY CacheAssumption, KeyInSpace DEF normalizeHost
    <2>2. r \in Calls
      BY <2>1, NoResultType DEF Calls
    <2>3. call' = [call EXCEPT ![c] = r] /\ UNCHANGED <<now, up, cache, flight>>
      BY <1>5 DEF Asks
    <2> QED
      BY ZenonT(30), <2>1, <2>2, <2>3, <1>3, <1>4
  <1>6. CASE LiteralBack(c)
    <2> DEFINE r == [call[c] EXCEPT !.st = "back",
                       !.res = [ok |-> TRUE, addrs |-> <<Literal[call[c].host]>>,
                                localDirect |-> FALSE, notFound |-> FALSE,
                                via |-> "literal", at |-> now]]
    <2>1. call[c].host \in Hosts /\ call[c].key = Key(call[c].policy, call[c].host)
      BY <1>1, <1>6 DEF LiteralBack, CallPlace
    <2>2. call[c].host \in Hosts
      BY <2>1
    <2>3. <<Literal[call[c].host]>> \in AddrLists
      BY <2>2 DEF AddrLists
    <2>4. r.res \in Results
      BY <2>3, <1>1, <1>2 DEF Results, Vias, CacheTypeOK
    <2>5. r \in Calls
      BY ZenonT(30), <2>4, <1>2 DEF Calls
    <2>6. call' = [call EXCEPT ![c] = r] /\ UNCHANGED <<now, up, cache, flight>>
      BY ZenonT(30), <1>2, <1>6 DEF LiteralBack, Back
    <2>7. /\ r.st = "back" /\ r.host = call[c].host /\ r.key = call[c].key
          /\ r.policy = call[c].policy /\ r.res.via = "literal"
      BY <1>2 DEF Calls
    <2> HIDE DEF r
    <2> QED
      BY ZenonT(30), <2>1, <2>5, <2>6, <2>7, <1>3, <1>4
  <1>7. CASE Hit(c)
    <2> DEFINE k == call[c].key
               e == cache[k]
               r == [call[c] EXCEPT !.st = "back",
                       !.res = [ok |-> ~e.neg, addrs |-> e.addrs,
                                localDirect |-> e.localDirect, notFound |-> e.neg,
                                via |-> e.via, at |-> e.at]]
    <2>1. k \in Keys /\ k \in DOMAIN cache
      BY SMTT(30), SMTT(60), <1>1, <1>7, CallKey DEF Hit, Cached
    <2>2. e \in Entries
      BY <2>1, <1>1 DEF CacheTypeOK
    <2>3. r.res \in Results
      BY <2>2, <1>2 DEF Results, Entries
    <2>4. r \in Calls
      BY ZenonT(30), <2>3, <1>2 DEF Calls
    <2>5. call' = [call EXCEPT ![c] = r] /\ UNCHANGED <<now, up, cache, flight>>
      BY ZenonT(30), <1>2, <1>7 DEF Hit, Back
    <2>6. /\ r.st = "back" /\ r.host = call[c].host /\ r.key = k
          /\ r.policy = call[c].policy /\ r.res.via = e.via
      BY <1>2 DEF Calls
    <2>7. call[c].host \in Hosts /\ k = Key(call[c].policy, call[c].host)
      BY <1>1, <1>7 DEF Hit, CallPlace
    <2>8. k \notin Shared =>
            /\ call[c].policy = "local" => e.via \in {"local", "literal"}
            /\ call[c].policy = "tunnel" => e.via # "local"
      <3>1. k \in KeySpace(call[c].policy)
        BY <1>1, <1>7, CallKey DEF Hit
      <3>2. k \notin Shared =>
              e.via \in IF k \in KeySpace("local") THEN {"local"} ELSE {"tunnel", "localOnNXDomain"}
        BY <2>1, <1>1 DEF PoliciesApart
      <3> QED
        BY <3>1, <3>2, SharedIs DEF Policies
    <2> HIDE DEF r, e
    <2> QED
      BY ZenonT(30), <2>4, <2>5, <2>6, <2>7, <2>8, <1>3, <1>4
  <1>8. CASE Miss(c)
    <2> DEFINE r == [call[c] EXCEPT !.st = "miss"]
    <2>1. /\ r \in Calls /\ r.st = "miss" /\ r.host = call[c].host
          /\ r.policy = call[c].policy /\ r.key = call[c].key
      BY <1>2 DEF Calls
    <2>2. call' = [call EXCEPT ![c] = r] /\ UNCHANGED <<now, up, cache, flight>>
      BY <1>2, <1>8 DEF Miss
    <2>3. call[c].host \in Hosts /\ call[c].key = Key(call[c].policy, call[c].host)
      BY <1>1, <1>8 DEF Miss, CallPlace
    <2> HIDE DEF r
    <2> QED
      BY ZenonT(30), <2>1, <2>2, <2>3, <1>3, <1>4
  <1>9. CASE Do(c)
    <2> DEFINE k == call[c].key
               r == [call[c] EXCEPT !.st = "wait"]
               f == [st |-> "out", policy |-> call[c].policy, res |-> NoResult]
    <2>1. /\ r \in Calls /\ r.st = "wait" /\ r.host = call[c].host
          /\ r.policy = call[c].policy /\ r.key = k
      BY <1>2 DEF Calls
    <2>2. call' = [call EXCEPT ![c] = r] /\ UNCHANGED <<now, up, cache>>
      BY SMTT(30), SMTT(60), <1>2, <1>9 DEF Do
    <2>3. /\ call[c].host \in Hosts /\ k = Key(call[c].policy, call[c].host)
          /\ k \in Keys /\ call[c].policy \in Policies /\ k \in KeySpace(call[c].policy)
      BY <1>1, <1>9, CallKey DEF Do, CallPlace
    <2>4. flight' = [flight EXCEPT ![k] = IF @.st = "none" THEN f ELSE @]
      BY SMTT(30), SMTT(60), <1>9 DEF Do
    <2>5. f \in Flights /\ f.st = "out" /\ f.policy = call[c].policy
      BY <2>3, NoResultType DEF Flights
    <2> HIDE DEF r, f
    <2>6. flight' \in [Keys -> Flights]
      BY SMTT(30), SMTT(60), <2>3, <2>4, <2>5, <1>4
    <2>7. \A j \in Keys : flight'[j] # flight[j] =>
            flight'[j].st = "out" /\ j \in KeySpace(flight'[j].policy)
      BY SMTT(30), SMTT(60), <2>3, <2>4, <2>5, <1>4
    <2> QED
      BY ZenonT(30), <2>1, <2>2, <2>3, <2>6, <2>7, <1>3
  <1>10. CASE Frees(c)
    <2>1. NoCall \in Calls /\ NoCall.st = "none"
      BY NoResultType DEF NoCall, Calls, Policies
    <2>2. call' = [call EXCEPT ![c] = NoCall] /\ UNCHANGED <<now, up, cache, flight>>
      BY <1>10 DEF Frees
    <2> QED
      BY ZenonT(30), <2>1, <2>2, <1>3, <1>4
  <1> QED
    BY <1>5, <1>6, <1>7, <1>8, <1>9, <1>10 DEF CallStep

(* A lookup that has its result is a lookup of the same policy. *)
LEMMA ReadyFlight ==
  ASSUME NEW g \in Flights, NEW r \in Results
  PROVE  LET f == [g EXCEPT !.st = "ready", !.res = r]
         IN  f \in Flights /\ f.st = "ready" /\ f.res = r /\ f.policy = g.policy
  <1> DEFINE f == [g EXCEPT !.st = "ready", !.res = r]
  <1>1. f \in Flights
    BY ZenonT(30) DEF Flights
  <1>2. f.st = "ready" /\ f.res = r /\ f.policy = g.policy
    BY SMTT(30), SMTT(60) DEF Flights
  <1> QED
    BY <1>1, <1>2

(* store keeps old entries as they are and adds the new one. *)
LEMMA StoreEffect ==
  ASSUME CacheTypeOK, NEW k \in Keys, NEW e, store(k, e)
  PROVE  /\ k \in DOMAIN cache' /\ cache'[k] = e
         /\ \A j \in DOMAIN cache' \ {k} : j \in DOMAIN cache /\ cache'[j] = cache[j]
  <1>1. PICK gone : cache' = [j \in (DOMAIN cache \ gone) \union {k} |->
                                IF j = k THEN e ELSE cache[j]]
    BY DEF store
  <1> QED
    BY <1>1

(* An answer, its hand-over, the purge, the tunnel and the clock preserve   *)
(* the invariant.                                                           *)
LEMMA CacheSteps ==
  ASSUME CacheInv,
         \/ \E k \in Keys : FlightStep(k)
         \/ purge \/ TunnelChanges \/ Tick
  PROVE  CacheInv'
  <1>1. /\ CacheTypeOK /\ CallPlace /\ FlightRight /\ EntriesTimed
        /\ PoliciesApart
    BY DEF CacheInv
  <1>2. /\ flight \in [Keys -> Flights]
        /\ call \in [Callers -> Calls]
        /\ now \in Time
    BY <1>1 DEF CacheTypeOK, Flights, Calls
  <1>3. ASSUME NEW k \in Keys, NEW r \in Outcomes(k), Answer(k, r)
        PROVE  CacheInv'
    <2>1. r \in Results /\ r.at = now /\ r.via \in Sources(flight[k].policy)
      BY <1>1, OutcomeType
    <2>2. /\ flight[k].st = "out"
          /\ flight' = [flight EXCEPT ![k].st = "ready", ![k].res = r]
          /\ UNCHANGED <<now, up, call>>
      BY <1>3 DEF Answer
    <2>3. /\ flight' \in [Keys -> Flights]
          /\ flight'[k].st = "ready" /\ flight'[k].res = r
          /\ flight'[k].policy = flight[k].policy
          /\ \A j \in Keys \ {k} : flight'[j] = flight[j]
      <3> DEFINE f == [flight[k] EXCEPT !.st = "ready", !.res = r]
      <3>1. /\ f \in Flights /\ f.st = "ready" /\ f.res = r
            /\ f.policy = flight[k].policy
        BY ONLY k \in Keys, <1>2, <2>1, ReadyFlight
      <3>2. flight' = [flight EXCEPT ![k] = f]
        BY <2>2, <1>2
      <3> HIDE DEF f
      <3> QED
        BY <3>1, <3>2, <1>2
    <2>4. storable(r) =>
            /\ entryOf(r) \in Entries
            /\ entryOf(r).expires = entryOf(r).at
                  + (IF entryOf(r).neg THEN NegativeTTL ELSE TTL)
            /\ entryOf(r).via # "fallback"
            /\ k \notin Shared =>
                 entryOf(r).via \in IF k \in KeySpace("local") THEN {"local"}
                                   ELSE {"tunnel", "localOnNXDomain"}
      <3>1. now + (IF r.notFound THEN NegativeTTL ELSE TTL) \in Until
        BY <1>2, CacheAssumption DEF Time, Until
      <3>2. entryOf(r) \in Entries
        BY ZenonT(30), SMTT(30), <2>1, <3>1 DEF entryOf, Entries, Results
      <3>3. flight[k].policy \in Policies /\ k \in KeySpace(flight[k].policy)
        BY <1>1, <1>2, <2>2 DEF FlightRight, Flights
      <3>4. k \notin Shared /\ k \in KeySpace("local") => flight[k].policy = "local"
        BY <3>3, SharedIs DEF Policies
      <3>5. k \notin KeySpace("local") => flight[k].policy = "tunnel"
        BY <3>3 DEF Policies
      <3>6. storable(r) => entryOf(r).via = r.via /\ r.via # "fallback"
        BY DEF entryOf, storable
      <3>7. storable(r) => entryOf(r).expires = entryOf(r).at
                             + (IF entryOf(r).neg THEN NegativeTTL ELSE TTL)
        BY <2>1 DEF entryOf
      <3> QED
        BY <2>1, <3>2, <3>4, <3>5, <3>6, <3>7 DEF Sources
    <2>5. \A j \in DOMAIN cache' :
            \/ j \in DOMAIN cache /\ cache'[j] = cache[j]
            \/ j = k /\ storable(r) /\ cache'[j] = entryOf(r)
      <3>1. CASE storable(r)
        <4>1. store(k, entryOf(r))
          BY <3>1, <1>3 DEF Answer
        <4> QED
          BY SMTT(30), SMTT(60), <4>1, <3>1, <1>1, StoreEffect
      <3>2. CASE ~storable(r)
        BY SMTT(30), SMTT(60), <3>2, <1>3 DEF Answer
      <3> QED
        BY SMTT(30), SMTT(60), <3>1, <3>2
    <2>6. CacheTypeOK'
      <3>1. DOMAIN cache' \subseteq Keys /\ \A j \in DOMAIN cache' : cache'[j] \in Entries
        BY SMTT(30), SMTT(60), <2>4, <2>5, <1>1 DEF CacheTypeOK
      <3> QED
        BY SMTT(30), SMTT(60), <3>1, <2>2, <2>3, <1>1 DEF CacheTypeOK, Flights
    <2>7. CallPlace'
      BY SMTT(30), SMTT(60), <2>2, <2>3, <1>1 DEF CallPlace
    <2>8. FlightRight'
      BY <2>1, <2>2, <2>3, <1>1 DEF FlightRight
    <2>9. EntriesTimed'
      BY ZenonT(30), SMTT(30), <2>4, <2>5, <1>1 DEF EntriesTimed
    <2>10. PoliciesApart'
      BY <2>2, <2>4, <2>5, <1>1 DEF PoliciesApart
    <2> QED
      BY <2>6, <2>7, <2>8, <2>9, <2>10 DEF CacheInv
  <1>4. ASSUME NEW k \in Keys, Delivers(k)
        PROVE  CacheInv'
    <2>1. /\ flight[k].st = "ready"
          /\ flight' = [flight EXCEPT ![k] = NoFlight]
          /\ UNCHANGED <<now, up, cache>>
      BY ZenonT(30), <1>4 DEF Delivers
    <2>2. flight[k].res \in Results /\ flight[k].res.via \in Sources(flight[k].policy)
          /\ k \in KeySpace(flight[k].policy) /\ flight[k].policy \in Policies
      BY <2>1, <1>1, <1>2 DEF FlightRight, Flights
    <2>3. \A c \in Callers :
            IF call[c].st = "wait" /\ call[c].key = k
            THEN /\ call'[c] \in Calls
                 /\ call'[c].st = "back" /\ call'[c].key = k
                 /\ call'[c].host = call[c].host /\ call'[c].policy = call[c].policy
                 /\ call'[c].res = flight[k].res
            ELSE call'[c] = call[c]
      <3> TAKE c \in Callers
      <3>1. call[c] \in Calls
        BY <1>2
      <3>2. call'[c] = IF call[c].st = "wait" /\ call[c].key = k
                       THEN [call[c] EXCEPT !.st = "back", !.res = flight[k].res]
                       ELSE call[c]
        BY ZenonT(30), <1>4 DEF Delivers
      <3> QED
        BY ZenonT(30), <2>2, <3>1, <3>2 DEF Calls
    <2>4. DOMAIN call' = Callers /\ call' = [c \in Callers |-> call'[c]]
      BY ZenonT(30), <1>4 DEF Delivers
    <2>5. call' \in [Callers -> Calls]
      BY <2>3, <2>4, <1>2
    <2>6. NoFlight \in Flights /\ NoFlight.st = "none"
      BY NoResultType DEF NoFlight, Flights, Policies
    <2>7. /\ flight' \in [Keys -> Flights]
          /\ flight'[k].st = "none"
          /\ \A j \in Keys \ {k} : flight'[j] = flight[j]
      BY SMTT(30), SMTT(60), <2>1, <2>6, <1>2
    <2>8. CacheTypeOK'
      BY SMTT(30), SMTT(60), <2>1, <2>5, <2>7, <1>1 DEF CacheTypeOK, Flights, Calls
    <2>9. CallPlace'
      BY ZenonT(30), SMTT(30), <2>3, <1>1 DEF CallPlace
    <2>10. ASSUME NEW c \in Callers, call[c].st = "wait", call[c].key = k, k \notin Shared
          PROVE  call[c].policy = flight[k].policy
      BY <2>2, <2>10, <1>1, CallKey, SharedIs
    <2>11. FlightRight' /\ EntriesTimed'
      BY ZenonT(30), SMTT(30), <2>1, <2>7, <1>1 DEF FlightRight, EntriesTimed
    <2>12. PoliciesApart'
      BY <2>1, <2>2, <2>3, <2>10, <1>1 DEF PoliciesApart, Sources
    <2> QED
      BY SMTT(30), SMTT(60), <2>8, <2>9, <2>11, <2>12 DEF CacheInv
  <1>5. CASE purge
    <2>1. /\ DOMAIN cache' \subseteq DOMAIN cache
          /\ \A j \in DOMAIN cache' : cache'[j] = cache[j]
          /\ UNCHANGED <<now, up, flight, call>>
      BY <1>5 DEF purge
    <2>2. CacheTypeOK'
      BY <2>1, <1>1 DEF CacheTypeOK
    <2>3. CallPlace' /\ FlightRight'
      BY <2>1, <1>1 DEF CallPlace, FlightRight
    <2>4. EntriesTimed' /\ PoliciesApart'
      BY ZenonT(30), SMTT(30), <2>1, <1>1 DEF EntriesTimed, PoliciesApart
    <2> QED
      BY <2>2, <2>3, <2>4 DEF CacheInv
  <1>6. CASE TunnelChanges
    <2>1. UNCHANGED <<now, cache, flight, call>> /\ up' \in BOOLEAN
      BY ZenonT(30), SMTT(30), <1>1, <1>6 DEF TunnelChanges, CacheTypeOK
    <2> QED
      BY ZenonT(30), SMTT(30), <2>1, <1>1 DEF CacheInv, CacheTypeOK, CallPlace,
                        FlightRight, EntriesTimed, PoliciesApart
  <1>7. CASE Tick
    <2>1. /\ UNCHANGED <<up, cache, flight, call>> /\ now' \in Time
          /\ \A k \in Keys : flight[k].st # "ready"
      BY SMTT(30), SMTT(60), <1>2, <1>7, CacheAssumption DEF Tick, Time
    <2>2. CacheTypeOK'
      BY <2>1, <1>1 DEF CacheTypeOK
    <2> QED
      BY SMTT(30), SMTT(60), <2>1, <2>2, <1>1 DEF CacheInv, CallPlace,
                        FlightRight, EntriesTimed, PoliciesApart
  <1> QED
    BY <1>3, <1>4, <1>5, <1>6, <1>7 DEF FlightStep

(* Every step of the cache preserves the invariant. *)
LEMMA CacheInvStep == CacheInv /\ [CacheNext]_cacheVars => CacheInv'
  <1>1. CASE CacheNext
    BY ZenonT(30), SMTT(30), <1>1, CallSteps, CacheSteps DEF CacheNext
  <1>2. CASE UNCHANGED cacheVars
    BY <1>2 DEF cacheVars, CacheInv, CacheTypeOK, CallPlace,
                FlightRight, EntriesTimed, PoliciesApart
  <1> QED
    BY <1>1, <1>2

(* Every reachable state of the cache satisfies the invariant. *)
THEOREM CacheInvariant == CacheSpec => []CacheInv
  BY CacheInvStep, InitCacheInv, PTL DEF CacheSpec

(* No degraded answer is kept, and under a key of one policy alone neither  *)
(* policy sees the other's answers.                                         *)
THEOREM PoliciesStayApart == CacheSpec => []PoliciesApart
  BY CacheInvariant, PTL DEF CacheInv

(* An answer is younger than its lifetime when a caller gets it, out of the *)
(* cache or from a shared lookup.                                           *)
THEOREM FreshAnswers == CacheSpec => AnswersAreFresh
  <1> DEFINE Young(c) == now - call'[c].res.at <
                           IF call'[c].res.notFound THEN NegativeTTL ELSE TTL
  <1>1. CacheInv /\ [CacheNext]_cacheVars =>
          [\A c \in Callers :
             call[c].st # "back" /\ call'[c].st = "back" => Young(c)]_cacheVars
    <2> SUFFICES ASSUME CacheInv, CacheNext, NEW c \in Callers,
                        call[c].st # "back", call'[c].st = "back"
                 PROVE  Young(c)
      BY SMTT(30), SMTT(60) DEF cacheVars
    <2>1. /\ CacheTypeOK /\ CallPlace /\ FlightRight /\ EntriesTimed
          /\ now \in Nat /\ TTL \in Nat \ {0} /\ NegativeTTL \in Nat \ {0}
          /\ call \in [Callers -> Calls]
      BY CacheAssumption DEF CacheInv, CacheTypeOK, Time, Calls
    <2>2. ASSUME call'[c].res.at = now
          PROVE  Young(c)
      BY SMTT(30), SMTT(60), <2>1, <2>2
    <2>3. ASSUME NEW d \in Callers,
                 \/ \E h \in Hosts, policy \in Policies : Asks(d, policy, h)
                 \/ Miss(d) \/ Do(d) \/ Frees(d)
          PROVE  FALSE
      <3>1. /\ \A h \in Hosts, policy \in Policies : ~Asks(d, policy, h)
            /\ ~Frees(d)
        BY SMTT(30), SMTT(60), <2>1 DEF Asks, Frees, NoCall
      <3>2. ~Miss(d) /\ ~Do(d)
        BY SMTT(30), SMTT(60), <2>1 DEF Miss, Do, Calls
      <3> QED
        BY <2>3, <3>1, <3>2
    <2>4. ASSUME NEW d \in Callers, LiteralBack(d)
          PROVE  call'[c].res.at = now
      <3>1. d = c
        BY SMTT(30), SMTT(60), <2>1, <2>4 DEF LiteralBack, Back
      <3> QED
        BY <2>1, <2>4, <3>1 DEF LiteralBack, Back
    <2>5. ASSUME NEW d \in Callers, Hit(d)
          PROVE  Young(c)
      <3> DEFINE e == cache[call[c].key]
      <3>1. d = c
        BY ZenonT(30), SMTT(30), <2>1, <2>5 DEF Hit, Back
      <3>2. call[c].key \in DOMAIN cache /\ now < e.expires
        BY SMTT(30), SMTT(60), <2>5, <3>1 DEF Hit, Cached
      <3>3. call'[c].res.at = e.at /\ call'[c].res.notFound = e.neg
        BY SMTT(30), SMTT(60), <2>1, <2>5, <3>1 DEF Hit, Back
      <3>4. e \in Entries
        BY SMTT(30), SMTT(60), <3>2, <2>1 DEF CacheTypeOK
      <3>5. e.expires = e.at + (IF e.neg THEN NegativeTTL ELSE TTL)
        BY SMTT(30), SMTT(60), <3>2, <2>1 DEF EntriesTimed
      <3>6. e.at \in Nat
        BY <3>4, CacheAssumption DEF Entries, Time
      <3> HIDE DEF e
      <3> QED
        BY SMTT(30), SMTT(60), <3>2, <3>3, <3>5, <3>6, <2>1
    <2>6. ASSUME NEW k \in Keys, Delivers(k)
          PROVE  call'[c].res.at = now
      <3>1. flight[k].res.at = now
        BY ZenonT(30), <2>1, <2>6 DEF Delivers, FlightRight
      <3>2. call[c].st = "wait" /\ call[c].key = k
        BY ZenonT(30), <2>6 DEF Delivers
      <3>3. call'[c] = [call[c] EXCEPT !.st = "back", !.res = flight[k].res]
        BY ZenonT(30), <2>6, <3>2 DEF Delivers
      <3>4. call[c] \in Calls
        BY SMTT(30), SMTT(60), <2>1
      <3> QED
        BY SMTT(30), SMTT(60), <3>1, <3>3, <3>4
    <2>7. ASSUME \/ \E k \in Keys : \E r \in Outcomes(k) : Answer(k, r)
                 \/ purge \/ TunnelChanges \/ Tick
          PROVE  FALSE
      BY <2>7 DEF Answer, purge, TunnelChanges, Tick
    <2> HIDE DEF Young
    <2> QED
      BY ZenonT(30), <2>2, <2>3, <2>4, <2>5, <2>6, <2>7 DEF CacheNext, CallStep, FlightStep
  <1> QED
    BY <1>1, CacheInvariant, PTL DEF CacheSpec, AnswersAreFresh

(* Without an entry under the empty name store deletes an oldest entry. *)
LEMMA VictimIsOldest ==
  ASSUME NoName \notin DOMAIN cache, NEW gone \in Victims
  PROVE  \E v \in DOMAIN cache :
           /\ gone = {v}
           /\ \A j \in DOMAIN cache : cache[v].expires <= cache[j].expires
  <1>1. DOMAIN cache \ {NoName} = DOMAIN cache
    OBVIOUS
  <1> QED
    BY SMTT(30), SMTT(60), <1>1 DEF Victims, Oldest

(* A live entry leaves the cache only to make room, and as an oldest one.   *)
THEOREM LiveKept == CacheSpec => LiveEntriesKept
  <1> DEFINE Right(k) == \/ now >= cache[k].expires
                         \/ /\ Cardinality(DOMAIN cache) >= MaxSize
                            /\ \A j \in DOMAIN cache : cache[k].expires <= cache[j].expires
  <1>1. CacheInv /\ [CacheNext]_cacheVars =>
          [NoName \notin DOMAIN cache =>
             \A k \in DOMAIN cache \ DOMAIN cache' : Right(k)]_cacheVars
    <2> SUFFICES ASSUME CacheInv, CacheNext, NoName \notin DOMAIN cache,
                        NEW k \in DOMAIN cache, k \notin DOMAIN cache'
                 PROVE  Right(k)
      BY DEF cacheVars
    <2>1. CacheTypeOK
      BY DEF CacheInv
    <2>2. CASE purge
      <3>1. now > cache[k].expires
        BY SMTT(30), SMTT(60), <2>2 DEF purge
      <3>2. now \in Nat /\ cache[k].expires \in Nat
        BY <2>1, CacheAssumption DEF CacheTypeOK, Entries, Until, Time
      <3> QED
        BY <3>1, <3>2
    <2>3. ASSUME NEW l \in Keys, NEW r \in Outcomes(l), Answer(l, r)
          PROVE  Right(k)
      <3>1. store(l, entryOf(r))
        BY <2>3 DEF Answer
      <3>2. PICK gone \in IF Cardinality(DOMAIN cache) >= MaxSize THEN Victims ELSE {{}} :
              cache' = [j \in (DOMAIN cache \ gone) \union {l} |->
                          IF j = l THEN entryOf(r) ELSE cache[j]]
        BY <3>1 DEF store
      <3>3. k \in gone
        BY <3>2
      <3>4. Cardinality(DOMAIN cache) >= MaxSize /\ gone \in Victims
        BY <3>2, <3>3
      <3> QED
        BY SMTT(30), SMTT(60), <3>3, <3>4, VictimIsOldest
    <2>4. ASSUME cache' = cache
          PROVE  FALSE
      BY ZenonT(30), SMTT(30), <2>4
    <2>5. ASSUME NEW c \in Callers,
                 \/ \E h \in Hosts, policy \in Policies : Asks(c, policy, h)
                 \/ CallStep(c) \/ Frees(c)
          PROVE  cache' = cache
      BY SMTT(30), SMTT(60), <2>5 DEF Asks, CallStep, LiteralBack, Hit, Miss, Do, Frees
    <2>6. ASSUME \/ \E l \in Keys : Delivers(l)
                 \/ TunnelChanges \/ Tick
          PROVE  cache' = cache
      BY ZenonT(30), <2>6 DEF Delivers, TunnelChanges, Tick
    <2> HIDE DEF Right
    <2> QED
      BY SMTT(30), SMTT(60), <2>2, <2>3, <2>4, <2>5, <2>6 DEF CacheNext, FlightStep
  <1> QED
    BY <1>1, CacheInvariant, PTL DEF CacheSpec, LiveEntriesKept

(* The cache is finite, as the hosts are. *)
LEMMA CacheFinite == CacheTypeOK => IsFiniteSet(DOMAIN cache)
  <1> DEFINE f == [h \in Hosts |-> LocalKey[h]]
  <1>0. f \in Surjection(Hosts, {LocalKey[h] : h \in Hosts})
    BY DEF Surjection
  <1>1. IsFiniteSet({LocalKey[h] : h \in Hosts})
    BY <1>0, FS_Surjection, CacheAssumption
  <1>2. Keys = Hosts \union {LocalKey[h] : h \in Hosts}
    BY DEF Keys, KeySpace
  <1>3. IsFiniteSet(Keys)
    BY <1>1, <1>2, FS_Union, CacheAssumption
  <1> QED
    BY <1>3, FS_Subset DEF CacheTypeOK

(* A full cache without an entry under the empty name does not grow. *)
LEMMA StoreBounded ==
  ASSUME CacheTypeOK, NoName \notin DOMAIN cache, Cardinality(DOMAIN cache) >= MaxSize,
         NEW k \in Keys, NEW e, store(k, e)
  PROVE  ~(Cardinality(DOMAIN cache') > Cardinality(DOMAIN cache))
  <1> DEFINE D == DOMAIN cache
  <1>1. IsFiniteSet(D) /\ Cardinality(D) \in Nat
    BY CacheFinite, FS_CardinalityType
  <1>2. PICK gone \in Victims :
          cache' = [j \in (D \ gone) \union {k} |-> IF j = k THEN e ELSE cache[j]]
    BY DEF store
  <1>3. DOMAIN cache' = (D \ gone) \union {k}
    BY <1>2
  <1>4. PICK v \in D : gone = {v}
    BY VictimIsOldest
  <1> HIDE DEF D
  <1>5. IsFiniteSet(D \ {v}) /\ Cardinality(D \ {v}) = Cardinality(D) - 1
    BY ZenonT(30), <1>1, FS_RemoveElement
  <1>6. Cardinality((D \ {v}) \union {k}) =
          IF k \in D \ {v} THEN Cardinality(D \ {v}) ELSE Cardinality(D \ {v}) + 1
    BY SMTT(30), SMTT(60), <1>5, FS_AddElement
  <1>7. ~(Cardinality((D \ {v}) \union {k}) > Cardinality(D))
    BY ONLY SMTT(30), SMTT(60), <1>1, <1>5, <1>6
  <1> QED
    BY ZenonT(30), <1>3, <1>4, <1>7 DEF D

(* The cache grows only while it has room, unless it holds an entry under   *)
(* the empty name.                                                          *)
THEOREM NeverOverfull == CacheSpec => CacheBounded
  <1> DEFINE n == Cardinality(DOMAIN cache)
             Grows == Cardinality(DOMAIN cache') > n
  <1>1. CacheInv /\ [CacheNext]_cacheVars =>
          [Grows => n < MaxSize \/ NoName \in DOMAIN cache]_cacheVars
    <2> SUFFICES ASSUME CacheInv, CacheNext, ~(n < MaxSize), NoName \notin DOMAIN cache
                 PROVE  ~Grows
      BY SMTT(30), SMTT(60) DEF cacheVars
    <2>1. CacheTypeOK /\ IsFiniteSet(DOMAIN cache) /\ n \in Nat /\ n >= MaxSize
      BY CacheFinite, FS_CardinalityType, CacheAssumption DEF CacheInv
    <2>2. ASSUME cache' = cache
          PROVE  ~Grows
      BY SMTT(30), SMTT(60), <2>1, <2>2
    <2>3. CASE purge
      <3>1. DOMAIN cache' \in SUBSET (DOMAIN cache)
        BY <2>3 DEF purge
      <3>2. Cardinality(DOMAIN cache') <= n /\ Cardinality(DOMAIN cache') \in Nat
        BY SMTT(30), SMTT(60), <3>1, <2>1, FS_Subset, FS_CardinalityType
      <3> QED
        BY SMTT(30), SMTT(60), <3>2, <2>1
    <2>4. ASSUME NEW l \in Keys, NEW r \in Outcomes(l), Answer(l, r)
          PROVE  ~Grows
      <3>1. store(l, entryOf(r)) \/ cache' = cache
        BY ZenonT(30), SMTT(30), <2>4 DEF Answer
      <3> QED
        BY <3>1, <2>1, <2>2, StoreBounded
    <2>5. ASSUME NEW c \in Callers,
                 \/ \E h \in Hosts, policy \in Policies : Asks(c, policy, h)
                 \/ CallStep(c) \/ Frees(c)
          PROVE  cache' = cache
      BY ZenonT(30), SMTT(30), <2>5 DEF Asks, CallStep, LiteralBack, Hit, Miss, Do, Frees
    <2>6. ASSUME \/ \E l \in Keys : Delivers(l)
                 \/ TunnelChanges \/ Tick
          PROVE  cache' = cache
      BY ZenonT(30), <2>6 DEF Delivers, TunnelChanges, Tick
    <2> HIDE DEF Grows
    <2> QED
      BY ZenonT(30), SMTT(30), <2>2, <2>3, <2>4, <2>5, <2>6 DEF CacheNext, FlightStep
  <1> QED
    BY <1>1, CacheInvariant, PTL DEF CacheSpec, CacheBounded
==============================================================================
