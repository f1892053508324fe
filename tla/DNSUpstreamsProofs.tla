-------------------------- MODULE DNSUpstreamsProofs --------------------------
(***************************************************************************)
(* Proofs about DNSUpstreams: for any number of lookups and resolvers, as  *)
(* long as a lookup is bounded by less than the pause, a paused resolver   *)
(* is tried by one lookup at a time and is never switched off for good;    *)
(* and no resolver is given less time than the one asked before it.        *)
(***************************************************************************)
EXTENDS DNSUpstreams, NatFacts, FiniteSetTheorems, TLAPS

(* First picks a member. *)
LEMMA FirstIn ==
  ASSUME NEW S \in SUBSET Upstreams, S # {}
  PROVE  First(S) \in S
<1>1. S \in SUBSET Nat
  BY DNSAssumption DEF Upstreams
<1>2. \E v \in S : \A w \in S : v <= w
  BY <1>1, LeastNat
<1> QED BY <1>2 DEF First

(* The number of resolvers still to be asked is a positive number. *)
LEMMA LaterCount ==
  ASSUME TypeOK, NEW l \in Lookups, NEW u, Later(l, u) # {}
  PROVE  /\ Cardinality(Later(l, u)) \in Nat \ {0}
         /\ First(Later(l, u)) \in claimed[l]
<1>1. Later(l, u) \subseteq claimed[l] /\ claimed[l] \in SUBSET Upstreams
  BY DEF Later, TypeOK
<1>2. IsFiniteSet(Upstreams)
  BY FS_Interval, DNSAssumption, 1 \in Int, N \in Int DEF Upstreams
<1>3. IsFiniteSet(Later(l, u))
  BY <1>1, <1>2, FS_Subset
<1>4. Cardinality(Later(l, u)) \in Nat /\ Cardinality(Later(l, u)) # 0
  BY <1>3, FS_CardinalityType, FS_EmptySet
<1> QED BY <1>1, <1>4, FirstIn

------------------------------------------------------------------------------
(* The inductive invariant.  Where a lookup is and what it holds.            *)
LookupPlace ==
  \A l \in Lookups :
    /\ probes[l] \subseteq claimed[l]
    /\ pc[l] = "idle" => claimed[l] = {}
    /\ pc[l] = "claim" => \A u \in claimed[l] : u <= cur[l]
    /\ pc[l] = "ask" => cur[l] \in claimed[l]

(* A lookup in flight is within its bound, and so is the resolver it asks.   *)
LookupTimes ==
  \A l \in Lookups :
    /\ pc[l] # "idle" => /\ at[l] <= now /\ now <= due[l]
                         /\ due[l] = at[l] + LookupTimeout
    /\ pc[l] = "ask" => /\ share[l] \in Nat /\ askedAt[l] <= now
                        /\ now <= askedAt[l] + share[l]

(* Why OneProbe is inductive: a lookup that holds a resolver without probing *)
(* it claimed it before the pause began, so it is over before the pause is.  *)
(* A probe, on the other hand, began after the pause.                        *)
PauseOutlives ==
  \A l \in Lookups : \A u \in claimed[l] :
    /\ u \in probes[l] => pausedUntil[u] # 0 /\ pausedUntil[u] <= at[l]
    /\ u \notin probes[l] => pausedUntil[u] = 0 \/ due[l] < pausedUntil[u]

(* The claims are made in time, and no resolver is asked past the end of the *)
(* tunnel step, which leaves Rest of the lookup.                             *)
StepEnds ==
  \A l \in Lookups :
    /\ pc[l] = "claim" => now <= at[l] + ClaimDelay
    /\ pc[l] = "ask" => /\ askedAt[l] + share[l] <= deadline[l]
                        /\ deadline[l] + Rest <= due[l]

IInv ==
  /\ TypeOK
  /\ LookupPlace
  /\ LookupTimes
  /\ PauseOutlives
  /\ OneProbe
  /\ ProbingEnds
  /\ StepEnds

(* The process starts in the invariant. *)
LEMMA InitIInv == Init => IInv
<1> SUFFICES ASSUME Init PROVE IInv
  OBVIOUS
<1> USE DNSAssumption DEF Init, Time, Until, Links
<1>1. TypeOK
  <2>1. now \in Time /\ link \in Links /\ 0 \in Time /\ 0 \in Until /\ 0 \in 0 .. N
    OBVIOUS
  <2>2. pausedUntil \in [Upstreams -> Until] /\ probing \in [Upstreams -> BOOLEAN]
    BY <2>1
  <2>3. /\ at \in [Lookups -> Time] /\ due \in [Lookups -> Until]
        /\ deadline \in [Lookups -> Int] /\ askedAt \in [Lookups -> Time]
        /\ share \in [Lookups -> Int] /\ cur \in [Lookups -> 0 .. N]
    BY <2>1
  <2>4. /\ claimed \in [Lookups -> SUBSET Upstreams]
        /\ probes \in [Lookups -> SUBSET Upstreams]
        /\ pc \in [Lookups -> {"idle", "claim", "ask", "local", "release"}]
    OBVIOUS
  <2> QED BY SMTT(30), SMTT(60), <2>1, <2>2, <2>3, <2>4 DEF TypeOK
<1>2. LookupPlace /\ LookupTimes /\ PauseOutlives
  BY DEF LookupPlace, LookupTimes, PauseOutlives
<1>3. OneProbe /\ ProbingEnds /\ StepEnds
  BY DEF OneProbe, ProbingEnds, StepEnds
<1> QED BY <1>1, <1>2, <1>3 DEF IInv

(* A lookup that starts, skips a resolver, or has its local answer.          *)
LEMMA QuietSteps ==
  ASSUME IInv, NEW l \in Lookups, Start(l) \/ Skips(l) \/ LocalReturns(l)
  PROVE  IInv'
<1> USE DNSAssumption DEF Time, Until, IInv
<1>1. UNCHANGED <<now, link, pausedUntil, probing, claimed, probes, deadline, askedAt, share>>
  BY DEF Start, Skips, LocalReturns, upstreamVars, clockVars
<1>2. TypeOK'
  <2>1. now + LookupTimeout \in Until
    BY DEF TypeOK
  <2>2. /\ pc' \in [Lookups -> {"idle", "claim", "ask", "local", "release"}]
        /\ at' \in [Lookups -> Time] /\ due' \in [Lookups -> Until]
    BY SMTT(30), SMTT(60), <2>1 DEF TypeOK, Start, Skips, LocalReturns, clockVars
  <2>3. cur' \in [Lookups -> 0 .. N]
    BY DEF TypeOK, Start, Skips, LocalReturns
  <2> QED BY <1>1, <2>2, <2>3 DEF TypeOK
<1>3. LookupPlace'
  <2>1. CASE Start(l)
    BY SMTT(30), SMTT(60), <1>1, <2>1 DEF TypeOK, LookupPlace, Start
  <2>2. CASE Skips(l)
    <3>1. \A u \in Upstreams : u <= cur[l] => u <= cur[l] + 1
      BY SMTT(30), SMTT(60) DEF TypeOK, Upstreams
    <3> QED BY <1>1, <2>2, <3>1 DEF TypeOK, LookupPlace, Skips
  <2>3. CASE LocalReturns(l)
    BY <1>1, <2>3 DEF TypeOK, LookupPlace, LocalReturns
  <2> QED BY <2>1, <2>2, <2>3
<1>4. LookupTimes'
  BY SMTT(30), SMTT(60), <1>1 DEF TypeOK, LookupTimes, Start, Skips, LocalReturns, clockVars
<1>5. PauseOutlives' /\ OneProbe'
  BY SMTT(30), SMTT(60), <1>1 DEF TypeOK, PauseOutlives, OneProbe, LookupPlace, Start, Skips, LocalReturns,
     clockVars
<1>6. ProbingEnds'
  BY SMTT(30), SMTT(60), <1>1 DEF TypeOK, ProbingEnds, Start, Skips, LocalReturns
<1>7. StepEnds'
  BY <1>1 DEF TypeOK, StepEnds, Start, Skips, LocalReturns, clockVars
<1> QED BY SMTT(30), SMTT(60), <1>2, <1>3, <1>4, <1>5, <1>6, <1>7

(* A lookup claims a resolver, as a probe or not.                            *)
LEMMA ClaimStep ==
  ASSUME IInv, NEW l \in Lookups, Claims(l)
  PROVE  IInv'
<1> USE DNSAssumption DEF Time, Until, IInv
<1> DEFINE u == cur[l] + 1
<1>0. TypeOK
  BY Zenon
<1>1. /\ UNCHANGED <<now, link, pausedUntil, pc, at, due, deadline, askedAt, share>>
      /\ pc[l] = "claim" /\ cur' = [cur EXCEPT ![l] = u]
      /\ pausedUntil[u] = 0 \/ (~probing[u] /\ at[l] >= pausedUntil[u])
      /\ probing' = [probing EXCEPT ![u] = @ \/ pausedUntil[u] # 0]
      /\ claimed' = [claimed EXCEPT ![l] = @ \union {u}]
      /\ probes' = [probes EXCEPT ![l] = IF pausedUntil[u] = 0 THEN @ ELSE @ \union {u}]
  BY DEF Claims, claim, clockVars
<1>2. u \in Upstreams /\ cur[l] \in Nat /\ u \in 0 .. N /\ u \in Nat /\ u = cur[l] + 1
  <2>1. cur[l] \in 0 .. N
    BY ONLY <1>0, l \in Lookups, Zenon DEF TypeOK
  <2> QED BY ONLY <2>1, DNSAssumption, Claims(l), SMTT(30), SMTT(60) DEF Claims, Upstreams
<1>3. \A v \in claimed[l] : v \in Upstreams /\ v <= cur[l] /\ v # u
  BY SMTT(30), SMTT(60), <1>1, <1>2 DEF LookupPlace, TypeOK, Upstreams
<1> HIDE DEF u
<1>4. TypeOK'
  <2>1. probing' \in [Upstreams -> BOOLEAN]
    BY SMTT(30), SMTT(60), <1>1, <1>2 DEF TypeOK
  <2>2. claimed' \in [Lookups -> SUBSET Upstreams] /\ probes' \in [Lookups -> SUBSET Upstreams]
    BY SMTT(30), SMTT(60), <1>1, <1>2 DEF TypeOK
  <2>3. cur' \in [Lookups -> 0 .. N]
    BY ZenonT(30), SMTT(30), <1>1, <1>2 DEF TypeOK
  <2> QED BY ZenonT(30), SMTT(30), <1>1, <2>1, <2>2, <2>3 DEF TypeOK
<1>5. LookupPlace'
  <2>1. \A v \in claimed'[l] : v <= u
    <3>1. claimed'[l] = claimed[l] \union {u}
      BY <1>1 DEF TypeOK
    <3>2. \A v \in claimed[l] : v \in Nat /\ v <= cur[l]
      BY <1>3 DEF Upstreams
    <3> QED BY SMTT(30), SMTT(60), <3>1, <3>2, <1>2
  <2> QED BY <1>1, <2>1 DEF LookupPlace, TypeOK
<1>6. LookupTimes' /\ StepEnds'
  BY SMTT(30), SMTT(60), <1>1 DEF LookupTimes, StepEnds
<1>7. PauseOutlives'
  BY <1>1, <1>2, <1>3 DEF PauseOutlives, TypeOK, LookupPlace
<1>8. ASSUME pausedUntil[u] # 0, NEW m \in Lookups, u \in claimed[m]
      PROVE  FALSE
  <2>1. pc[m] # "idle" /\ u \notin probes[m]
    BY <1>1, <1>8 DEF LookupPlace, OneProbe
  <2>2. due[m] < pausedUntil[u] /\ now <= due[m] /\ at[l] <= now /\ at[l] >= pausedUntil[u]
    BY <1>1, <1>8, <2>1 DEF PauseOutlives, LookupTimes
  <2>3. due[m] \in Int /\ now \in Int /\ at[l] \in Int /\ pausedUntil[u] \in Int
    BY <1>2 DEF TypeOK
  <2> QED BY <2>2, <2>3
<1>9. ASSUME pausedUntil[u] = 0, NEW m \in Lookups
      PROVE  u \notin probes[m]
  BY <1>9 DEF LookupPlace, PauseOutlives
<1>10. OneProbe'
  <2>1. CASE pausedUntil[u] = 0
    BY SMTT(30), SMTT(60), <2>1, <1>1, <1>2, <1>9 DEF OneProbe, TypeOK
  <2>2. CASE pausedUntil[u] # 0
    <3>1. \A m \in Lookups : u \notin claimed[m] /\ u \notin probes[m]
      BY ZenonT(30), SMTT(30), <2>2, <1>8 DEF LookupPlace
    <3>2. \A m \in Lookups : /\ u \in claimed'[m] => m = l
                             /\ \A v \in probes'[m] : v \in probes[m] \/ v = u
                             /\ \A v \in claimed'[m] : v \in claimed[m] \/ v = u
      BY <3>1, <1>1 DEF TypeOK
    <3>3. probing'[u] /\ \A v \in Upstreams \ {u} : probing'[v] = probing[v]
      BY <2>2, <1>1, <1>2, Zenon DEF TypeOK
    <3>4. \A m \in Lookups : probes[m] \subseteq Upstreams
      BY DEF TypeOK
    <3>5. ASSUME NEW k \in Lookups, NEW v \in probes'[k]
          PROVE  probing'[v] /\ \A m \in Lookups : v \in claimed'[m] => m = k
      <4>1. CASE v = u
        <5>1. k = l
          BY ZenonT(30), SMTT(30), <4>1, <3>1, <3>5, <1>1 DEF TypeOK
        <5> QED BY ZenonT(30), SMTT(30), <4>1, <5>1, <3>2, <3>3
      <4>2. CASE v # u
        <5>1. v \in probes[k] /\ v \in Upstreams
          BY <4>2, <3>2, <3>4, <3>5
        <5>2. probing[v] /\ \A m \in Lookups : v \in claimed[m] => m = k
          BY <5>1 DEF OneProbe
        <5>3. \A m \in Lookups : v \in claimed'[m] => v \in claimed[m]
          BY ZenonT(30), SMTT(30), <4>2, <3>2
        <5> QED BY ZenonT(30), SMTT(30), <4>2, <5>1, <5>2, <5>3, <3>3
      <4> QED BY <4>1, <4>2
    <3> QED BY <3>5 DEF OneProbe
  <2> QED BY SMTT(30), SMTT(60), <2>1, <2>2
<1>11. ProbingEnds'
  BY SMTT(30), SMTT(60), <1>1, <1>2 DEF ProbingEnds, TypeOK
<1> QED BY SMTT(30), SMTT(60), <1>4, <1>5, <1>6, <1>7, <1>10, <1>11

(* A lookup releases one resolver, or has none left and returns.             *)
LEMMA ReleaseSteps ==
  ASSUME IInv, NEW l \in Lookups, Releases(l) \/ Returns(l)
  PROVE  IInv'
<1> USE DNSAssumption DEF Time, Until, IInv
<1>1. CASE Releases(l)
  <2> DEFINE u == First(claimed[l])
  <2>1. u \in claimed[l] /\ u \in Upstreams
    BY <1>1, FirstIn DEF Releases, TypeOK
  <2>2. /\ UNCHANGED <<now, link, pausedUntil, pc, cur, at, due, deadline, askedAt, share>>
        /\ probing' = [probing EXCEPT ![u] = FALSE] /\ pc[l] = "release"
        /\ claimed' = [claimed EXCEPT ![l] = @ \ {u}]
        /\ probes' = [probes EXCEPT ![l] = @ \ {u}]
    BY <1>1 DEF Releases, releaseProbe, clockVars
  <2> HIDE DEF u
  <2>3. TypeOK'
    BY ZenonT(30), SMTT(30), <2>1, <2>2 DEF TypeOK
  <2>4. LookupPlace' /\ LookupTimes' /\ StepEnds'
    BY SMTT(30), SMTT(60), <2>2 DEF TypeOK, LookupPlace, LookupTimes, StepEnds
  <2>5. PauseOutlives'
    BY <2>1, <2>2 DEF TypeOK, PauseOutlives
  <2>6. \A m \in Lookups : u \in probes[m] => m = l
    BY SMTT(30), SMTT(60), <2>1 DEF OneProbe
  <2>7. OneProbe'
    BY SMTT(30), SMTT(60), <2>1, <2>2, <2>6 DEF TypeOK, OneProbe
  <2>8. ProbingEnds'
    BY <2>1, <2>2 DEF TypeOK, ProbingEnds
  <2> QED BY <2>3, <2>4, <2>5, <2>7, <2>8
<1>2. CASE Returns(l)
  <2>1. UNCHANGED <<now, link, pausedUntil, probing, claimed, probes>>
    BY <1>2 DEF Returns, upstreamVars
  <2>2. claimed[l] = {} /\ pc' = [pc EXCEPT ![l] = "idle"]
    BY ZenonT(30), SMTT(30), <1>2 DEF Returns
  <2>3. TypeOK'
    <3>1. 0 \in Time /\ 0 \in Until /\ 0 \in 0 .. N /\ 0 \in Int
      OBVIOUS
    <3>2. /\ at' \in [Lookups -> Time] /\ due' \in [Lookups -> Until]
          /\ cur' \in [Lookups -> 0 .. N] /\ deadline' \in [Lookups -> Int]
          /\ askedAt' \in [Lookups -> Time] /\ share' \in [Lookups -> Int]
      BY <3>1, <1>2 DEF Returns, TypeOK
    <3>3. pc' \in [Lookups -> {"idle", "claim", "ask", "local", "release"}]
      BY ZenonT(30), SMTT(30), <2>2 DEF TypeOK
    <3> QED BY <2>1, <3>2, <3>3 DEF TypeOK
  <2>4. LookupPlace'
    BY ZenonT(30), SMTT(30), <1>2, <2>1, <2>2 DEF TypeOK, LookupPlace, Returns
  <2>5. LookupTimes' /\ StepEnds'
    BY ZenonT(30), SMTT(30), <1>2, <2>1, <2>2 DEF TypeOK, LookupTimes, StepEnds, Returns
  <2>6. PauseOutlives' /\ OneProbe'
    BY <1>2, <2>1, <2>2 DEF TypeOK, PauseOutlives, OneProbe, Returns
  <2>7. ProbingEnds'
    BY <2>1, <2>2, ZenonT(30), SMTT(30) DEF TypeOK, ProbingEnds
  <2> QED BY ZenonT(30), SMTT(30), <2>3, <2>4, <2>5, <2>6, <2>7
<1> QED BY <1>1, <1>2

(* What AskNext does to the asking lookup: it asks a claimed resolver for no *)
(* longer than until end, or goes to the local resolver.                     *)
LEMMA AskNextEffect ==
  ASSUME TypeOK, NEW l \in Lookups, NEW u, NEW end \in Int, now <= end,
         AskNext(l, u, end)
  PROVE  /\ pc' \in [Lookups -> {"idle", "claim", "ask", "local", "release"}]
         /\ cur' \in [Lookups -> 0 .. N]
         /\ askedAt' \in [Lookups -> Time]
         /\ share' \in [Lookups -> Int]
         /\ pc'[l] \in {"ask", "local"}
         /\ pc'[l] = "ask" => /\ cur'[l] \in claimed[l]
                              /\ askedAt'[l] = now
                              /\ share'[l] \in Nat
                              /\ now + share'[l] <= end
         /\ \A m \in Lookups \ {l} : /\ pc'[m] = pc[m] /\ cur'[m] = cur[m]
                                      /\ askedAt'[m] = askedAt[m]
                                      /\ share'[m] = share[m]
<1> USE DNSAssumption
<1>1. CASE Later(l, u) = {}
  BY <1>1 DEF AskNext, TypeOK
<1>2. CASE Later(l, u) # {}
  <2> DEFINE k == Cardinality(Later(l, u))
             v == First(Later(l, u))
             q == (end - now) \div k
  <2>1. k \in Nat \ {0} /\ v \in claimed[l]
    BY <1>2, LaterCount
  <2>2. v \in 0 .. N
    BY <2>1 DEF TypeOK, Upstreams
  <2>3. end - now \in Nat
    BY DEF TypeOK, Time
  <2>4. /\ pc' = [pc EXCEPT ![l] = "ask"] /\ cur' = [cur EXCEPT ![l] = v]
        /\ askedAt' = [askedAt EXCEPT ![l] = now] /\ share' = [share EXCEPT ![l] = q]
    BY <1>2 DEF AskNext, Ask
  <2> HIDE DEF k, v
  <2>5. q \in Nat /\ q <= end - now
    BY <2>1, <2>3, ShareFits
  <2> HIDE DEF q
  <2>6. now + q <= end
    BY <2>5 DEF TypeOK, Time
  <2> QED BY SMTT(30), SMTT(60), <2>1, <2>2, <2>4, <2>5, <2>6 DEF TypeOK
<1> QED BY ZenonT(30), SMTT(30), <1>1, <1>2

(* The tunnel step begins.                                                   *)
LEMMA BeginStep ==
  ASSUME IInv, NEW l \in Lookups, BeginTunnelStep(l)
  PROVE  IInv'
<1> USE DNSAssumption DEF IInv
<1> DEFINE end == IF now + TunnelTimeout < due[l] THEN now + TunnelTimeout ELSE due[l]
<1>1. /\ UNCHANGED <<now, link, pausedUntil, probing, claimed, probes, at, due>>
      /\ pc[l] = "claim" /\ deadline' = [deadline EXCEPT ![l] = end]
      /\ AskNext(l, 0, end)
  BY SMTT(30), SMTT(60) DEF BeginTunnelStep, upstreamVars
<1>2. end \in Int /\ now <= end /\ end + Rest <= due[l]
  <2>1. now \in Time /\ at[l] \in Time /\ due[l] \in Until
    BY Zenon DEF TypeOK
  <2>2. now <= at[l] + ClaimDelay /\ due[l] = at[l] + LookupTimeout /\ at[l] <= now
    BY <1>1, Zenon DEF LookupTimes, StepEnds
  <2> QED BY ONLY <2>1, <2>2, DNSAssumption, SMTT(30), SMTT(60) DEF Time, Until, Rest
<1> HIDE DEF end
<1>3. /\ pc' \in [Lookups -> {"idle", "claim", "ask", "local", "release"}]
      /\ cur' \in [Lookups -> 0 .. N]
      /\ askedAt' \in [Lookups -> Time]
      /\ share' \in [Lookups -> Int]
      /\ pc'[l] \in {"ask", "local"}
      /\ pc'[l] = "ask" => /\ cur'[l] \in claimed[l]
                           /\ askedAt'[l] = now
                           /\ share'[l] \in Nat
                           /\ now + share'[l] <= end
      /\ \A m \in Lookups \ {l} : /\ pc'[m] = pc[m] /\ cur'[m] = cur[m]
                                   /\ askedAt'[m] = askedAt[m]
                                   /\ share'[m] = share[m]
  BY ZenonT(30), SMTT(30), <1>1, <1>2, AskNextEffect
<1>4. TypeOK'
  <2>1. deadline' \in [Lookups -> Int]
    BY ZenonT(30), SMTT(30), <1>1, <1>2 DEF TypeOK
  <2> QED BY <1>1, <1>3, <2>1 DEF TypeOK
<1>5. LookupPlace'
  BY <1>1, <1>3 DEF LookupPlace
<1>6. now \in Int /\ now <= now
  BY SMTT(30), SMTT(60) DEF TypeOK, Time
<1>7. LookupTimes'
  <2>1. LookupTimes
    BY Zenon
  <2>2. \A m \in Lookups : pc'[m] # "idle" => pc[m] # "idle"
    BY <1>1, <1>3, ZenonT(30), SMTT(30)
  <2> QED BY ONLY <2>1, <2>2, <1>1, <1>3, <1>6, SMTT(30), SMTT(60) DEF LookupTimes
<1>8. PauseOutlives' /\ OneProbe'
  BY <1>1 DEF PauseOutlives, OneProbe
<1>9. ProbingEnds'
  <2>1. \A m \in Lookups : pc[m] # "idle" => pc'[m] # "idle"
    BY <1>3, Zenon
  <2>2. probing' = probing /\ claimed' = claimed
    BY <1>1
  <2>3. ProbingEnds
    BY Zenon
  <2> QED BY <2>1, <2>2, <2>3, Zenon DEF ProbingEnds
<1>10. StepEnds'
  BY <1>1, <1>2, <1>3, ZenonT(30) DEF StepEnds, TypeOK
<1> QED BY <1>4, <1>5, <1>7, <1>8, <1>9, <1>10, ZenonT(30), SMTT(30)

(* The outcome of a query settles the pause of the resolver asked.           *)
LEMMA Settles ==
  ASSUME IInv, NEW l \in Lookups, pc[l] = "ask", NEW p \in {0, now + Pause},
         pausedUntil' = [pausedUntil EXCEPT ![cur[l]] = p],
         probes' = [probes EXCEPT ![l] = @ \ {cur[l]}],
         UNCHANGED <<claimed, probing, at, due>>
  PROVE  /\ pausedUntil' \in [Upstreams -> Until]
         /\ probes' \in [Lookups -> SUBSET Upstreams]
         /\ \A m \in Lookups : probes'[m] \subseteq probes[m]
         /\ PauseOutlives'
         /\ OneProbe'
<1> USE DNSAssumption DEF IInv
<1> DEFINE u == cur[l]
<1>0. TypeOK /\ OneProbe /\ LookupTimes
  BY Zenon
<1>1. u \in claimed[l] /\ u \in Upstreams
  BY DEF LookupPlace, TypeOK
<1>2. p \in Until /\ p \in Int
  BY DEF TypeOK, Time, Until
<1>3. /\ pausedUntil' = [pausedUntil EXCEPT ![u] = p]
      /\ probes' = [probes EXCEPT ![l] = @ \ {u}]
  OBVIOUS
<1> HIDE DEF u
<1>4. pausedUntil' \in [Upstreams -> Until] /\ probes' \in [Lookups -> SUBSET Upstreams]
  <2>1. pausedUntil \in [Upstreams -> Until] /\ probes \in [Lookups -> SUBSET Upstreams]
    BY DEF TypeOK
  <2>2. pausedUntil' \in [Upstreams -> Until]
    BY <2>1, <1>2, <1>3, Zenon
  <2>3. probes[l] \ {u} \in SUBSET Upstreams
    BY <2>1
  <2>4. probes' \in [Lookups -> SUBSET Upstreams]
    BY <2>1, <2>3, <1>3, Zenon
  <2> QED BY SMTT(30), SMTT(60), <2>2, <2>4
<1>5. \A m \in Lookups : probes'[m] \subseteq probes[m]
  BY SMTT(30), SMTT(60), <1>3 DEF TypeOK
<1>6. \A m \in Lookups : u \notin probes'[m]
  BY ONLY <1>0, <1>1, <1>3, l \in Lookups, SMTT(30), SMTT(60) DEF TypeOK, OneProbe
<1>7. OneProbe'
  BY SMTT(30), SMTT(60), <1>5 DEF OneProbe
<1>8. ASSUME NEW m \in Lookups, NEW v \in claimed[m]
      PROVE  /\ v \in probes'[m] => pausedUntil'[v] # 0 /\ pausedUntil'[v] <= at[m]
             /\ v \notin probes'[m] => pausedUntil'[v] = 0 \/ due[m] < pausedUntil'[v]
  <2>1. v \in Upstreams /\ pc[m] # "idle"
    BY SMTT(30), SMTT(60), <1>8 DEF TypeOK, LookupPlace
  <2>2. CASE v # u
    <3>1. pausedUntil'[v] = pausedUntil[v] /\ (v \in probes'[m] <=> v \in probes[m])
      BY ONLY <1>0, <2>1, <2>2, <1>3, m \in Lookups, l \in Lookups, ZenonT(30), SMTT(30) DEF TypeOK
    <3> QED BY <3>1, <1>8 DEF PauseOutlives
  <2>3. CASE v = u
    <3>1. pausedUntil'[v] = p /\ v \notin probes'[m]
      BY ZenonT(30), SMTT(30), <2>1, <2>3, <1>3, <1>6 DEF TypeOK
    <3>2. due[m] < now + Pause
      BY ONLY <1>0, <2>1, m \in Lookups, DNSAssumption, SMTT(30), SMTT(60)
      DEF LookupTimes, TypeOK, Time, Until
    <3> QED BY SMTT(30), SMTT(60), <3>1, <3>2
  <2> QED BY SMTT(30), SMTT(60), <2>2, <2>3
<1>9. PauseOutlives'
  BY <1>8 DEF PauseOutlives
<1> QED BY <1>4, <1>5, <1>7, <1>9

(* A resolver answers or fails.                                              *)
LEMMA OutcomeSteps ==
  ASSUME IInv, NEW l \in Lookups, NEW b \in BOOLEAN, Answered(l, b) \/ Failed(l, b)
  PROVE  IInv'
<1> USE DNSAssumption DEF IInv
<1>0. TypeOK
  BY Zenon
<1>1. pc[l] = "ask" /\ UNCHANGED <<now, link, claimed, probing, at, due, deadline>>
  BY ZenonT(30) DEF Answered, Failed, clockVars
<1>2. /\ pausedUntil' \in [Upstreams -> Until]
      /\ probes' \in [Lookups -> SUBSET Upstreams]
      /\ \A m \in Lookups : probes'[m] \subseteq probes[m]
      /\ PauseOutlives'
      /\ OneProbe'
  <2>1. CASE UNCHANGED <<pausedUntil, probes>>
    BY <2>1, <1>1, SMTT(60) DEF TypeOK, PauseOutlives, OneProbe
  <2>2. CASE \E p \in {0, now + Pause} :
               /\ pausedUntil' = [pausedUntil EXCEPT ![cur[l]] = p]
               /\ probes' = [probes EXCEPT ![l] = @ \ {cur[l]}]
    BY <2>2, <1>1, Settles, ZenonT(60), SMTT(30)
  <2> QED BY ZenonT(30), SMTT(30), <2>1, <2>2 DEF Answered, Failed, upstreamFailed
<1>3. /\ pc' \in [Lookups -> {"idle", "claim", "ask", "local", "release"}]
      /\ cur' \in [Lookups -> 0 .. N]
      /\ askedAt' \in [Lookups -> Time]
      /\ share' \in [Lookups -> Int]
      /\ pc'[l] \in {"ask", "local", "release"}
      /\ pc'[l] = "ask" => /\ cur'[l] \in claimed[l]
                           /\ askedAt'[l] = now
                           /\ share'[l] \in Nat
                           /\ now + share'[l] <= deadline[l]
      /\ \A m \in Lookups \ {l} : /\ pc'[m] = pc[m] /\ cur'[m] = cur[m]
                                   /\ askedAt'[m] = askedAt[m]
                                   /\ share'[m] = share[m]
  <2>1. CASE Answered(l, b)
    BY <2>1, ZenonT(30) DEF Answered, TypeOK, clockVars
  <2>2. CASE Failed(l, b)
    <3>1. deadline[l] \in Int /\ now <= deadline[l]
      BY <1>1 DEF TypeOK, Time, LookupTimes, StepEnds
    <3> QED BY ZenonT(30), <2>2, <3>1, AskNextEffect DEF Failed
  <2> QED BY <2>1, <2>2
<1>4. TypeOK'
  BY <1>1, <1>2, <1>3, ZenonT(30), SMTT(30) DEF TypeOK
<1>5. LookupPlace'
  BY SMTT(30), SMTT(60), <1>1, <1>2, <1>3 DEF LookupPlace
<1>6. now \in Int /\ now <= now
  <2>1. now \in Time
    BY ONLY <1>0, Zenon DEF TypeOK
  <2> QED BY ONLY <2>1, DNSAssumption DEF Time
<1>7. LookupTimes'
  <2> SUFFICES ASSUME NEW m \in Lookups
               PROVE  /\ pc'[m] # "idle" => /\ at[m] <= now /\ now <= due[m]
                                            /\ due[m] = at[m] + LookupTimeout
                      /\ pc'[m] = "ask" => /\ share'[m] \in Nat /\ askedAt'[m] <= now
                                           /\ now <= askedAt'[m] + share'[m]
    BY <1>1, ZenonT(30) DEF LookupTimes
  <2>1. CASE m = l
    <3>1. /\ at[m] <= now /\ now <= due[m]
          /\ due[m] = at[m] + LookupTimeout
      BY <2>1, <1>1 DEF LookupTimes
    <3>2. pc'[m] = "ask" => askedAt'[m] = now /\ share'[m] \in Nat
      BY <2>1, <1>3, ZenonT(30)
    <3> QED BY ONLY SMTT(30), SMTT(60), <3>1, <3>2, <1>6, <1>1
  <2>2. CASE m # l
    <3>1. /\ pc'[m] = pc[m] /\ askedAt'[m] = askedAt[m] /\ share'[m] = share[m]
      BY <2>2, <1>3, SMTT(60)
    <3> QED BY <3>1, ZenonT(30), SMTT(30) DEF LookupTimes
  <2> QED BY <2>1, <2>2, ZenonT(30)
<1>8. ProbingEnds'
  <2>1. \A m \in Lookups : pc[m] # "idle" => pc'[m] # "idle"
    BY <1>3, Zenon
  <2>2. probing' = probing /\ claimed' = claimed
    BY <1>1
  <2>3. ProbingEnds
    BY ZenonT(30)
  <2> QED BY <2>1, <2>2, <2>3, Zenon DEF ProbingEnds
<1>9. StepEnds'
  BY <1>1, <1>3, ZenonT(30) DEF StepEnds
<1> QED BY <1>2, <1>4, <1>5, <1>7, <1>8, <1>9, ZenonT(30)

(* The clock does not pass the deadline of a lookup in flight.               *)
LEMMA TickStep ==
  ASSUME IInv, Tick
  PROVE  IInv'
<1> USE DNSAssumption DEF IInv, Time
<1>0. TypeOK /\ LookupTimes
  BY Zenon
<1>1. /\ UNCHANGED <<link, pausedUntil, probing, pc, claimed, probes, cur, at, due,
                     deadline, askedAt, share>>
      /\ now' = now + 1 /\ now < MaxTime
  BY SMTT(30), SMTT(60) DEF Tick, upstreamVars, clockVars
<1>2. TypeOK'
  BY ONLY SMTT(30), SMTT(60), TypeOK, DNSAssumption, <1>1 DEF TypeOK, Time
<1>3. LookupTimes'
  <2>1. ASSUME NEW l \in Lookups, pc[l] # "idle"
        PROVE  at[l] <= now + 1 /\ now + 1 <= due[l]
    BY <2>1 DEF Tick, TypeOK, Until, LookupTimes
  <2>2. ASSUME NEW l \in Lookups, pc[l] = "ask"
        PROVE  askedAt[l] <= now + 1 /\ now + 1 <= askedAt[l] + share[l]
    <3>1. now \in Time /\ askedAt[l] \in Time /\ share[l] \in Int
      BY ONLY <1>0, l \in Lookups, Zenon DEF TypeOK
    <3>2. askedAt[l] <= now /\ now < askedAt[l] + share[l]
      BY ONLY <1>0, <2>2, l \in Lookups, Tick, ZenonT(30), SMTT(30) DEF Tick, LookupTimes
    <3> QED BY ONLY <3>1, <3>2, DNSAssumption, SMTT(30), SMTT(60) DEF Time
  <2> QED BY <1>1, <2>1, <2>2, ZenonT(30) DEF LookupTimes
<1>4. LookupPlace' /\ PauseOutlives' /\ OneProbe' /\ ProbingEnds'
  BY <1>1 DEF LookupPlace, PauseOutlives, OneProbe, ProbingEnds
<1>5. StepEnds'
  <2>1. ASSUME NEW l \in Lookups, pc[l] = "claim" PROVE now + 1 <= at[l] + ClaimDelay
    <3>1. now \in Time /\ at[l] \in Time
      BY ONLY <1>0, l \in Lookups, Zenon DEF TypeOK
    <3>2. now < at[l] + ClaimDelay
      BY ONLY <2>1, l \in Lookups, Tick, ZenonT(30) DEF Tick
    <3> QED BY ONLY <3>1, <3>2, DNSAssumption, SMTT(30), SMTT(60) DEF Time
  <2> QED BY <1>1, <2>1, ZenonT(30) DEF StepEnds
<1> QED BY <1>2, <1>3, <1>4, <1>5, SMTT(60)

(* Every reachable state is in the invariant.                                *)
THEOREM InductiveInvariant == Spec => []IInv
<1>1. IInv /\ [Next]_vars => IInv'
  <2> SUFFICES ASSUME IInv, [Next]_vars PROVE IInv'
    OBVIOUS
  <2>1. ASSUME NEW l \in Lookups, Lookup(l) PROVE IInv'
    BY <2>1, QuietSteps, ClaimStep, ReleaseSteps, BeginStep, OutcomeSteps, ZenonT(30), SMTT(30)
       DEF Lookup
  <2>2. CASE LinkChanges
    <3>1. link' \in Links
      BY <2>2 DEF LinkChanges, Links
    <3>2. UNCHANGED <<now, pausedUntil, probing, pc, claimed, probes, cur, at, due,
                      deadline, askedAt, share>>
      BY <2>2, ZenonT(30) DEF LinkChanges, upstreamVars, clockVars
    <3> QED BY <3>1, <3>2 DEF IInv, TypeOK, LookupPlace, LookupTimes, PauseOutlives,
               OneProbe, ProbingEnds, StepEnds
  <2>3. CASE UNCHANGED vars
    BY ZenonT(30), <2>3 DEF vars, IInv, TypeOK, LookupPlace, LookupTimes, PauseOutlives,
       OneProbe, ProbingEnds, StepEnds
  <2> QED BY <2>1, <2>2, <2>3, TickStep DEF Next
<1> QED BY InitIInv, <1>1, PTL DEF Spec

(* Type correctness of the resolvers and the lookups.                        *)
THEOREM TypeCorrect == Spec => []TypeOK
BY InductiveInvariant, PTL DEF IInv

(* claim and releaseProbes let one lookup at a time try a resolver whose     *)
(* pause is over, provided lookups are bounded by less than a pause.         *)
THEOREM ProbesAreSingle == Spec => []OneProbe
BY InductiveInvariant, PTL DEF IInv

(* releaseProbes leaves no probing flag behind.                              *)
THEOREM NoResolverLost == Spec => []ProbingEnds
BY InductiveInvariant, PTL DEF IInv

LEMMA LocalFrom ==
  ASSUME TypeOK, [Next]_vars, NEW l \in Lookups, pc[l] # "local", pc'[l] = "local"
  PROVE  pc[l] \in {"claim", "ask"}
<1>1. CASE UNCHANGED vars \/ LinkChanges \/ Tick
  BY <1>1 DEF vars, LinkChanges, Tick
<1>2. ASSUME NEW m \in Lookups, Lookup(m), m # l PROVE FALSE
  BY <1>2, ZenonT(30), SMTT(30) DEF TypeOK, Lookup, Start, Claims, Skips, BeginTunnelStep, AskNext, Answered,
     Failed, LocalReturns, Releases, Returns
<1>3. CASE Lookup(l)
  BY <1>3, SMTT(30), SMTT(60) DEF TypeOK, Lookup, Start, Claims, Skips, BeginTunnelStep, AskNext, Answered,
     Failed, LocalReturns, Releases, Returns
<1> QED BY <1>1, <1>2, <1>3 DEF Next

(* Only a lookup that has made its claims or asked turns to the local        *)
(* resolver, at the time the last query is over.                             *)
LEMMA LocalSteps ==
  ASSUME IInv, [Next]_vars, NEW l \in Lookups, pc[l] # "local", pc'[l] = "local"
  PROVE  now + Rest <= due[l]
<1>0. /\ now \in Nat /\ at[l] \in Nat /\ askedAt[l] \in Nat /\ due[l] \in Int
      /\ deadline[l] \in Int /\ share[l] \in Int
  BY DNSAssumption DEF IInv, TypeOK, Time, Until
<1>1. pc[l] \in {"claim", "ask"}
  BY LocalFrom DEF IInv
<1>2. CASE pc[l] = "claim"
  <2>1. now <= at[l] + ClaimDelay /\ due[l] = at[l] + LookupTimeout
    BY <1>2 DEF IInv, StepEnds, LookupTimes
  <2> QED BY ONLY <1>0, <2>1, DNSAssumption DEF Rest
<1>3. CASE pc[l] = "ask"
  <2>1. /\ now <= askedAt[l] + share[l] /\ askedAt[l] + share[l] <= deadline[l]
        /\ deadline[l] + Rest <= due[l]
    BY <1>3 DEF IInv, StepEnds, LookupTimes
  <2> QED BY ONLY <1>0, <2>1, DNSAssumption DEF Rest
<1> QED BY <1>1, <1>2, <1>3

(* tunnelLookupTimeout leaves the local resolver the rest of the lookup,     *)
(* whatever the servers and the tunnel do and however many there are.        *)
THEOREM TunnelStepBounded == Spec => LocalGetsTheRest
<1>1. IInv /\ [Next]_vars =>
        [\A l \in Lookups :
           pc[l] # "local" /\ pc'[l] = "local" => now + Rest <= due[l]]_vars
  BY LocalSteps
<1> QED BY <1>1, InductiveInvariant, PTL DEF Spec, LocalGetsTheRest

------------------------------------------------------------------------------
(* Why no resolver gets less than the one before it: what was left when a    *)
(* resolver was asked is enough for its share and for as much for each of    *)
(* those after it.                                                           *)
SharesFit ==
  \A l \in Lookups :
    pc[l] = "ask" =>
      share[l] * (Cardinality(Later(l, cur[l])) + 1) <= deadline[l] - askedAt[l]

(* The first of the later ones leaves one less. *)
LEMMA LaterShrinks ==
  ASSUME TypeOK, NEW l \in Lookups, NEW u \in 0 .. N, Later(l, u) # {}
  PROVE  Cardinality(Later(l, First(Later(l, u)))) + 1 = Cardinality(Later(l, u))
<1> DEFINE S == Later(l, u)
           v == First(S)
<1>1. S \subseteq claimed[l] /\ claimed[l] \in SUBSET Upstreams
  BY DEF Later, TypeOK
<1>2. S \in SUBSET Nat /\ S # {} /\ S \subseteq Upstreams
  BY <1>1, DNSAssumption DEF Upstreams
<1>3. v \in S /\ \A w \in S : v <= w
  <2>1. \E x \in S : \A w \in S : x <= w
    <3> HIDE DEF S
    <3> QED BY SMTT(30), SMTT(60), <1>2, LeastNat
  <2> HIDE DEF S
  <2> QED BY <2>1 DEF First
<1>4. Later(l, v) = S \ {v}
  <2>1. S = {w \in claimed[l] : w > u} /\ Later(l, v) = {w \in claimed[l] : w > v}
    BY DEF Later
  <2> HIDE DEF S, v
  <2>2. ASSUME NEW w \in claimed[l] PROVE w > v <=> w \in S \ {v}
    <3>1. w \in Nat /\ v \in Nat /\ u \in Nat /\ v > u
      BY SMTT(30), SMTT(60), <1>1, <1>2, <1>3, <2>1, DNSAssumption DEF Upstreams
    <3>2. CASE w \in S
      BY SMTT(30), SMTT(60), <1>3, <3>1, <3>2
    <3>3. CASE w \notin S
      <4>1. ~(w > u)
        BY <2>1, <3>3
      <4>2. CASE w > v
        <5>1. w > u
          BY SMTT(30), SMTT(60), <3>1, <4>2
        <5> QED BY SMTT(30), SMTT(60), <4>1, <5>1
      <4> QED BY SMTT(30), SMTT(60), <3>3, <4>2
    <3> QED BY SMTT(30), SMTT(60), <3>2, <3>3
  <2> QED BY <1>1, <2>1, <2>2
<1>5. IsFiniteSet(S)
  <2>1. IsFiniteSet(Upstreams)
    BY FS_Interval, DNSAssumption, 1 \in Int, N \in Int DEF Upstreams
  <2> QED BY SMTT(30), SMTT(60), <1>2, <2>1, FS_Subset
<1> HIDE DEF S, v
<1>6. Cardinality(S \ {v}) = Cardinality(S) - 1 /\ Cardinality(S) \in Nat
  BY ZenonT(30), SMTT(30), <1>3, <1>5, FS_RemoveElement, FS_CardinalityType
<1> QED BY SMTT(30), SMTT(60), <1>4, <1>6 DEF S, v

(* A resolver is asked with a share that fits, for as much to each after it. *)
LEMMA AskFits ==
  ASSUME TypeOK, NEW l \in Lookups, NEW u \in 0 .. N, NEW end \in Int, now <= end,
         AskNext(l, u, end), claimed' = claimed
  PROVE  \/ pc'[l] = "local"
         \/ /\ Later(l, u) # {} /\ askedAt'[l] = now
            /\ share'[l] = (end - now) \div Cardinality(Later(l, u))
            /\ share'[l] * (Cardinality(Later(l, cur[l])') + 1) <= end - now
<1>1. CASE Later(l, u) = {}
  BY ZenonT(30), <1>1 DEF AskNext, TypeOK
<1>2. CASE Later(l, u) # {}
  <2> DEFINE S == Later(l, u)
             k == Cardinality(S)
             q == (end - now) \div k
  <2>1. /\ cur'[l] = First(S) /\ askedAt'[l] = now /\ share'[l] = q
    BY ZenonT(30), <1>2 DEF AskNext, Ask, TypeOK
  <2>2. k \in Nat \ {0} /\ end - now \in Nat
    BY SMTT(30), SMTT(60), <1>2, LaterCount, DNSAssumption DEF TypeOK, Time
  <2>3. Later(l, cur[l])' = Later(l, First(S))
    BY SMTT(30), SMTT(60), <2>1 DEF Later
  <2>4. Cardinality(Later(l, First(S))) + 1 = k
    BY <1>2, LaterShrinks
  <2>5. q * k <= end - now
    <3> HIDE DEF k
    <3> QED BY ZenonT(30), SMTT(30), <2>2, ShareTotal
  <2> HIDE DEF S, k, q
  <2>6. share'[l] * (Cardinality(Later(l, cur[l])') + 1) <= end - now
    BY <2>1, <2>3, <2>4, <2>5
  <2> QED BY ZenonT(30), <1>2, <2>1, <2>6 DEF S, k, q
<1> QED BY ZenonT(30), SMTT(30), <1>1, <1>2

(* A lookup that asks was asking the same resolver before.                   *)
AsksOn(m) ==
  pc'[m] = "ask" =>
    /\ pc[m] = "ask" /\ cur'[m] = cur[m] /\ claimed'[m] = claimed[m]
    /\ share'[m] = share[m] /\ askedAt'[m] = askedAt[m] /\ deadline'[m] = deadline[m]

(* A lookup goes on asking unless its tunnel step begins or its query fails. *)
LEMMA AskingSteps ==
  ASSUME IInv, [Next]_vars, NEW m \in Lookups
  PROVE  \/ AsksOn(m) \/ BeginTunnelStep(m)
         \/ \E reachable \in BOOLEAN : Failed(m, reachable)
<1>0. TypeOK
  BY SMTT(30), SMTT(60) DEF IInv
<1>1. ASSUME NEW l \in Lookups, Start(l) \/ LocalReturns(l) \/ Returns(l)
      PROVE  AsksOn(m)
  BY ZenonT(30), SMTT(30), <1>0, <1>1 DEF TypeOK, AsksOn, Start, LocalReturns, Returns, clockVars
<1>2. ASSUME NEW l \in Lookups, Claims(l) \/ Skips(l)
      PROVE  AsksOn(m)
  BY ZenonT(30), SMTT(30), <1>0, <1>2 DEF TypeOK, AsksOn, Claims, claim, Skips, clockVars
<1>3. ASSUME NEW l \in Lookups, NEW b \in BOOLEAN, Answered(l, b)
      PROVE  AsksOn(m)
  <2>1. /\ pc'[l] # "ask" /\ \A k \in Lookups \ {l} : pc'[k] = pc[k]
        /\ UNCHANGED <<claimed, cur, deadline, askedAt, share>>
    BY ZenonT(30), <1>0, <1>3 DEF TypeOK, Answered, clockVars
  <2> QED BY <2>1 DEF AsksOn
<1>4. ASSUME NEW l \in Lookups, Releases(l)
      PROVE  AsksOn(m)
  BY ZenonT(30), SMTT(30), <1>0, <1>4 DEF TypeOK, AsksOn, Releases, releaseProbe, clockVars
<1>5. ASSUME NEW l \in Lookups \ {m}, NEW u, NEW end, AskNext(l, u, end), UNCHANGED claimed,
             deadline'[m] = deadline[m]
      PROVE  AsksOn(m)
  BY SMTT(30), SMTT(60), <1>0, <1>5 DEF TypeOK, AsksOn, AskNext, Ask
<1>6. ASSUME NEW l \in Lookups \ {m}, BeginTunnelStep(l)
      PROVE  AsksOn(m)
  <2> DEFINE end == IF now + TunnelTimeout < due[l] THEN now + TunnelTimeout ELSE due[l]
  <2>1. AskNext(l, 0, end) /\ deadline' = [deadline EXCEPT ![l] = end] /\ UNCHANGED claimed
    BY SMTT(30), SMTT(60), <1>6 DEF BeginTunnelStep
  <2> HIDE DEF end
  <2>2. deadline'[m] = deadline[m]
    BY SMTT(30), SMTT(60), <1>0, <2>1 DEF TypeOK
  <2> QED BY ZenonT(30), SMTT(30), <1>5, <2>1, <2>2
<1>7. ASSUME NEW l \in Lookups \ {m}, NEW b \in BOOLEAN, Failed(l, b)
      PROVE  AsksOn(m)
  <2>1. AskNext(l, cur[l], deadline[l]) /\ UNCHANGED <<claimed, deadline>>
    BY ZenonT(30), <1>7 DEF Failed
  <2> QED BY SMTT(30), SMTT(60), <1>5, <2>1
<1>8. CASE LinkChanges \/ Tick \/ UNCHANGED vars
  BY ZenonT(30), <1>8 DEF AsksOn, LinkChanges, Tick, clockVars, vars
<1> QED BY ZenonT(30), <1>1, <1>2, <1>3, <1>4, <1>6, <1>7, <1>8 DEF Next, Lookup

LEMMA SharesStep == IInv /\ SharesFit /\ [Next]_vars => SharesFit'
<1> SUFFICES ASSUME IInv, SharesFit, [Next]_vars, NEW m \in Lookups, pc'[m] = "ask"
             PROVE  share'[m] * (Cardinality(Later(m, cur[m])') + 1) <= deadline'[m] - askedAt'[m]
  BY ZenonT(30) DEF SharesFit
<1>0. TypeOK /\ LookupTimes /\ StepEnds
  BY ZenonT(30) DEF IInv
<1>1. CASE AsksOn(m)
  <2>1. Later(m, cur[m])' = Later(m, cur[m])
    BY ZenonT(30), <1>1 DEF AsksOn, Later
  <2> QED BY ZenonT(30), <1>1, <2>1 DEF AsksOn, SharesFit
<1>2. CASE BeginTunnelStep(m)
  <2> DEFINE end == IF now + TunnelTimeout < due[m] THEN now + TunnelTimeout ELSE due[m]
  <2>1. /\ AskNext(m, 0, end) /\ deadline' = [deadline EXCEPT ![m] = end]
        /\ UNCHANGED claimed /\ pc[m] = "claim"
    BY ZenonT(30), <1>2 DEF BeginTunnelStep
  <2>2. end \in Int /\ now <= end /\ 0 \in 0 .. N
    BY SMTT(30), SMTT(60), <1>0, <2>1, DNSAssumption DEF TypeOK, Time, Until, LookupTimes
  <2> HIDE DEF end
  <2>3. deadline'[m] = end
    BY ZenonT(30), <1>0, <2>1 DEF TypeOK
  <2> QED BY ZenonT(30), <1>0, <2>1, <2>2, <2>3, AskFits
<1>3. ASSUME NEW b \in BOOLEAN, Failed(m, b)
      PROVE  share'[m] * (Cardinality(Later(m, cur[m])') + 1) <= deadline'[m] - askedAt'[m]
  <2>1. AskNext(m, cur[m], deadline[m]) /\ UNCHANGED <<claimed, deadline>> /\ pc[m] = "ask"
    BY ZenonT(30), <1>3 DEF Failed
  <2>2. deadline[m] \in Int /\ now <= deadline[m] /\ cur[m] \in 0 .. N
    BY SMTT(30), SMTT(60), <1>0, <2>1, DNSAssumption DEF TypeOK, Time, LookupTimes, StepEnds
  <2> QED BY ZenonT(30), <1>0, <2>1, <2>2, AskFits
<1> QED BY SMTT(30), SMTT(60), <1>1, <1>2, <1>3, AskingSteps

(* lookup gives every resolver an equal share of what is left: one that is   *)
(* silent leaves the next as much, for any number of resolvers and lookups.  *)
THEOREM SharesAreEqual == Spec => EqualShare
<1>1. Init => SharesFit
  BY SMTT(30), SMTT(60) DEF Init, SharesFit
<1>2. IInv /\ SharesFit /\ [Next]_vars
        => [\A l \in Lookups :
              pc[l] = "ask" /\ pc'[l] = "ask" /\ cur'[l] # cur[l] => share'[l] >= share[l]]_vars
  <2> SUFFICES ASSUME IInv, SharesFit, [Next]_vars, NEW l \in Lookups,
                      pc[l] = "ask", pc'[l] = "ask", cur'[l] # cur[l]
               PROVE  share'[l] >= share[l]
    BY SMTT(30), SMTT(60)
  <2>0. TypeOK /\ LookupTimes /\ StepEnds
    BY DEF IInv
  <2>1. PICK b \in BOOLEAN : Failed(l, b)
    <3>1. ~AsksOn(l) /\ ~BeginTunnelStep(l)
      BY ONLY ZenonT(30), SMTT(30), pc[l] = "ask", pc'[l] = "ask", cur'[l] # cur[l] DEF AsksOn, BeginTunnelStep
    <3> QED BY ZenonT(30), SMTT(30), <3>1, AskingSteps
  <2>2. AskNext(l, cur[l], deadline[l]) /\ UNCHANGED <<claimed, deadline>>
    BY ZenonT(30), <2>1 DEF Failed
  <2>3. /\ deadline[l] \in Int /\ now \in Int /\ askedAt[l] \in Int /\ share[l] \in Nat
        /\ now <= deadline[l] /\ cur[l] \in 0 .. N /\ now <= askedAt[l] + share[l]
    BY ONLY SMTT(30), SMTT(60), l \in Lookups, pc[l] = "ask", <2>0, DNSAssumption DEF TypeOK, Time, LookupTimes, StepEnds
  <2> DEFINE k == Cardinality(Later(l, cur[l]))
  <2>4. Later(l, cur[l]) # {} /\ share'[l] = (deadline[l] - now) \div k
    BY SMTT(30), SMTT(60), <2>0, <2>2, <2>3, AskFits
  <2>5. k \in Nat \ {0}
    BY ZenonT(30), <2>0, <2>4, LaterCount
  <2>6. share[l] * (k + 1) <= deadline[l] - askedAt[l]
    BY SMTT(30), SMTT(60) DEF SharesFit
  <2> HIDE DEF k
  <2>7. share[l] * k <= deadline[l] - now
    BY SMTT(30), SMTT(60), <2>3, <2>5, <2>6, ShareLeft
  <2>8. deadline[l] - now \in Nat
    BY SMTT(30), SMTT(60), <2>3
  <2>9. share[l] <= (deadline[l] - now) \div k
    BY SMTT(30), SMTT(60), <2>3, <2>5, <2>7, <2>8, ShareMost
  <2> QED BY ZenonT(30), SMTT(30), <2>3, <2>4, <2>9
<1> QED BY <1>1, <1>2, SharesStep, InductiveInvariant, PTL DEF Spec, EqualShare
==============================================================================
