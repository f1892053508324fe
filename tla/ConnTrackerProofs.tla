-------------------------- MODULE ConnTrackerProofs --------------------------
(***************************************************************************)
(* Proofs about ConnTracker: for every capacity, age limit and bound, no   *)
(* connection is lost or recorded twice, the ring is the recent suffix of  *)
(* everything that finished, and the tracker implements History.           *)
(***************************************************************************)
EXTENDS ConnTracker, NatFacts, TLAPS

(* The index arithmetic of the ring wraps around at most once. *)
LEMMA Wrap ==
  ASSUME NEW C \in Nat \ {0}, NEW h \in 0 .. C - 1, NEW k \in 0 .. C
  PROVE  (h + k) % C = IF h + k < C THEN h + k ELSE h + k - C
OBVIOUS

(* pruneRing (conntrack.go) stops: its loop drops the expired records at the *)
(* old end and no other.                                                     *)
LEMMA PrunedStops ==
  ASSUME TypeOK, NEW t \in Time
  PROVE  /\ Pruned(t) \in 0 .. ringCount
         /\ \A i \in 0 .. Pruned(t) - 1 : Expired(t, i)
         /\ Pruned(t) < ringCount => ~Expired(t, Pruned(t))
<1> DEFINE Stop == {k \in 0 .. ringCount : k < ringCount => ~Expired(t, k)}
<1>1. ringCount \in Nat
  BY TrackerAssumption DEF TypeOK
<1>2. ringCount \in Stop
  BY <1>1
<1>3. PICK k \in Stop : \A y \in Stop : k <= y
  <2>1. Stop \in SUBSET Nat /\ Stop # {}
    BY <1>1, <1>2
  <2> HIDE DEF Stop
  <2> QED BY <2>1, LeastNat
<1>4. \A i \in 0 .. k - 1 : Expired(t, i)
  <2> TAKE i \in 0 .. k - 1
  <2>1. i \in 0 .. ringCount /\ i < ringCount /\ ~(k <= i)
    BY <1>1
  <2> QED BY <2>1, <1>3
<1>5. \E j \in 0 .. ringCount :
        /\ \A i \in 0 .. j - 1 : Expired(t, i)
        /\ j < ringCount => ~Expired(t, j)
  BY <1>3, <1>4
<1> QED BY <1>5 DEF Pruned

LEMMA SlotRange ==
  ASSUME NEW C \in Nat \ {0}, NEW h \in 0 .. C - 1, NEW k \in 0 .. C
  PROVE  (h + k) % C \in 0 .. C - 1
BY Wrap

(* Moving the head by k and then counting i slots is counting k + i slots.   *)
LEMMA HeadShift ==
  ASSUME NEW C \in Nat \ {0}, NEW h \in 0 .. C - 1,
         NEW k \in 0 .. C, NEW i \in 0 .. C, k + i <= C
  PROVE  /\ (h + k) % C \in 0 .. C - 1
         /\ (((h + k) % C) + i) % C = (h + (k + i)) % C
<1>1. (h + k) % C = IF h + k < C THEN h + k ELSE h + k - C
  BY Wrap, Zenon
<1>2. (h + (k + i)) % C = IF h + (k + i) < C THEN h + (k + i) ELSE h + (k + i) - C
  BY Wrap, k + i \in 0 .. C
<1>3. (h + k) % C \in 0 .. C - 1
  BY <1>1
<1> DEFINE m == (h + k) % C
<1>4. m \in 0 .. C - 1
  BY <1>3
<1> HIDE DEF m
<1>5. (m + i) % C = IF m + i < C THEN m + i ELSE m + i - C
  BY <1>4, Wrap, Zenon
<1>6. m = IF h + k < C THEN h + k ELSE h + k - C
  BY <1>1 DEF m
<1>7. (m + i) % C = (h + (k + i)) % C
  BY <1>2, <1>4, <1>5, <1>6
<1> QED BY <1>3, <1>7 DEF m

(* The slots of the ring are distinct. *)
LEMMA DistinctSlots ==
  ASSUME NEW C \in Nat \ {0}, NEW h \in 0 .. C - 1,
         NEW i \in 0 .. C - 1, NEW j \in 0 .. C - 1, i # j
  PROVE  (h + i) % C # (h + j) % C
<1>1. (h + i) % C = IF h + i < C THEN h + i ELSE h + i - C
  BY Wrap, i \in 0 .. C
<1>2. (h + j) % C = IF h + j < C THEN h + j ELSE h + j - C
  BY Wrap, j \in 0 .. C
<1> QED BY <1>1, <1>2

(* pruneRing leaves the records from Pruned(now) on, in order.               *)
LEMMA PruneEffect ==
  ASSUME TypeOK, pruneRing(now)
  PROVE  /\ ringHead' \in 0 .. Capacity - 1
         /\ ringCount' \in 0 .. Capacity
         /\ ringCount' = ringCount - Pruned(now)
         /\ \A i \in 0 .. ringCount' - 1 : Nth(i)' = Nth(Pruned(now) + i)
<1> DEFINE k == Pruned(now)
<1>1. /\ k \in 0 .. ringCount /\ ringCount \in 0 .. Capacity
      /\ ringHead \in 0 .. Capacity - 1 /\ Capacity \in Nat \ {0}
  BY PrunedStops, TrackerAssumption DEF TypeOK
<1>2. /\ ringHead' = (ringHead + k) % Capacity
      /\ ringCount' = ringCount - k /\ ring' = ring
  BY DEF pruneRing
<1> HIDE DEF k
<1>3. ringHead' \in 0 .. Capacity - 1
  BY <1>1, <1>2, SlotRange, k \in 0 .. Capacity
<1>4. ASSUME NEW i \in 0 .. ringCount' - 1
      PROVE  Nth(i)' = Nth(k + i)
  <2>1. i \in 0 .. Capacity /\ k \in 0 .. Capacity /\ k + i <= Capacity
    BY <1>1, <1>2
  <2>2. (((ringHead + k) % Capacity) + i) % Capacity = (ringHead + (k + i)) % Capacity
    BY <2>1, <1>1, HeadShift, ZenonT(60)
  <2> QED BY <2>2, <1>2 DEF Nth
<1> QED BY <1>1, <1>2, <1>3, <1>4 DEF k

(* pushRing drops d old records, keeps the others in order and appends e;    *)
(* what it drops is expired, or the ring is full afterwards.                 *)
LEMMA PushEffect ==
  ASSUME TypeOK, NEW e \in Slot, pushRing(e)
  PROVE  /\ ring' \in [0 .. Capacity - 1 -> Slot]
         /\ ringHead' \in 0 .. Capacity - 1
         /\ ringCount' \in 1 .. Capacity
         /\ \E d \in 0 .. ringCount :
              /\ ringCount' = ringCount - d + 1
              /\ \A i \in 0 .. ringCount' - 1 :
                   Nth(i)' = IF i = ringCount' - 1 THEN e ELSE Nth(d + i)
              /\ (\A i \in 0 .. d - 1 : Expired(now, i)) \/ ringCount' = Capacity
<1> DEFINE k == Pruned(now)
           head == (ringHead + k) % Capacity
           count == ringCount - k
<1>1. /\ k \in 0 .. ringCount /\ ringCount \in 0 .. Capacity
      /\ ringHead \in 0 .. Capacity - 1 /\ Capacity \in Nat \ {0}
      /\ ring \in [0 .. Capacity - 1 -> Slot]
      /\ \A i \in 0 .. k - 1 : Expired(now, i)
  BY PrunedStops, TrackerAssumption DEF TypeOK
<1>2. \/ /\ count = Capacity
         /\ ring' = [ring EXCEPT ![head] = e]
         /\ ringHead' = (head + 1) % Capacity
         /\ ringCount' = count
      \/ /\ count < Capacity
         /\ ring' = [ring EXCEPT ![(head + count) % Capacity] = e]
         /\ ringHead' = head
         /\ ringCount' = count + 1
  BY DEF pushRing
<1> HIDE DEF k
<1>3. head \in 0 .. Capacity - 1
  BY <1>1, SlotRange, k \in 0 .. Capacity
<1>4. ASSUME NEW i \in 0 .. count - 1
      PROVE  ring[(head + i) % Capacity] = Nth(k + i)
  <2>1. i \in 0 .. Capacity /\ k \in 0 .. Capacity /\ k + i <= Capacity
    BY <1>1
  <2>2. (head + i) % Capacity = (ringHead + (k + i)) % Capacity
    BY <2>1, <1>1, HeadShift
  <2> QED BY <2>2 DEF Nth
<1>5. count \in 0 .. Capacity /\ count = ringCount - k
  BY <1>1
<1> HIDE DEF head, count
<1>6. CASE count < Capacity
  <2>1. /\ ring' = [ring EXCEPT ![(head + count) % Capacity] = e]
        /\ ringHead' = head
        /\ ringCount' = count + 1
    BY <1>1, <1>2, <1>5, <1>6
  <2>2. (head + count) % Capacity \in 0 .. Capacity - 1
    BY <1>1, <1>3, <1>5, SlotRange
  <2>3. ASSUME NEW i \in 0 .. count - 1
        PROVE  Nth(i)' = Nth(k + i)
    <3>1. i \in 0 .. Capacity - 1 /\ i # count /\ count \in 0 .. Capacity - 1
      BY <1>1, <1>5, <1>6
    <3>2. (head + i) % Capacity # (head + count) % Capacity
      BY <3>1, <1>1, <1>3, DistinctSlots, Zenon
    <3>3. (head + i) % Capacity \in 0 .. Capacity - 1
      BY <3>1, <1>1, <1>3, SlotRange, i \in 0 .. Capacity
    <3>4. Nth(i)' = ring'[(head + i) % Capacity]
      BY <2>1 DEF Nth
    <3> QED BY <3>2, <3>3, <3>4, <2>1, <1>1, <1>4
  <2>4. ring'[(ringHead' + count) % Capacity] = e
    BY <2>1, <2>2, <1>1
  <2>5. ringCount' - 1 = count /\ ringCount' = ringCount - k + 1
    BY <2>1, <1>1, <1>5
  <2>6. ASSUME NEW i \in 0 .. ringCount' - 1
        PROVE  Nth(i)' = IF i = ringCount' - 1 THEN e ELSE Nth(k + i)
    <3>1. CASE i = count
      BY <3>1, <2>4, <2>5 DEF Nth
    <3>2. CASE i # count
      <4>1. i \in 0 .. count - 1
        BY <3>2, <2>5, <1>5
      <4> QED BY <4>1, <3>2, <2>3, <2>5
    <3> QED BY <3>1, <3>2
  <2>9. ring' \in [0 .. Capacity - 1 -> Slot] /\ ringHead' \in 0 .. Capacity - 1
    BY <2>1, <2>2, <1>1, <1>3
  <2>10. ringCount' \in 1 .. Capacity
    BY <2>1, <1>5, <1>6, <1>1
  <2> QED BY <2>5, <2>6, <2>9, <2>10, <1>1
<1>7. CASE count = Capacity
  <2>1. /\ ring' = [ring EXCEPT ![head] = e]
        /\ ringHead' = (head + 1) % Capacity
        /\ ringCount' = count
    BY <1>1, <1>2, <1>7, <1>5
  <2>2. ringHead' \in 0 .. Capacity - 1
    BY <2>1, <1>1, <1>3, SlotRange, 1 \in 0 .. Capacity
  <2>3. k = 0 /\ ringCount = Capacity
    BY <1>1, <1>5, <1>7
  <2>4. ASSUME NEW i \in 0 .. Capacity - 1
        PROVE  (ringHead' + i) % Capacity = (head + (1 + i)) % Capacity
    BY SMTT(30), SMTT(60), <2>1, <1>1, <1>3, HeadShift, 1 + i <= Capacity, 1 \in 0 .. Capacity,
       i \in 0 .. Capacity
  <2>5. ASSUME NEW i \in 0 .. ringCount' - 1, i # ringCount' - 1
        PROVE  Nth(i)' = Nth(1 + i)
    <3>1. i \in 0 .. Capacity - 1 /\ 1 + i \in 0 .. Capacity - 1 /\ 1 + i # 0
      BY <2>1, <2>5, <1>7, <1>1
    <3>2. (head + (1 + i)) % Capacity # (head + 0) % Capacity
      BY <3>1, <1>1, <1>3, DistinctSlots, 0 \in 0 .. Capacity - 1
    <3>3. (head + 0) % Capacity = head
      <4>1. (head + 0) % Capacity = IF head + 0 < Capacity THEN head + 0 ELSE head + 0 - Capacity
        BY <1>1, <1>3, Wrap, 0 \in 0 .. Capacity
      <4> QED BY <4>1, <1>1, <1>3
    <3>4. Nth(i)' = ring'[(head + (1 + i)) % Capacity]
      BY <2>4, <3>1 DEF Nth
    <3>5. (head + (1 + i)) % Capacity \in 0 .. Capacity - 1
      BY <3>1, <1>1, <1>3, SlotRange, 1 + i \in 0 .. Capacity
    <3>6. ring[(head + (1 + i)) % Capacity] = Nth(k + (1 + i))
      BY <3>1, <1>4, <1>7
    <3>7. k + (1 + i) = 1 + i
      BY <2>3, <3>1
    <3> QED BY <3>2, <3>3, <3>4, <3>5, <3>6, <3>7, <2>1, <1>1
  <2>6. ASSUME NEW i \in 0 .. ringCount' - 1, i = ringCount' - 1
        PROVE  Nth(i)' = e
    <3>1. i \in 0 .. Capacity - 1 /\ 1 + i = Capacity
      BY <2>1, <2>6, <1>7, <1>1
    <3>2. (ringHead' + i) % Capacity = (head + Capacity) % Capacity
      BY <3>1, <2>4
    <3>3. (head + Capacity) % Capacity = head
      <4>1. (head + Capacity) % Capacity =
              IF head + Capacity < Capacity THEN head + Capacity ELSE head + Capacity - Capacity
        BY <1>1, <1>3, Wrap, Capacity \in 0 .. Capacity
      <4> QED BY <4>1, <1>1, <1>3
    <3>4. Nth(i)' = ring'[head]
      BY <3>2, <3>3 DEF Nth
    <3> QED BY <3>4, <2>1, <1>1, <1>3
  <2>7. ring' \in [0 .. Capacity - 1 -> Slot]
    BY <2>1, <1>1, <1>3
  <2>8. 1 \in 0 .. ringCount /\ ringCount' = ringCount - 1 + 1
        /\ ringCount' = Capacity /\ ringCount' \in 1 .. Capacity
    BY <2>1, <2>3, <1>1, <1>7
  <2>9. \A i \in 0 .. ringCount' - 1 :
          Nth(i)' = IF i = ringCount' - 1 THEN e ELSE Nth(1 + i)
    BY <2>5, <2>6
  <2>10. \E d \in 0 .. ringCount :
          /\ ringCount' = ringCount - d + 1
          /\ \A i \in 0 .. ringCount' - 1 :
               Nth(i)' = IF i = ringCount' - 1 THEN e ELSE Nth(d + i)
          /\ (\A i \in 0 .. d - 1 : Expired(now, i)) \/ ringCount' = Capacity
    <3>1. 1 \in 0 .. ringCount
      BY <2>8
    <3> WITNESS 1 \in 0 .. ringCount
    <3> QED BY <2>8, <2>9
  <2> QED BY <2>2, <2>7, <2>8, <2>10
<1>8. count < Capacity \/ count = Capacity
  BY <1>1, <1>5
<1> QED BY <1>6, <1>7, <1>8

------------------------------------------------------------------------------
(* The inductive invariant.  Begin hands out fresh ids: none above nextID is *)
(* active, recorded or in use.                                               *)
IdsFresh ==
  /\ active \subseteq 1 .. nextID
  /\ \A i \in 1 .. Len(log) : log[i].id \in 1 .. nextID
  /\ \A id \in Ids : id > nextID => phase[id] = "new"
  /\ \A id \in Ids : id <= nextID => phase[id] # "new"

(* Records are pushed in the order of closedAt.  A call that holds the mutex *)
(* pushes with the time it took when it locked, which is why the newest      *)
(* record is compared with sweep.at and not with the clock.                  *)
LogSorted ==
  /\ sweep.held => sweep.at <= now
  /\ ~sweep.held => sweep.tab = "none"
  /\ \A i \in 1 .. Len(log) :
       log[i].closedAt <= IF sweep.held THEN sweep.at ELSE now
  /\ \A i, j \in 1 .. Len(log) : i <= j => log[i].closedAt <= log[j].closedAt

(* What List pruned away stays away while it holds the mutex.                *)
RingFresh ==
  sweep.tab = "list" => \A i \in 0 .. ringCount - 1 : ~Expired(sweep.at, i)

IInv ==
  /\ TypeOK
  /\ IdsFresh
  /\ RecordedOnce
  /\ ActiveHasOwner
  /\ HistoryIsRecent
  /\ LogSorted
  /\ RingFresh

(* The tracker starts in the invariant. *)
LEMMA InitIInv == Init => IInv
<1> SUFFICES ASSUME Init PROVE IInv
  OBVIOUS
<1> USE TrackerAssumption DEF Init, Ids, Time, Free
<1>1. TypeOK
  <2>1. [id |-> 0, closedAt |-> 0] \in Slot
    BY DEF Slot
  <2>2. ring \in [0 .. Capacity - 1 -> Slot]
    BY <2>1
  <2>3. sweep \in Sweeps
    BY DEF Sweeps
  <2>4. phase \in [Ids -> Phases] /\ startedAt \in [Ids -> Time]
    BY DEF Phases
  <2>5. log \in Seq(Entry)
    OBVIOUS
  <2>6. now \in Time /\ nextID \in 0 .. MaxConns /\ ringHead \in 0 .. Capacity - 1
        /\ ringCount \in 0 .. Capacity
    OBVIOUS
  <2>7. active \subseteq Ids /\ dialing \subseteq active
    OBVIOUS
  <2> QED BY <2>2, <2>3, <2>4, <2>5, <2>6, <2>7, Zenon DEF TypeOK
<1>2. Len(log) = 0 /\ nextID = 0
  OBVIOUS
<1>3. IdsFresh
  BY <1>2 DEF IdsFresh
<1>4. RecordedOnce
  BY <1>2 DEF RecordedOnce
<1>5. ActiveHasOwner
  BY DEF ActiveHasOwner
<1>6. HistoryIsRecent
  BY <1>2 DEF HistoryIsRecent
<1>7. LogSorted /\ RingFresh
  BY <1>2 DEF LogSorted, RingFresh
<1> QED BY <1>1, <1>3, <1>4, <1>5, <1>6, <1>7 DEF IInv

(* What a step that retires a connection does to the history: Fail, finish   *)
(* and dropStalled share it.                                                 *)
LEMMA RetireKeeps ==
  ASSUME IInv, NEW id \in active, NEW t \in Time, Retire(id, t),
         t = IF sweep.held THEN sweep.at ELSE now,
         UNCHANGED <<now, sweep, nextID>>
  PROVE  /\ ring' \in [0 .. Capacity - 1 -> Slot]
         /\ ringHead' \in 0 .. Capacity - 1
         /\ ringCount' \in 0 .. Capacity
         /\ log' \in Seq(Entry)
         /\ \A i \in 1 .. Len(log') : log'[i].id \in 1 .. nextID
         /\ RecordedOnce'
         /\ HistoryIsRecent'
         /\ LogSorted'
         /\ RingFresh'
<1> DEFINE e == [id |-> id, closedAt |-> t]
           L == Len(log)
<1> USE TrackerAssumption DEF Ids, Time
<1>1. TypeOK /\ IdsFresh /\ RecordedOnce /\ HistoryIsRecent /\ LogSorted /\ RingFresh
  BY DEF IInv
<1>2. id \in Ids /\ id \in 1 .. nextID /\ nextID \in Nat
  BY <1>1 DEF TypeOK, IdsFresh
<1>3. e \in Entry /\ e \in Slot /\ e.id = id /\ e.closedAt = t
  BY <1>2 DEF Entry, Slot
<1>4. pushRing(e) /\ active' = active \ {id}
  BY DEF Retire
<1>5. log' = Append(log, e) /\ log \in Seq(Entry)
  BY <1>1, <1>4 DEF pushRing, TypeOK
<1> HIDE DEF e
<1>6. /\ L \in Nat /\ Len(log') = L + 1 /\ log' \in Seq(Entry)
      /\ \A i \in 1 .. L : log'[i] = log[i]
      /\ log'[L + 1] = e
  BY <1>3, <1>5
<1>7. \A i \in 1 .. L : log[i] \in Entry
  BY <1>5
<1> HIDE DEF L
<1>8. \A i \in 1 .. Len(log') : log'[i].id \in 1 .. nextID
  <2>1. \A i \in 1 .. L : log[i].id \in 1 .. nextID
    BY <1>1 DEF IdsFresh, L
  <2>2. ASSUME NEW i \in 1 .. L + 1
        PROVE  log'[i].id \in 1 .. nextID
    <3>1. CASE i \in 1 .. L
      BY <3>1, <2>1, <1>6
    <3>2. CASE i = L + 1
      BY <3>2, <1>2, <1>3, <1>6
    <3> QED BY <3>1, <3>2, <1>6
  <2> QED BY <2>2, <1>6
<1>9. RecordedOnce'
  <2>1. \A i, j \in 1 .. L + 1 : log'[i].id = log'[j].id => i = j
    BY <1>1, <1>3, <1>6, SMTT(30), SMTT(60) DEF RecordedOnce, L
  <2>2. \A i \in 1 .. L + 1 : log'[i].id \notin active'
    BY <1>1, <1>3, <1>4, <1>6 DEF RecordedOnce, L
  <2>3. ASSUME NEW n \in 1 .. nextID, n \notin active'
        PROVE  \E i \in 1 .. L + 1 : log'[i].id = n
    <3>1. CASE n = id
      BY <3>1, <1>3, <1>6, L + 1 \in 1 .. L + 1
    <3>2. CASE n # id
      BY ONLY n \in 1 .. nextID, <3>2, <2>3, <1>1, <1>4, <1>6, SMTT(30), SMTT(60) DEF RecordedOnce, L
    <3> QED BY <3>1, <3>2
  <2> QED BY <2>1, <2>2, <2>3, <1>6 DEF RecordedOnce
<1>10. PICK d \in 0 .. ringCount :
        /\ ringCount' = ringCount - d + 1
        /\ \A i \in 0 .. ringCount' - 1 :
             Nth(i)' = IF i = ringCount' - 1 THEN e ELSE Nth(d + i)
        /\ (\A i \in 0 .. d - 1 : Expired(now, i)) \/ ringCount' = Capacity
  BY <1>1, <1>3, <1>4, PushEffect, ZenonT(30)
<1>11. /\ ring' \in [0 .. Capacity - 1 -> Slot] /\ ringHead' \in 0 .. Capacity - 1
       /\ ringCount' \in 1 .. Capacity
  BY <1>1, <1>3, <1>4, PushEffect
<1>12. /\ ringCount \in 0 .. Capacity /\ ringCount <= L
       /\ now \in Time /\ sweep \in Sweeps
       /\ \A i \in 0 .. ringCount - 1 : Nth(i) = log[L - ringCount + 1 + i]
       /\ \A j \in 1 .. L - ringCount : L - j >= Capacity \/ now - log[j].closedAt > MaxAge
  BY <1>1 DEF TypeOK, HistoryIsRecent, L
<1>13. d \in Nat /\ ringCount' = ringCount - d + 1 /\ ringCount' \in 1 .. Capacity
  BY <1>10, <1>11, <1>12
<1>14. L \in Nat /\ Len(log') \in Nat /\ Len(log') = L + 1
  BY <1>6
<1>15. HistoryIsRecent'
  <2>1. ringCount' <= L + 1
    BY <1>6, <1>10, <1>12
  <2>2. ASSUME NEW i \in 0 .. ringCount' - 1
        PROVE  Nth(i)' = log'[Len(log') - ringCount' + 1 + i]
    <3>1. CASE i = ringCount' - 1
      <4>1. Len(log') - ringCount' + 1 + i = L + 1
        BY <3>1, <1>13, <1>14
      <4> QED BY <3>1, <4>1, <1>6, <1>10, Zenon
    <3>2. CASE i # ringCount' - 1
      <4>1. /\ d + i \in 0 .. ringCount - 1
            /\ L - ringCount + 1 + (d + i) = Len(log') - ringCount' + 1 + i
            /\ L - ringCount + 1 + (d + i) \in 1 .. L
        BY SMTT(30), SMTT(60), <3>2, <1>6, <1>10, <1>11, <1>12
      <4>2. Nth(i)' = Nth(d + i)
        BY SMTT(30), SMTT(60), <3>2, <1>10
      <4> QED BY <4>1, <4>2, <1>6, <1>12, Zenon
    <3> QED BY <3>1, <3>2
  <2>3. ASSUME NEW j \in 1 .. Len(log') - ringCount'
        PROVE  Len(log') - j >= Capacity \/ now' - log'[j].closedAt > MaxAge
    <3>1. j \in 1 .. L /\ log'[j] = log[j]
      <4>1. j \in 1 .. L
        BY <1>6, <1>13
      <4> QED BY <4>1, <1>6
    <3>2. CASE j \in 1 .. L - ringCount
      BY SMTT(30), SMTT(60), <3>1, <3>2, <1>6, <1>12
    <3>3. CASE ringCount' = Capacity
      BY <3>3, <1>6, <1>11, SMTT(30), SMTT(60)
    <3>4. CASE j \notin 1 .. L - ringCount /\ \A i \in 0 .. d - 1 : Expired(now, i)
      <4>1. PICK i \in 0 .. d - 1 : j = L - ringCount + 1 + i
        <5>1. j - (L - ringCount + 1) \in 0 .. d - 1
          <6>1. j \in Nat /\ L \in Nat /\ ringCount \in Nat /\ 1 <= j /\ j <= L + 1 - ringCount'
                /\ ~(j <= L - ringCount)
            BY SMTT(30), SMTT(60), <3>4, <1>6, <1>12, <1>13
          <6> QED BY SMTT(30), SMTT(60), <6>1, <1>13
        <5> QED BY <5>1, <1>6, <1>12
      <4>2. i \in 0 .. ringCount - 1 /\ Nth(i) = log[j]
        <5>1. i \in 0 .. ringCount - 1
          BY SMTT(30), SMTT(60), <1>10, <1>12
        <5> QED BY SMTT(30), SMTT(60), <5>1, <4>1, <1>12
      <4> QED BY SMTT(30), SMTT(60), <3>1, <3>4, <4>2 DEF Expired
    <3> QED BY SMTT(30), SMTT(60), <3>2, <3>3, <3>4, <1>10
  <2> QED BY <2>1, <2>2, <2>3, <1>6 DEF HistoryIsRecent
<1>16. LogSorted'
  <2>1. \A i \in 1 .. L : log[i].closedAt <= t /\ log[i].closedAt \in Time
    BY SMTT(30), SMTT(60), <1>1, <1>7 DEF LogSorted, L, Entry
  <2>2. \A i, j \in 1 .. L + 1 : i <= j => log'[i].closedAt <= log'[j].closedAt
    <3>1. \A i, j \in 1 .. L : i <= j => log[i].closedAt <= log[j].closedAt
      BY ZenonT(30), SMTT(30), <1>1 DEF LogSorted, L
    <3>2. L \in Nat
      BY <1>6
    <3> QED BY ONLY SMTT(30), SMTT(60), <1>3, <1>6, <2>1, <3>1, <3>2, TrackerAssumption DEF Time
  <2>3. \A i \in 1 .. L + 1 : log'[i].closedAt <= t
    BY SMTT(30), SMTT(60), <1>3, <1>6, <2>1
  <2> QED BY SMTT(30), SMTT(60), <2>2, <2>3, <1>1, <1>6 DEF LogSorted
<1>17. RingFresh'
  <2> SUFFICES ASSUME sweep.tab = "list", NEW i \in 0 .. ringCount' - 1
               PROVE  ~(sweep.at - (Nth(i)').closedAt > MaxAge)
    BY DEF RingFresh, Expired
  <2>1. sweep.held /\ sweep.at \in Time
    BY <1>1, <1>12 DEF LogSorted, Sweeps
  <2>2. CASE i = ringCount' - 1
    BY <2>1, <2>2, <1>3, <1>10
  <2>3. CASE i # ringCount' - 1
    <3>1. d + i \in 0 .. ringCount - 1
      BY SMTT(30), SMTT(60), <2>3, <1>12, <1>13
    <3>2. Nth(i)' = Nth(d + i)
      BY <2>3, <1>10
    <3> QED BY SMTT(30), SMTT(60), <3>1, <3>2, <1>1 DEF RingFresh, Expired
  <2> QED BY <2>2, <2>3
<1> QED BY SMTT(30), SMTT(60), <1>6, <1>8, <1>9, <1>11, <1>15, <1>16, <1>17

(* List: pruning keeps the ring a suffix of the log and leaves no expired    *)
(* record, since the log is sorted by closedAt.                              *)
LEMMA ListKeeps == IInv /\ List => IInv'
<1> SUFFICES ASSUME IInv, List PROVE IInv'
  OBVIOUS
<1> DEFINE k == Pruned(now)
           L == Len(log)
<1> USE TrackerAssumption DEF Ids, Time
<1>1. /\ TypeOK /\ IdsFresh /\ RecordedOnce /\ ActiveHasOwner
      /\ HistoryIsRecent /\ LogSorted
  BY DEF IInv
<1>2. /\ UNCHANGED <<now, nextID, active, dialing, startedAt, phase, ring, log>>
      /\ sweep' = [held |-> TRUE, at |-> now, tab |-> "list"] /\ ~sweep.held
      /\ pruneRing(now)
  BY DEF List, MutexFree, pruneRing
<1>3. /\ k \in 0 .. ringCount
      /\ \A i \in 0 .. k - 1 : Expired(now, i)
      /\ k < ringCount => ~Expired(now, k)
  BY <1>1, PrunedStops, Zenon DEF TypeOK
<1>4. /\ ringHead' \in 0 .. Capacity - 1 /\ ringCount' \in 0 .. Capacity
      /\ ringCount' = ringCount - k
      /\ \A i \in 0 .. ringCount' - 1 : Nth(i)' = Nth(k + i)
  BY SMTT(30), SMTT(60), <1>1, <1>2, PruneEffect
<1> HIDE DEF k
<1>5. /\ L \in Nat /\ ringCount \in 0 .. Capacity /\ ringCount <= L /\ now \in Time
      /\ \A i \in 0 .. ringCount - 1 : Nth(i) = log[L - ringCount + 1 + i]
      /\ \A j \in 1 .. L - ringCount : L - j >= Capacity \/ now - log[j].closedAt > MaxAge
      /\ \A i \in 1 .. L : log[i] \in Entry
  BY ONLY <1>1, SMTT(60) DEF TypeOK, HistoryIsRecent, L
<1>6. TypeOK'
  <2>1. sweep' \in Sweeps
    BY SMTT(30), SMTT(60), <1>2, <1>5 DEF Sweeps
  <2> QED BY <2>1, <1>1, <1>2, <1>4, ZenonT(30) DEF TypeOK
<1>7. IdsFresh' /\ RecordedOnce' /\ ActiveHasOwner'
  BY SMTT(30), SMTT(60), <1>1, <1>2 DEF IdsFresh, RecordedOnce, ActiveHasOwner
<1>8. HistoryIsRecent'
  <2>1. ringCount' <= L
    BY <1>3, <1>4, <1>5
  <2>2. ASSUME NEW i \in 0 .. ringCount' - 1
        PROVE  Nth(i)' = log[L - ringCount' + 1 + i]
    <3>1. k + i \in 0 .. ringCount - 1 /\ L - ringCount + 1 + (k + i) = L - ringCount' + 1 + i
      BY <1>3, <1>4, <1>5
    <3> QED BY <3>1, <1>4, <1>5, Zenon
  <2>3. ASSUME NEW j \in 1 .. L - ringCount'
        PROVE  L - j >= Capacity \/ now - log[j].closedAt > MaxAge
    <3>1. CASE j \in 1 .. L - ringCount
      BY <3>1, <1>5
    <3>2. CASE j \notin 1 .. L - ringCount
      <4> DEFINE i == j - (L - ringCount + 1)
      <4>1. i \in 0 .. k - 1 /\ i \in 0 .. ringCount - 1 /\ L - ringCount + 1 + i = j
        BY SMTT(30), SMTT(60), <3>2, <1>3, <1>4, <1>5
      <4> HIDE DEF i
      <4>2. Nth(i) = log[j]
        BY SMTT(30), SMTT(60), <4>1, <1>5
      <4> QED BY SMTT(30), SMTT(60), <4>1, <4>2, <1>3 DEF Expired
    <3> QED BY <3>1, <3>2
  <2> QED BY SMTT(30), SMTT(60), <2>1, <2>2, <2>3, <1>2 DEF HistoryIsRecent
<1>9. LogSorted'
  <2>1. sweep'.held /\ sweep'.at = now /\ now' = now /\ log' = log
    BY <1>2
  <2>2. now \in Int /\ now <= now
    BY SMTT(30), SMTT(60), <1>5
  <2>3. \A i \in 1 .. Len(log) : log[i].closedAt <= now
    BY <1>1, <1>2 DEF LogSorted
  <2>4. \A i, j \in 1 .. Len(log) : i <= j => log[i].closedAt <= log[j].closedAt
    BY SMTT(30), SMTT(60), <1>1 DEF LogSorted
  <2> QED BY SMTT(30), SMTT(60), <2>1, <2>2, <2>3, <2>4 DEF LogSorted
<1>10. RingFresh'
  <2> SUFFICES ASSUME NEW i \in 0 .. ringCount' - 1
               PROVE  ~(now - (Nth(i)').closedAt > MaxAge)
    BY <1>2 DEF RingFresh, Expired
  <2>1. /\ k \in 0 .. ringCount - 1 /\ k + i \in 0 .. ringCount - 1 /\ k < ringCount
        /\ L - ringCount + 1 + k \in 1 .. L
        /\ L - ringCount + 1 + (k + i) \in 1 .. L
        /\ L - ringCount + 1 + k <= L - ringCount + 1 + (k + i)
    <3>1. /\ k \in Nat /\ i \in Nat /\ ringCount \in Nat /\ L \in Nat
          /\ i < ringCount - k /\ k <= ringCount /\ ringCount <= L
      BY <1>3, <1>4, <1>5
    <3> HIDE DEF L
    <3> QED BY <3>1
  <2>2. Nth(k) = log[L - ringCount + 1 + k] /\ Nth(k + i) = log[L - ringCount + 1 + (k + i)]
    BY SMTT(30), SMTT(60), <2>1, <1>5
  <2>3. Nth(k).closedAt <= Nth(k + i).closedAt
    BY <2>1, <2>2, <1>1 DEF LogSorted
  <2>4. Nth(k).closedAt \in Time /\ Nth(k + i).closedAt \in Time
    BY <2>1, <2>2, <1>5, Zenon DEF Entry
  <2>5. ~(now - Nth(k).closedAt > MaxAge)
    BY <2>1, <1>3 DEF Expired
  <2>6. Nth(i)' = Nth(k + i)
    BY <1>4
  <2> QED BY <2>3, <2>4, <2>5, <2>6, <1>5, SMTT(30), SMTT(60)
<1> QED BY <1>6, <1>7, <1>8, <1>9, <1>10 DEF IInv

(* A step that retires a connection or finds it gone keeps the invariant.    *)
LEMMA RetireSteps ==
  ASSUME IInv, NEW id \in Ids, Fail(id) \/ finish(id) \/ dropStalled(id)
  PROVE  IInv'
<1> USE TrackerAssumption DEF Ids, Time
<1>1. /\ TypeOK /\ IdsFresh /\ RecordedOnce /\ ActiveHasOwner
      /\ HistoryIsRecent /\ LogSorted /\ RingFresh
  BY DEF IInv
<1>2. UNCHANGED <<now, sweep, nextID, startedAt>>
  BY DEF Fail, finish, dropStalled
<1>3. /\ phase' \in [Ids -> Phases]
      /\ \A n \in Ids \ {id} : phase'[n] = phase[n]
      /\ phase[id] # "new" /\ phase'[id] # "new"
      /\ phase'[id] \in {"over", phase[id]}
  BY <1>1, Zenon DEF TypeOK, ActiveHasOwner, Fail, finish, dropStalled, Stalled, Phases
<1>4. CASE UNCHANGED <<active, dialing, ringVars>> /\ id \notin active
  <2>1. TypeOK' /\ IdsFresh' /\ RecordedOnce'
    BY <1>1, <1>2, <1>3, <1>4, ZenonT(30) DEF TypeOK, IdsFresh, RecordedOnce, ringVars
  <2>2. ActiveHasOwner'
    BY <1>1, <1>2, <1>3, <1>4, ZenonT(30), SMTT(60) DEF TypeOK, ActiveHasOwner
  <2>3. HistoryIsRecent' /\ LogSorted' /\ RingFresh'
    BY SMTT(30), SMTT(60), <1>1, <1>2, <1>4 DEF HistoryIsRecent, LogSorted, RingFresh, ringVars, Nth, Expired
  <2> QED BY <2>1, <2>2, <2>3 DEF IInv
<1>5. ASSUME NEW t \in Time, t = IF sweep.held THEN sweep.at ELSE now,
             id \in active, Retire(id, t),
             id \in dialing \/ phase'[id] = "over"
      PROVE  IInv'
  <2>1. /\ ring' \in [0 .. Capacity - 1 -> Slot]
        /\ ringHead' \in 0 .. Capacity - 1
        /\ ringCount' \in 0 .. Capacity
        /\ log' \in Seq(Entry)
        /\ \A i \in 1 .. Len(log') : log'[i].id \in 1 .. nextID
        /\ RecordedOnce' /\ HistoryIsRecent' /\ LogSorted' /\ RingFresh'
    BY SMTT(30), SMTT(60), <1>2, <1>5, RetireKeeps
  <2>2. active' = active \ {id} /\ dialing' = dialing \ {id}
    BY <1>5 DEF Retire
  <2>3. TypeOK'
    BY <2>1, <2>2, <1>1, <1>2, <1>3, ZenonT(30) DEF TypeOK
  <2>4. IdsFresh'
    BY <2>1, <2>2, <1>1, <1>2, <1>3, ZenonT(30), SMTT(60) DEF IdsFresh, TypeOK
  <2>5. ActiveHasOwner'
    BY <2>2, <1>1, <1>3, <1>5, ZenonT(30), SMTT(60) DEF ActiveHasOwner, TypeOK
  <2> QED BY SMTT(30), SMTT(60), <2>1, <2>3, <2>4, <2>5 DEF IInv
<1>6. CASE Fail(id) \/ finish(id)
  <2>1. ~sweep.held /\ RetireActive(id) /\ phase'[id] = "over" /\ now \in Time
    BY <1>1, <1>6 DEF Fail, finish, MutexFree, TypeOK
  <2> QED BY SMTT(30), SMTT(60), <2>1, <1>4, <1>5 DEF RetireActive
<1>7. CASE dropStalled(id)
  <2>1. sweep.held /\ Retire(id, sweep.at) /\ id \in dialing /\ id \in active
        /\ sweep.at \in Time
    BY <1>1, <1>7 DEF dropStalled, Stalled, TypeOK, Sweeps
  <2> QED BY SMTT(30), SMTT(60), <2>1, <1>5
<1> QED BY <1>6, <1>7

(* The steps that leave the history alone keep the invariant.                *)
LEMMA OtherSteps ==
  ASSUME IInv, \/ Begin \/ ActiveByProto \/ Unlock \/ Tick
               \/ \E id \in Ids : Done(id) \/ Close(id)
  PROVE  IInv'
<1> USE TrackerAssumption DEF Ids, Time
<1>1. /\ TypeOK /\ IdsFresh /\ RecordedOnce /\ ActiveHasOwner
      /\ HistoryIsRecent /\ LogSorted /\ RingFresh
  BY SMTT(60) DEF IInv
<1>2. UNCHANGED <<ring, ringHead, ringCount, log>> /\ now' \in Time /\ now <= now'
  <2>1. UNCHANGED <<ring, ringHead, ringCount, log>>
    BY ZenonT(30) DEF ringVars, Begin, ActiveByProto, Unlock, Tick, Done, Close
  <2>2. now' = now \/ (now' = now + 1 /\ now < MaxTime)
    BY ZenonT(30) DEF Begin, ActiveByProto, Unlock, Tick, Done, Close
  <2>3. now \in Time
    BY <1>1, Zenon DEF TypeOK
  <2> QED BY ONLY <2>1, <2>2, <2>3, TrackerAssumption, SMTT(30), SMTT(60) DEF Time
<1>3. \A i \in 0 .. ringCount - 1 : Nth(i)' = Nth(i)
  BY <1>2 DEF Nth
<1>4. /\ log \in Seq(Entry) /\ now \in Time /\ sweep \in Sweeps /\ Len(log) \in Nat
      /\ \A i \in 1 .. Len(log) : log[i].closedAt \in Time
  <2>1. log \in Seq(Entry) /\ now \in Time /\ sweep \in Sweeps /\ Len(log) \in Nat
    BY <1>1 DEF TypeOK
  <2>2. \A i \in 1 .. Len(log) : log[i] \in Entry
    BY <2>1
  <2>3. \A x \in Entry : x.closedAt \in Time
    BY DEF Entry
  <2> QED BY <2>1, <2>2, <2>3
<1>5. HistoryIsRecent'
  <2>1. \A j \in 1 .. Len(log) - ringCount :
          Len(log) - j >= Capacity \/ now' - log[j].closedAt > MaxAge
    <3> TAKE j \in 1 .. Len(log) - ringCount
    <3>1. Len(log) - j >= Capacity \/ now - log[j].closedAt > MaxAge
      BY <1>1 DEF HistoryIsRecent
    <3>2. j \in 1 .. Len(log)
      BY SMTT(30), SMTT(60), <1>1, <1>4 DEF TypeOK
    <3>3. log[j].closedAt \in Int /\ now \in Int /\ now' \in Int
      BY <3>2, <1>2, <1>4, SMTT(60)
    <3>4. now <= now'
      BY <1>2, Zenon
    <3> QED BY ONLY <3>1, <3>3, <3>4, TrackerAssumption, SMTT(30), SMTT(60)
  <2> QED BY ONLY <2>1, <1>1, <1>2, <1>3, ZenonT(30) DEF HistoryIsRecent
<1>6. LogSorted'
  <2>1. LogSorted
    BY SMTT(30), SMTT(60), <1>1
  <2>2. CASE sweep' = sweep
    BY ONLY <2>1, <2>2, <1>2, <1>4, SMTT(30), SMTT(60) DEF LogSorted, Sweeps, Time
  <2>3. CASE sweep' = Free /\ now' = now
    BY ONLY <2>1, <2>3, <1>2, <1>4, SMTT(30), SMTT(60) DEF LogSorted, Sweeps, Free, Time
  <2>4. CASE ~sweep.held /\ sweep' = [held |-> TRUE, at |-> now, tab |-> "count"] /\ now' = now
    BY ONLY <2>1, <2>4, <1>2, <1>4, SMTT(30), SMTT(60) DEF LogSorted, Time
  <2> QED BY ZenonT(30), <2>2, <2>3, <2>4
          DEF Begin, ActiveByProto, Unlock, Tick, Done, Close, MutexFree
<1>7. RingFresh'
  <2>1. RingFresh
    BY ZenonT(30), <1>1
  <2>2. ASSUME NEW t, NEW i \in 0 .. ringCount - 1, ~Expired(t, i) PROVE ~Expired(t, i)'
    BY ONLY <1>3, <2>2, i \in 0 .. ringCount - 1, ZenonT(30) DEF Expired
  <2>3. sweep' = sweep \/ sweep'.tab # "list"
    <3>1. Free.tab # "list"
      BY ONLY SMTT(30), SMTT(60) DEF Free
    <3>2. [held |-> TRUE, at |-> now, tab |-> "count"].tab # "list"
      BY ONLY SMTT(30), SMTT(60)
    <3> QED BY ZenonT(30), <3>1, <3>2
            DEF Begin, ActiveByProto, Unlock, Tick, Done, Close
  <2> QED BY ONLY <1>2, <2>1, <2>2, <2>3, ZenonT(30) DEF RingFresh
<1>8. TypeOK'
  <2>1. sweep' \in Sweeps
    <3>1. \/ sweep' = sweep \/ sweep' = Free
          \/ sweep' = [held |-> TRUE, at |-> now, tab |-> "count"]
      BY Zenon DEF Begin, ActiveByProto, Unlock, Tick, Done, Close
    <3>2. Free \in Sweeps
      BY SMTT(60) DEF Free, Sweeps
    <3>3. [held |-> TRUE, at |-> now, tab |-> "count"] \in Sweeps
      BY <1>4 DEF Sweeps
    <3> QED BY <3>1, <3>2, <3>3, <1>4, Zenon
  <2>2. /\ nextID' \in 0 .. MaxConns
        /\ active' \subseteq Ids
        /\ dialing' \subseteq active'
    <3>1. CASE Begin
      <4>1. nextID + 1 \in Ids /\ nextID' \in 0 .. MaxConns
        BY <3>1, <1>1 DEF Begin, TypeOK
      <4> QED BY SMTT(30), SMTT(60), <4>1, <3>1, <1>1 DEF Begin, TypeOK
    <3>2. CASE ~Begin
      <4>1. nextID' = nextID /\ active' = active /\ dialing' \subseteq dialing
        BY <3>2, SMTT(60) DEF ActiveByProto, Unlock, Tick, Done, Close
      <4> QED BY SMTT(30), SMTT(60), <4>1, <1>1 DEF TypeOK
    <3> QED BY SMTT(30), SMTT(60), <3>1, <3>2
  <2>3. startedAt' \in [Ids -> Time]
    BY <1>1, Zenon DEF TypeOK, Begin, ActiveByProto, Unlock, Tick, Done, Close
  <2>4. phase' \in [Ids -> Phases]
    BY <1>1, ZenonT(60) DEF TypeOK, Phases, Begin, ActiveByProto, Unlock, Tick, Done, Close
  <2> QED BY <2>1, <2>2, <2>3, <2>4, <1>1, <1>2, ZenonT(30) DEF TypeOK
<1>9. IdsFresh' /\ RecordedOnce' /\ ActiveHasOwner'
  <2>1. CASE Begin
    <3>1. nextID' = nextID + 1 /\ nextID' \in Ids /\ active' = active \union {nextID'}
      BY SMTT(30), SMTT(60), <2>1, <1>1 DEF Begin, TypeOK
    <3>2. IdsFresh'
      <4>1. nextID \in Nat /\ 1 .. nextID \subseteq 1 .. nextID'
        BY <3>1, <1>1 DEF TypeOK
      <4>2. active' \subseteq 1 .. nextID'
        <5>1. active \subseteq 1 .. nextID
          BY <1>1 DEF IdsFresh
        <5>2. nextID' \in 1 .. nextID'
          BY <4>1, <3>1
        <5>3. active' = active \union {nextID'}
          BY SMTT(30), SMTT(60), <3>1
        <5> QED BY <5>1, <5>2, <5>3, <4>1, Zenon
      <4>3. \A i \in 1 .. Len(log') : log'[i].id \in 1 .. nextID'
        BY SMTT(30), SMTT(60), <4>1, <1>1, <1>2 DEF IdsFresh
      <4>4. phase' = [phase EXCEPT ![nextID'] = "dialing"] /\ phase \in [Ids -> Phases]
        BY SMTT(30), SMTT(60), <2>1, <3>1, <1>1 DEF Begin, TypeOK
      <4>5. ASSUME NEW id \in Ids
            PROVE  /\ id > nextID' => phase'[id] = "new"
                   /\ id <= nextID' => phase'[id] # "new"
        <5>1. CASE id = nextID'
          BY SMTT(30), SMTT(60), <5>1, <4>1, <4>4, <3>1
        <5>2. CASE id # nextID'
          <6>1. phase'[id] = phase[id]
            BY <5>2, <4>4
          <6>2. (id > nextID' => id > nextID) /\ (id <= nextID' => id <= nextID)
            BY <5>2, <4>1, <3>1, SMTT(30), SMTT(60)
          <6> QED BY <6>1, <6>2, <1>1 DEF IdsFresh
        <5> QED BY <5>1, <5>2
      <4> QED BY SMTT(30), SMTT(60), <4>2, <4>3, <4>5 DEF IdsFresh
    <3>3. RecordedOnce'
      <4>1. nextID \in Nat /\ nextID' \notin 1 .. nextID
        BY <3>1, <1>1 DEF TypeOK
      <4>2. \A i \in 1 .. Len(log) : log[i].id # nextID'
        BY <4>1, <1>1 DEF IdsFresh
      <4>3. \A n \in 1 .. nextID' : n \in 1 .. nextID \/ n = nextID'
        BY SMTT(30), SMTT(60), <4>1, <3>1
      <4> QED BY <4>2, <4>3, <3>1, <1>1, <1>2, SMTT(60) DEF RecordedOnce
    <3>4. ActiveHasOwner'
      BY <2>1, <3>1, <1>1, ZenonT(60) DEF Begin, TypeOK, IdsFresh, ActiveHasOwner
    <3> QED BY SMTT(30), SMTT(60), <3>2, <3>3, <3>4
  <2>2. CASE ActiveByProto \/ Unlock \/ Tick
    <3>1. UNCHANGED <<active, dialing, nextID, phase>>
      BY <2>2 DEF ActiveByProto, Unlock, Tick
    <3> QED BY <3>1, <1>1, <1>2, ZenonT(60) DEF IdsFresh, RecordedOnce, ActiveHasOwner
  <2>3. ASSUME NEW id \in Ids, Done(id) \/ Close(id)
        PROVE  IdsFresh' /\ RecordedOnce' /\ ActiveHasOwner'
    <3>1. UNCHANGED <<active, nextID>>
      BY <2>3, ZenonT(30) DEF Done, Close
    <3>2. RecordedOnce'
      BY ONLY <3>1, <1>1, <1>2, ZenonT(60) DEF RecordedOnce
    <3>3. IdsFresh'
      BY <2>3, <3>1, <1>1, <1>2, ZenonT(30) DEF IdsFresh, TypeOK, Done, Close
    <3>4. ActiveHasOwner'
      <4>1. phase \in [Ids -> Phases] /\ id \in Ids
        BY <1>1, ZenonT(30) DEF TypeOK
      <4>2. \A k \in Ids \ {id} : phase'[k] = phase[k]
        BY ONLY <2>3, <4>1, ZenonT(30) DEF Done, Close
      <4>3. dialing' \in {dialing, dialing \ {id}}
        BY ONLY <2>3, ZenonT(30) DEF Done, Close
      <4>4. \/ phase'[id] = "open" /\ id \in active /\ dialing' = dialing \ {id}
            \/ phase'[id] = "over" /\ id \notin active
            \/ phase'[id] = "closing" /\ phase[id] = "open" /\ dialing' = dialing
        BY ONLY <2>3, <4>1, ZenonT(30) DEF Done, Close
      <4> QED BY ONLY <3>1, <4>1, <4>2, <4>3, <4>4, <1>1, SMTT(30), SMTT(60) DEF ActiveHasOwner
    <3> QED BY <3>2, <3>3, <3>4
  <2> QED BY <2>1, <2>2, <2>3
<1> QED BY <1>5, <1>6, <1>7, <1>8, <1>9 DEF IInv

(* Every reachable state of the tracker is in the invariant.                 *)
THEOREM InductiveInvariant == Spec => []IInv
<1>1. IInv /\ [Next]_vars => IInv'
  <2> SUFFICES ASSUME IInv, [Next]_vars PROVE IInv'
    OBVIOUS
  <2>1. CASE Next
    BY <2>1, ListKeeps, RetireSteps, OtherSteps, SMTT(60) DEF Next
  <2>2. CASE UNCHANGED vars
    BY <2>2, ZenonT(60) DEF vars, IInv, TypeOK, IdsFresh, RecordedOnce, ActiveHasOwner,
       HistoryIsRecent, LogSorted, RingFresh, Nth, Expired
  <2> QED BY <2>1, <2>2
<1> QED BY InitIInv, <1>1, PTL DEF Spec

(* Type correctness of the tracker: its ring indices stay in range.          *)
THEOREM TypeCorrect == Spec => []TypeOK
BY InductiveInvariant, PTL DEF IInv

(* dropStalled, Fail, Done and finish race for a record; every connection    *)
(* ends up in the history once, whichever of them gets there first.          *)
THEOREM NoneLostOrDoubled == Spec => []RecordedOnce
BY InductiveInvariant, PTL DEF IInv

(* The active map has no ghosts and no established connection leaves it      *)
(* before its finish.                                                        *)
THEOREM NoGhosts == Spec => []ActiveHasOwner
BY InductiveInvariant, PTL DEF IInv

(* For every capacity the ring arithmetic of pushRing and pruneRing keeps    *)
(* the newest records, in order.                                             *)
THEOREM RingIsSuffix == Spec => []HistoryIsRecent
BY InductiveInvariant, PTL DEF IInv

(* List never returns a record older than maxAge.                            *)
THEOREM ListIsFresh == Spec => ListedIsFresh
<1>1. IInv /\ [Next]_vars =>
        [sweep.tab = "list" /\ sweep' = Free =>
           \A i \in 0 .. ringCount - 1 : ~Expired(sweep.at, i)]_vars
  BY DEF IInv, RingFresh
<1> QED BY <1>1, InductiveInvariant, PTL DEF Spec, ListedIsFresh

------------------------------------------------------------------------------
(* The tracker implements History.  The ring, read from its head, is a      *)
(* sequence.                                                                *)
LEMMA HistoryRead ==
  ASSUME TypeOK
  PROVE  /\ history \in Seq(Slot) /\ Len(history) = ringCount /\ ringCount \in Nat
         /\ \A i \in 1 .. ringCount : history[i] = Nth(i - 1)
<1>1. /\ ringCount \in 0 .. Capacity /\ ringHead \in 0 .. Capacity - 1
      /\ Capacity \in Nat \ {0} /\ ring \in [0 .. Capacity - 1 -> Slot]
  BY TrackerAssumption DEF TypeOK
<1>2. ASSUME NEW i \in 1 .. ringCount PROVE Nth(i - 1) \in Slot
  <2>1. i - 1 \in 0 .. Capacity
    BY <1>1
  <2>2. (ringHead + (i - 1)) % Capacity \in 0 .. Capacity - 1
    BY <1>1, <2>1, SlotRange
  <2> QED BY <1>1, <2>2 DEF Nth
<1> QED BY <1>1, <1>2, SMTT(30), SMTT(60) DEF history

(* A sequence without its d first elements, and with a new last one.         *)
LEMMA DropThenAppend ==
  ASSUME NEW S, NEW s \in Seq(S), NEW d \in 0 .. Len(s), NEW x \in S
  PROVE  /\ SubSeq(s, d + 1, Len(s)) = [i \in 1 .. Len(s) - d |-> s[d + i]]
         /\ Append(SubSeq(s, d + 1, Len(s)), x)
              = [i \in 1 .. Len(s) - d + 1 |-> IF i = Len(s) - d + 1 THEN x ELSE s[d + i]]
OBVIOUS

(* Steps that leave the ring alone leave the history alone.                  *)
LEMMA HistoryKept == UNCHANGED ringVars => history' = history
BY DEF ringVars, history, Nth

(* List prunes the history to what is young, as it is in order.              *)
LEMMA ListPrunes == IInv /\ List => H!Prunes
<1> SUFFICES ASSUME IInv, List PROVE H!Prunes
  OBVIOUS
<1> DEFINE k == Pruned(now)
<1> USE TrackerAssumption DEF Time
<1>1. TypeOK /\ TypeOK' /\ RingFresh'
  BY SMTT(30), SMTT(60), ListKeeps DEF IInv
<1>2. /\ UNCHANGED <<now, nextID, active>> /\ pruneRing(now)
      /\ sweep' = [held |-> TRUE, at |-> now, tab |-> "list"]
  BY DEF List
<1>3. k \in 0 .. ringCount /\ \A i \in 0 .. k - 1 : Expired(now, i)
  BY <1>1, PrunedStops, Zenon DEF TypeOK
<1>4. /\ ringCount' = ringCount - k
      /\ \A i \in 0 .. ringCount' - 1 : Nth(i)' = Nth(k + i)
  BY SMTT(30), SMTT(60), <1>1, <1>2, PruneEffect
<1>5. \A i \in 0 .. ringCount' - 1 : ~(now - (Nth(i)').closedAt > MaxAge)
  BY <1>1, <1>2 DEF RingFresh, Expired
<1> HIDE DEF k
<1>6. /\ history \in Seq(Slot) /\ Len(history) = ringCount /\ ringCount \in Nat
      /\ \A i \in 1 .. ringCount : history[i] = Nth(i - 1)
  BY <1>1, HistoryRead
<1>7. history' = [i \in 1 .. ringCount - k |-> Nth(k + (i - 1))]
  <2>1. history' = [i \in 1 .. ringCount' |-> Nth(i - 1)']
    BY DEF history
  <2>2. ASSUME NEW i \in 1 .. ringCount' PROVE Nth(i - 1)' = Nth(k + (i - 1))
    BY <1>3, <1>4, <1>6, i - 1 \in 0 .. ringCount' - 1
  <2> QED BY <1>4, <2>1, <2>2, Zenon
<1>8. history' = SubSeq(history, k + 1, Len(history))
  <2>1. SubSeq(history, k + 1, Len(history)) = [i \in 1 .. ringCount - k |-> history[k + i]]
    <3>1. k \in 0 .. Len(history)
      BY <1>3, <1>6
    <3>2. SubSeq(history, k + 1, Len(history))
            = [i \in 1 .. Len(history) - k |-> history[k + i]]
      BY ONLY <1>6, <3>1, SMTT(30), SMTT(60)
    <3> QED BY ONLY <1>6, <3>2, Zenon
  <2>2. ASSUME NEW i \in 1 .. ringCount - k PROVE history[k + i] = Nth(k + (i - 1))
    <3>1. k + i \in 1 .. ringCount /\ (k + i) - 1 = k + (i - 1)
      BY SMTT(30), SMTT(60), <1>3, <1>6
    <3> QED BY <1>6, <3>1
  <2> QED BY <1>7, <2>1, <2>2, Zenon
<1>9. ASSUME NEW i \in 1 .. ringCount
      PROVE  now - history[i].closedAt > MaxAge <=> i <= k
  <2>1. CASE i <= k
    <3>1. i - 1 \in 0 .. k - 1
      BY <1>3, <1>6, <2>1
    <3>2. Expired(now, i - 1) /\ history[i] = Nth(i - 1)
      BY <1>3, <1>6, <3>1
    <3> QED BY ONLY <2>1, <3>2, Zenon DEF Expired
  <2>2. CASE ~(i <= k)
    <3>1. PICK j \in 0 .. ringCount' - 1 : k + j = i - 1
      <4>1. k \in Nat /\ i \in Nat /\ ringCount \in Nat /\ i <= ringCount /\ ~(i <= k)
            /\ ringCount' = ringCount - k
        BY <1>3, <1>4, <1>6, <2>2
      <4>2. i - 1 - k \in 0 .. ringCount' - 1 /\ k + (i - 1 - k) = i - 1
        BY ONLY <4>1
      <4> QED BY ONLY <4>2, Zenon
    <3>2. Nth(j)' = Nth(i - 1)
      BY ONLY <1>4, <3>1, Zenon
    <3>3. ~(now - (Nth(j)').closedAt > MaxAge)
      BY ONLY <1>5, <3>1, Zenon
    <3>4. history[i] = Nth(i - 1)
      BY <1>6
    <3> QED BY ONLY <2>2, <3>2, <3>3, <3>4, Zenon
  <2> QED BY <2>1, <2>2
<1>10. k \in 0 .. Len(history) /\ \A i \in 1 .. Len(history) :
          now - history[i].closedAt > MaxAge <=> i <= k
  BY ONLY <1>3, <1>6, <1>9, Zenon
<1> QED BY ONLY <1>2, <1>8, <1>10, Zenon DEF H!Prunes, H!Without, H!Old

(* Retiring a connection appends it to the history.                          *)
LEMMA RetireEnds ==
  ASSUME IInv, NEW id \in active, NEW t \in Time, Retire(id, t),
         t = IF sweep.held THEN sweep.at ELSE now,
         UNCHANGED <<now, sweep, nextID>>
  PROVE  t \in 0 .. now /\ H!Ends(id, t)
<1> DEFINE e == [id |-> id, closedAt |-> t]
           L == Len(log)
<1> USE TrackerAssumption DEF Time
<1>1. TypeOK /\ HistoryIsRecent /\ LogSorted /\ now \in Nat /\ id \in Ids /\ L \in Nat
  BY SMTT(30), SMTT(60) DEF IInv, TypeOK
<1>2. e \in Slot /\ pushRing(e) /\ active' = active \ {id}
  BY <1>1 DEF Slot, Entry, Retire
<1> HIDE DEF e
<1>3. PICK d \in 0 .. ringCount :
        /\ ringCount' = ringCount - d + 1
        /\ \A i \in 0 .. ringCount' - 1 :
             Nth(i)' = IF i = ringCount' - 1 THEN e ELSE Nth(d + i)
        /\ (\A i \in 0 .. d - 1 : Expired(now, i)) \/ ringCount' = Capacity
  BY <1>1, <1>2, PushEffect, ZenonT(30)
<1>4. ringCount' \in 1 .. Capacity /\ ringCount \in 0 .. Capacity
  BY <1>1, <1>2, PushEffect DEF TypeOK
<1>5. /\ history \in Seq(Slot) /\ Len(history) = ringCount /\ ringCount \in Nat
      /\ \A i \in 1 .. ringCount : history[i] = Nth(i - 1)
  BY ZenonT(30), <1>1, HistoryRead
<1>6. /\ d \in 0 .. ringCount /\ ringCount \in Nat
      /\ ringCount' = ringCount - d + 1
  BY ZenonT(30), <1>3, <1>5
<1>7. t \in 0 .. now
  BY SMTT(30), SMTT(60), <1>1 DEF LogSorted
<1>8. ASSUME NEW i \in 1 .. ringCount PROVE history[i].closedAt <= t
  <2>1. i - 1 \in 0 .. ringCount - 1 /\ L - ringCount + 1 + (i - 1) \in 1 .. L
    BY <1>1, <1>5 DEF HistoryIsRecent
  <2>2. history[i] = log[L - ringCount + 1 + (i - 1)]
    BY ZenonT(30), <1>1, <1>5, <2>1 DEF HistoryIsRecent
  <2> QED BY SMTT(30), SMTT(60), <1>1, <2>1, <2>2 DEF LogSorted
<1>9. history' = Append(SubSeq(history, d + 1, Len(history)), e)
  <2>1. Append(SubSeq(history, d + 1, Len(history)), e)
          = [i \in 1 .. ringCount - d + 1 |-> IF i = ringCount - d + 1 THEN e ELSE history[d + i]]
    <3>1. d \in 0 .. Len(history)
      BY ONLY <1>5, <1>6, ZenonT(30)
    <3>2. Append(SubSeq(history, d + 1, Len(history)), e)
            = [i \in 1 .. Len(history) - d + 1 |->
                 IF i = Len(history) - d + 1 THEN e ELSE history[d + i]]
      BY ONLY SMTT(30), SMTT(60), <1>2, <1>5, <3>1, DropThenAppend
    <3> QED BY ONLY ZenonT(30), SMTT(30), <1>5, <3>2
  <2>2. history' = [i \in 1 .. ringCount' |-> Nth(i - 1)']
    BY DEF history
  <2>3. ASSUME NEW i \in 1 .. ringCount'
        PROVE  Nth(i - 1)' = IF i = ringCount - d + 1 THEN e ELSE history[d + i]
    <3>1. i - 1 \in 0 .. ringCount' - 1 /\ (i - 1 = ringCount' - 1 <=> i = ringCount - d + 1)
      BY ONLY <1>6, i \in 1 .. ringCount', SMTT(30), SMTT(60)
    <3>2. CASE i = ringCount - d + 1
      BY ONLY <1>3, <3>1, <3>2, SMTT(30), SMTT(60)
    <3>3. CASE i # ringCount - d + 1
      <4>1. d + i \in 1 .. ringCount /\ (d + i) - 1 = d + (i - 1)
        BY ONLY <1>6, i \in 1 .. ringCount', <3>3, SMTT(30), SMTT(60)
      <4>2. Nth(i - 1)' = Nth(d + (i - 1))
        BY ONLY <1>3, <3>1, <3>3, SMTT(30), SMTT(60)
      <4> QED BY ONLY <1>5, <3>3, <4>1, <4>2, SMTT(30), SMTT(60)
    <3> QED BY ZenonT(30), <3>2, <3>3
  <2> QED BY <1>3, <2>1, <2>2, <2>3, Zenon
<1>10. Len(history') = ringCount'
  BY ONLY <1>2, <1>4, <1>5, <1>6, <1>9, SMTT(30), SMTT(60)
<1>11. \/ \A i \in 1 .. d : now - history[i].closedAt > MaxAge
       \/ d = 1 /\ Len(history) = Capacity
  <2>1. CASE ringCount' = Capacity
    BY ONLY <1>4, <1>5, <1>6, <2>1, SMTT(30), SMTT(60)
  <2>2. CASE \A i \in 0 .. d - 1 : Expired(now, i)
    <3>1. ASSUME NEW i \in 1 .. d PROVE now - history[i].closedAt > MaxAge
      <4>1. i - 1 \in 0 .. d - 1 /\ i \in 1 .. ringCount
        BY ONLY <1>6, i \in 1 .. d, SMTT(30), SMTT(60)
      <4> QED BY ONLY <1>5, <2>2, <4>1, SMTT(30), SMTT(60) DEF Expired
    <3> QED BY ZenonT(30), <3>1
  <2> QED BY ZenonT(30), <1>3, <2>1, <2>2
<1>12. /\ Len(history') <= Capacity /\ d \in 0 .. Len(history)
       /\ t <= now /\ \A i \in 1 .. Len(history) : history[i].closedAt <= t
  BY ONLY <1>1, <1>4, <1>5, <1>6, <1>7, <1>8, <1>10, SMTT(30), SMTT(60)
<1> QED BY <1>2, <1>7, <1>9, <1>11, <1>12, ZenonT(30) DEF H!Ends, H!Without, H!Old, e

(* Every step of the tracker is a step of the history or changes nothing of  *)
(* it: an owner that finds its record gone, a sweep, an unlock.              *)
LEMMA StepImplements == IInv /\ [Next]_vars => [H!Next]_(H!vars)
<1> SUFFICES ASSUME IInv, [Next]_vars PROVE [H!Next]_(H!vars)
  OBVIOUS
<1> USE DEF H!Next, H!vars
<1>1. CASE Begin
  BY <1>1, HistoryKept, ZenonT(30) DEF Begin, H!Begins
<1>2. CASE Tick
  BY <1>2, HistoryKept, ZenonT(30) DEF Tick, H!Ticks
<1>3. CASE List
  BY <1>3, ListPrunes, Zenon
<1>4. CASE \/ ActiveByProto \/ Unlock \/ UNCHANGED vars
           \/ \E id \in Ids : Done(id) \/ Close(id)
  <2>1. UNCHANGED <<now, nextID, active, ring, ringHead, ringCount, log>>
    BY <1>4, ZenonT(30) DEF ActiveByProto, Unlock, Done, Close, vars, ringVars
  <2> QED BY <2>1, HistoryKept, Zenon DEF ringVars
<1>5. ASSUME NEW id \in Ids, Fail(id) \/ finish(id) \/ dropStalled(id)
      PROVE  [H!Next]_(H!vars)
  <2>1. UNCHANGED <<now, sweep, nextID>>
    BY <1>5 DEF Fail, finish, dropStalled
  <2>2. CASE UNCHANGED <<active, dialing, ringVars>>
    BY <2>1, <2>2, HistoryKept, Zenon
  <2>3. ASSUME NEW t \in Time, t = IF sweep.held THEN sweep.at ELSE now,
               id \in active, Retire(id, t)
        PROVE  [H!Next]_(H!vars)
    <3>1. t \in 0 .. now /\ H!Ends(id, t)
      BY <2>1, <2>3, RetireEnds, SMTT(30), SMTT(60)
    <3> QED BY <2>3, <3>1, Zenon
  <2>4. CASE Fail(id) \/ finish(id)
    <3>1. ~sweep.held /\ RetireActive(id) /\ now \in Time
      BY <2>4 DEF Fail, finish, MutexFree, IInv, TypeOK
    <3> QED BY SMTT(30), SMTT(60), <3>1, <2>2, <2>3 DEF RetireActive
  <2>5. CASE dropStalled(id)
    <3>1. sweep.held /\ Retire(id, sweep.at) /\ id \in active /\ sweep.at \in Time
      BY <2>5 DEF dropStalled, Stalled, IInv, TypeOK, Sweeps
    <3> QED BY SMTT(30), SMTT(60), <3>1, <2>3
  <2> QED BY SMTT(30), SMTT(60), <1>5, <2>4, <2>5
<1> QED BY <1>1, <1>2, <1>3, <1>4, <1>5, ZenonT(30) DEF Next

(* The tracker is a bounded history, for every capacity, age and number of   *)
(* connections (conntrack.go: Begin, pushRing, pruneRing, dropStalled).      *)
THEOREM TrackerIsHistory == Spec => ImplementsHistory
<1>1. Init => H!Init
  <2> SUFFICES ASSUME Init PROVE H!Init
    OBVIOUS
  <2>1. history = <<>>
    BY DEF Init, history
  <2> QED BY SMTT(30), SMTT(60), <2>1 DEF Init, H!Init
<1> QED BY <1>1, StepImplements, InductiveInvariant, PTL DEF Spec, ImplementsHistory, H!Spec
==============================================================================
