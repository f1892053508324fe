----------------------------- MODULE ConnTracker -----------------------------
(***************************************************************************)
(* The connection tracker behind the Web UI (conntrack.go): a map of       *)
(* active connections and a ring buffer of finished ones, both under one   *)
(* mutex, and the connections that report to it: trackDial (dialer.go)     *)
(* calls Begin and then Fail or Done, the trackedConn it returns calls     *)
(* finish on its first Close.                                              *)
(*                                                                         *)
(* Begin, Done, Fail and finish are one critical section each.  List and   *)
(* ActiveByProto loop over the active map (dropStalled) with the mutex     *)
(* held: one step per iteration, in any order, as Go's map iteration.      *)
(***************************************************************************)
EXTENDS Integers, Sequences

CONSTANTS
  Capacity,   \* slots of the ring buffer
  MaxAge,     \* maxAge, in clock ticks
  MaxConns,   \* bound: connections begun
  MaxTime     \* bound: clock ticks

ASSUME TrackerAssumption ==
  /\ Capacity \in Nat \ {0}
  /\ MaxAge \in Nat /\ MaxConns \in Nat /\ MaxTime \in Nat

VARIABLES
  now,        \* the clock
  nextID,     \* t.nextID
  active,     \* ids in t.active
  dialing,    \* ids whose record has status StateDialing
  startedAt,  \* record field
  ring, ringHead, ringCount,
  sweep,      \* the List or ActiveByProto call that holds t.mu, or Free
  phase,      \* what the owner of each connection is doing
  log         \* history variable: every record ever pushed, in order

ringVars == <<ring, ringHead, ringCount, log>>
vars == <<now, nextID, active, dialing, startedAt, ring, ringHead, ringCount,
          sweep, phase, log>>

Ids == 1 .. MaxConns
Time == 0 .. MaxTime

(* A record of the history.  Status, addresses, byte counts and the reason  *)
(* of a failure are carried along and not told apart here.                  *)
Entry == [id : Ids, closedAt : Time]
Slot == Entry \union {[id |-> 0, closedAt |-> 0]}

Free == [held |-> FALSE, at |-> 0, tab |-> "none"]
Sweeps == [held : BOOLEAN, at : Time, tab : {"none", "list", "count"}]

Phases == {"new", "dialing", "open", "closing", "over"}

TypeOK ==
  /\ now \in Time
  /\ nextID \in 0 .. MaxConns
  /\ active \subseteq Ids
  /\ dialing \subseteq active
  /\ startedAt \in [Ids -> Time]
  /\ ring \in [0 .. Capacity - 1 -> Slot]
  /\ ringHead \in 0 .. Capacity - 1
  /\ ringCount \in 0 .. Capacity
  /\ sweep \in Sweeps
  /\ phase \in [Ids -> Phases]
  /\ log \in Seq(Entry)

Init ==
  /\ now = 0
  /\ nextID = 0
  /\ active = {}
  /\ dialing = {}
  /\ startedAt = [i \in Ids |-> 0]
  /\ ring = [s \in 0 .. Capacity - 1 |-> [id |-> 0, closedAt |-> 0]]
  /\ ringHead = 0
  /\ ringCount = 0
  /\ sweep = Free
  /\ phase = [i \in Ids |-> "new"]
  /\ log = <<>>

------------------------------------------------------------------------------
(* The ring buffer.  Nth(i) is the i-th oldest record, from 0.              *)

Nth(i) == ring[(ringHead + i) % Capacity]

(* pruneRing at time t: the number of records dropped from the old end, up  *)
(* to the first that is young enough.                                       *)
Expired(t, i) == t - Nth(i).closedAt > MaxAge

Pruned(t) ==
  CHOOSE k \in 0 .. ringCount :
    /\ \A i \in 0 .. k - 1 : Expired(t, i)
    /\ k < ringCount => ~Expired(t, k)

(* Mutant: an if where the code has a loop. *)
pruneRingOnce(t) ==
  LET k == IF Pruned(t) = 0 THEN 0 ELSE 1
  IN  /\ ringHead' = (ringHead + k) % Capacity
      /\ ringCount' = ringCount - k
      /\ UNCHANGED <<ring, log>>

pruneRing(t) ==
  /\ ringHead' = (ringHead + Pruned(t)) % Capacity
  /\ ringCount' = ringCount - Pruned(t)
  /\ UNCHANGED <<ring, log>>

(* Mutant: a full ring does not move its head. *)
pushRingKeepsHead(e) ==
  LET head == (ringHead + Pruned(now)) % Capacity
      count == ringCount - Pruned(now)
  IN  /\ ring' = [ring EXCEPT ![(head + count) % Capacity] = e]
      /\ ringHead' = head
      /\ ringCount' = IF count = Capacity THEN count ELSE count + 1
      /\ log' = Append(log, e)

(* pushRing: prune, then append or overwrite the oldest.                    *)
pushRing(e) ==
  LET head == (ringHead + Pruned(now)) % Capacity
      count == ringCount - Pruned(now)
  IN  /\ \/ /\ count = Capacity
            /\ ring' = [ring EXCEPT ![head] = e]
            /\ ringHead' = (head + 1) % Capacity
            /\ ringCount' = count
         \/ /\ count < Capacity
            /\ ring' = [ring EXCEPT ![(head + count) % Capacity] = e]
            /\ ringHead' = head
            /\ ringCount' = count + 1
      /\ log' = Append(log, e)

(* Take id out of the active map and append it to the history.              *)
Retire(id, t) ==
  /\ active' = active \ {id}
  /\ dialing' = dialing \ {id}
  /\ pushRing([id |-> id, closedAt |-> t])

(* Fail, dropStalled and finish act only on a record that is still active.  *)
RetireActive(id) ==
  \/ id \in active /\ Retire(id, now)
  \/ id \notin active /\ UNCHANGED <<active, dialing, ringVars>>

------------------------------------------------------------------------------
(* The connections.                                                         *)

MutexFree == ~sweep.held

Begin ==
  /\ MutexFree
  /\ nextID < MaxConns
  /\ nextID' = nextID + 1
  /\ active' = active \union {nextID + 1}
  /\ dialing' = dialing \union {nextID + 1}
  /\ startedAt' = [startedAt EXCEPT ![nextID + 1] = now]
  /\ phase' = [phase EXCEPT ![nextID + 1] = "dialing"]
  /\ UNCHANGED <<now, sweep, ringVars>>

(* Mutant: the record is not looked up again. *)
FailUnchecked(id) ==
  /\ MutexFree
  /\ phase[id] = "dialing"
  /\ phase' = [phase EXCEPT ![id] = "over"]
  /\ Retire(id, now)
  /\ UNCHANGED <<now, nextID, startedAt, sweep>>

(* The dial failed. *)
Fail(id) ==
  /\ MutexFree
  /\ phase[id] = "dialing"
  /\ phase' = [phase EXCEPT ![id] = "over"]
  /\ RetireActive(id)
  /\ UNCHANGED <<now, nextID, startedAt, sweep>>

(* The dial succeeded.  If dropStalled took the record meanwhile, the       *)
(* connection goes on untracked and the tracker hears no more of it.        *)
Done(id) ==
  /\ MutexFree
  /\ phase[id] = "dialing"
  /\ phase' = [phase EXCEPT ![id] = IF id \in active THEN "open" ELSE "over"]
  /\ dialing' = dialing \ {id}
  /\ UNCHANGED <<now, nextID, active, startedAt, sweep, ringVars>>

(* trackedConn.Close, first call: the swap of closed, the close of the base *)
(* connection and the look at the counters.  Later calls do not come here.  *)
Close(id) ==
  /\ phase[id] = "open"
  /\ phase' = [phase EXCEPT ![id] = "closing"]
  /\ UNCHANGED <<now, nextID, active, dialing, startedAt, sweep, ringVars>>

finish(id) ==
  /\ MutexFree
  /\ phase[id] = "closing"
  /\ phase' = [phase EXCEPT ![id] = "over"]
  /\ RetireActive(id)
  /\ UNCHANGED <<now, nextID, startedAt, sweep>>

------------------------------------------------------------------------------
(* List and ActiveByProto.                                                  *)

(* Mutant: List does not prune. *)
ListUnpruned ==
  /\ MutexFree
  /\ sweep' = [held |-> TRUE, at |-> now, tab |-> "list"]
  /\ UNCHANGED <<now, nextID, active, dialing, startedAt, phase, ringVars>>

List ==
  /\ MutexFree
  /\ sweep' = [held |-> TRUE, at |-> now, tab |-> "list"]
  /\ pruneRing(now)
  /\ UNCHANGED <<now, nextID, active, dialing, startedAt, phase>>

ActiveByProto ==
  /\ MutexFree
  /\ sweep' = [held |-> TRUE, at |-> now, tab |-> "count"]
  /\ UNCHANGED <<now, nextID, active, dialing, startedAt, phase, ringVars>>

(* Mutant: any record that old is taken for a stalled dial. *)
StalledAny(id) == id \in active /\ sweep.at - startedAt[id] > MaxAge

Stalled(id) == id \in dialing /\ sweep.at - startedAt[id] > MaxAge

dropStalled(id) ==
  /\ sweep.held
  /\ Stalled(id)
  /\ Retire(id, sweep.at)
  /\ UNCHANGED <<now, nextID, startedAt, sweep, phase>>

(* No stalled dial is left: the call copies what it returns and unlocks.    *)
Unlock ==
  /\ sweep.held
  /\ \A id \in Ids : ~Stalled(id)
  /\ sweep' = Free
  /\ UNCHANGED <<now, nextID, active, dialing, startedAt, phase, ringVars>>

Tick ==
  /\ now < MaxTime
  /\ now' = now + 1
  /\ UNCHANGED <<nextID, active, dialing, startedAt, sweep, phase, ringVars>>

Next ==
  \/ Begin
  \/ \E id \in Ids : Fail(id) \/ Done(id) \/ Close(id) \/ finish(id)
  \/ List
  \/ ActiveByProto
  \/ \E id \in Ids : dropStalled(id)
  \/ Unlock
  \/ Tick

Spec == Init /\ [][Next]_vars

------------------------------------------------------------------------------
(* No connection is lost and none is recorded twice: every id Begin gave    *)
(* out is either in the active map or was pushed to the history, once, even *)
(* when dropStalled and the end of a slow dial both reach for the record.   *)
RecordedOnce ==
  /\ \A i, j \in 1 .. Len(log) : log[i].id = log[j].id => i = j
  /\ \A i \in 1 .. Len(log) : log[i].id \notin active
  /\ \A id \in 1 .. nextID : id \in active \/ \E i \in 1 .. Len(log) : log[i].id = id

(* The active map holds no ghost: a record in it has an owner that will     *)
(* still call Fail, Done or finish, and an established tracked connection   *)
(* is in it until its finish, however long it lives.                        *)
ActiveHasOwner ==
  \A id \in Ids :
    /\ id \in active => phase[id] \in {"dialing", "open", "closing"}
    /\ phase[id] \in {"open", "closing"} => id \in active \ dialing

(* The ring holds the newest finished connections, oldest first: a suffix   *)
(* of everything pushed, and what is missing from it was pushed out by      *)
(* Capacity newer records or is older than MaxAge ("last 1000 connections / *)
(* 10 minutes", README.md).                                                 *)
HistoryIsRecent ==
  /\ ringCount <= Len(log)
  /\ \A i \in 0 .. ringCount - 1 : Nth(i) = log[Len(log) - ringCount + 1 + i]
  /\ \A j \in 1 .. Len(log) - ringCount :
       Len(log) - j >= Capacity \/ now - log[j].closedAt > MaxAge

(* When List copies the history, no record in the ring is older than MaxAge *)
(* at the time of the call: pruning stops at the first young record, which  *)
(* is right only because records are pushed in the order of closedAt.       *)
ListedIsFresh ==
  [][sweep.tab = "list" /\ sweep' = Free =>
       \A i \in 0 .. ringCount - 1 : ~Expired(sweep.at, i)]_vars

------------------------------------------------------------------------------
(* What List returns of the ring, from the oldest record. *)
history == [i \in 1 .. ringCount |-> Nth(i - 1)]

H == INSTANCE History WITH begun <- nextID, hist <- history

(* The tracker is a bounded history ("last 1000 connections / 10 minutes",  *)
(* README.md): through head, count and the slots of the ring, a record goes *)
(* from the active map to the end of the history in one step, and leaves it *)
(* in order and for no other reason than age or want of room.               *)
ImplementsHistory == H!Spec
==============================================================================
