------------------------------- MODULE History -------------------------------
(***************************************************************************)
(* What the connection tracker promises the Web UI: a connection is active *)
(* from its Begin until it moves, in one step, to the end of the history,  *)
(* which is in the order of closedAt.  A record leaves the history at the  *)
(* old end only, when it is older than MaxAge or when a new record finds   *)
(* the history full, and never returns.                                    *)
(*                                                                         *)
(* ConnTracker implements this.                                            *)
(***************************************************************************)
EXTENDS Integers, Sequences

CONSTANTS
  Capacity,   \* records the history holds
  MaxAge      \* maxAge, in clock ticks

VARIABLES
  now,      \* the clock
  begun,    \* connections begun; the last one has this number
  active,   \* connections that are not over
  hist      \* finished connections, oldest first

vars == <<now, begun, active, hist>>

Init ==
  /\ now = 0
  /\ begun = 0
  /\ active = {}
  /\ hist = <<>>

Old(e) == now - e.closedAt > MaxAge

(* The history without its d oldest records. *)
Without(d) == SubSeq(hist, d + 1, Len(hist))

Begins ==
  /\ begun' = begun + 1
  /\ active' = active \union {begun + 1}
  /\ UNCHANGED <<now, hist>>

(* A full history makes room by its oldest record. *)
Ends(id, t) ==
  /\ id \in active
  /\ active' = active \ {id}
  /\ t <= now /\ \A i \in 1 .. Len(hist) : hist[i].closedAt <= t
  /\ \E d \in 0 .. Len(hist) :
       /\ hist' = Append(Without(d), [id |-> id, closedAt |-> t])
       /\ Len(hist') <= Capacity
       /\ \/ \A i \in 1 .. d : Old(hist[i])
          \/ d = 1 /\ Len(hist) = Capacity
  /\ UNCHANGED <<now, begun>>

Prunes ==
  /\ \E d \in 0 .. Len(hist) :
       /\ hist' = Without(d)
       /\ \A i \in 1 .. Len(hist) : Old(hist[i]) <=> i <= d
  /\ UNCHANGED <<now, begun, active>>

Ticks ==
  /\ now' = now + 1
  /\ UNCHANGED <<begun, active, hist>>

Next ==
  \/ Begins \/ Prunes \/ Ticks
  \/ \E id \in active, t \in 0 .. now : Ends(id, t)

Spec == Init /\ [][Next]_vars
==============================================================================
