-------------------------- MODULE ProxyServersProofs --------------------------
(***************************************************************************)
(* Proofs about ProxyServers: for any servers, connections and limit, the  *)
(* slots, the access lines and the WaitGroups are exact, the types are     *)
(* right, and a finished drain of the HTTP proxy leaves one connection at  *)
(* most.                                                                   *)
(***************************************************************************)
EXTENDS ProxyServers, FiniteSetTheorems, TLAPS

(* The types of what the counters depend on. *)
Types ==
  /\ server \in [Conns -> Servers]
  /\ loop \in [Servers -> {"accept", "backoff", "got", "slotted", "exit"}]
  /\ got \in [Servers -> Conns \union {NoConn}]
  /\ slots \in Int
  /\ pc \in [Conns -> {"new", "queued", "taken", "handshake", "dial", "opened", "relay",
                       "send", "respond", "closeUp", "line", "closing", "leaving", "gone"}]
  /\ open \in [Conns -> BOOLEAN]
  /\ up \in [Conns -> {"none", "open", "closed"}]
  /\ guard \in [Conns -> {"off", "watch", "fired", "half", "line"}]
  /\ lines \in [Conns -> Nat]
  /\ count \in [Servers -> Int]

typed == <<server, loop, got, slots, pc, open, up, guard, lines, count>>

LEMMA ServersFacts == \A s \in Servers : Kinds[s] \in {"socks5", "http"}
  BY ProxyAssumption DEF Servers

LEMMA InitTypes == Init => Types
  BY DEF Init, Types

(* Accepting keeps the types. *)
LEMMA AcceptTypes ==
  ASSUME Types, NEW s \in Servers, AcceptLoop(s)
  PROVE  Types'
  <1> USE DEF Types, Loops, Goes, connVars, mainVars
  <1>1. CASE AcceptReturns(s)
    BY <1>1 DEF AcceptReturns
  <1>2. CASE AcceptFails(s) \/ BackoffOver(s) \/ AcceptClosed(s)
    <2>1. /\ loop' \in [Servers -> {"accept", "backoff", "got", "slotted", "exit"}]
          /\ UNCHANGED <<server, got, slots, pc, open, up, guard, lines, count>>
      BY <1>2 DEF AcceptFails, BackoffOver, AcceptClosed
    <2> QED
      BY <2>1
  <1>3. CASE Acquires(s)
    <2>1. /\ loop' \in [Servers -> {"accept", "backoff", "got", "slotted", "exit"}]
          /\ UNCHANGED <<server, got, pc, up, guard, lines, count>>
      BY <1>3 DEF Acquires
    <2>2. slots' \in Int
      BY <1>3 DEF Acquires, tryAcquire
    <2>3. open' \in [Conns -> BOOLEAN]
      BY <1>3, Zenon DEF Acquires, tryAcquire
    <2> QED
      BY SMTT(30), SMTT(60), <2>1, <2>2, <2>3
  <1>4. CASE Refuses(s)
    <2>1. /\ loop' \in [Servers -> {"accept", "backoff", "got", "slotted", "exit"}]
          /\ got' \in [Servers -> Conns \union {NoConn}]
          /\ UNCHANGED <<server, slots, open, up, guard, lines, count>>
      BY <1>4 DEF Refuses
    <2>2. pc' \in [Conns -> {"new", "queued", "taken", "handshake", "dial", "opened", "relay",
                       "send", "respond", "closeUp", "line", "closing", "leaving", "gone"}]
      BY ZenonT(30), <1>4 DEF Refuses
    <2> QED
      BY <2>1, <2>2
  <1>5. CASE Hands(s)
    <2>1. /\ loop' \in [Servers -> {"accept", "backoff", "got", "slotted", "exit"}]
          /\ got' \in [Servers -> Conns \union {NoConn}]
          /\ UNCHANGED <<server, slots, open, up, guard, lines>>
      BY <1>5 DEF Hands
    <2>2. pc' \in [Conns -> {"new", "queued", "taken", "handshake", "dial", "opened", "relay",
                       "send", "respond", "closeUp", "line", "closing", "leaving", "gone"}]
      BY ZenonT(30), <1>5 DEF Hands
    <2>3. count' \in [Servers -> Int]
      BY SMTT(30), SMTT(60), <1>5 DEF Hands
    <2> QED
      BY SMTT(30), SMTT(60), <2>1, <2>2, <2>3
  <1> QED
    BY ZenonT(30), SMTT(30), <1>1, <1>2, <1>3, <1>4, <1>5 DEF AcceptLoop

(* Handlers keep the types. *)
LEMMA HandlerTypes ==
  ASSUME Types, NEW c \in Conns, Connects(c) \/ BacklogReset(c) \/ Handler(c)
  PROVE  Types'
  <1> USE DEF Types, Goes, mainVars
  <1>1. CASE Connects(c) \/ BacklogReset(c) \/ HandshakeEnds(c) \/ Requests(c) \/ Forwarded(c)
             \/ RequestEnds(c)
    BY <1>1 DEF Connects, BacklogReset, HandshakeEnds, Requests, Forwarded, RequestEnds
  <1>2. CASE DialFails(c) \/ Logs(c)
    BY <1>2 DEF DialFails, Logs
  <1>3. CASE OpensSocks(c)
    BY <1>3 DEF OpensSocks
  <1>4. CASE CountsRelay(c)
    BY <1>4 DEF CountsRelay
  <1>5. CASE OpensConnect(c)
    BY <1>5 DEF OpensConnect
  <1>6. CASE OpensRequest(c)
    BY <1>6 DEF OpensRequest
  <1>7. CASE RelayOver(c) \/ \E d \in Directions : CopyEnds(c, d)
    BY <1>7 DEF RelayOver, CopyEnds
  <1>8. CASE ClosesUp(c)
    BY <1>8 DEF ClosesUp, closeUp
  <1>9. CASE ClosesClient(c)
    BY <1>9 DEF ClosesClient, closeClient
  <1>10. CASE Leaves(c)
    BY SMTT(30), SMTT(60), <1>10 DEF Leaves
  <1> QED
    BY ZenonT(30), SMTT(30), <1>1, <1>2, <1>3, <1>4, <1>5, <1>6, <1>7, <1>8, <1>9, <1>10 DEF Handler

(* Idle guards keep the types. *)
LEMMA GuardTypes ==
  ASSUME Types, NEW c \in Conns, IdleGuard(c)
  PROVE  Types'
  <1> USE DEF Types, Guards, mainVars
  <1>1. CASE Stalls(c) \/ Moves(c)
    BY <1>1 DEF Stalls, Moves
  <1>2. CASE GuardFires(c) \/ GuardStops(c)
    BY <1>2 DEF GuardFires, GuardStops
  <1>3. CASE GuardClosesClient(c)
    BY <1>3 DEF GuardClosesClient, closeClient
  <1>4. CASE GuardClosesUp(c)
    BY <1>4 DEF GuardClosesUp, closeUp
  <1>5. CASE GuardLogs(c)
    BY SMTT(30), SMTT(60), <1>5 DEF GuardLogs
  <1> QED
    BY ZenonT(30), SMTT(30), <1>1, <1>2, <1>3, <1>4, <1>5 DEF IdleGuard

(* Shutdown touches none of it. *)
LEMMA ShutdownKeeps == Shutdown \/ UNCHANGED vars => UNCHANGED typed
  BY SMTT(30), SMTT(60) DEF Shutdown, Signal, DrainDeadline, Exits, ClosesListener, CloseFails,
     Returned,
     WaitReturns, Drained, TimesOut, connVars, vars, typed

------------------------------------------------------------------------------
(* Steps of a connection leave the others alone.                            *)

Same(x) ==
  /\ pc'[x] = pc[x] /\ open'[x] = open[x] /\ up'[x] = up[x]
  /\ guard'[x] = guard[x] /\ lines'[x] = lines[x]

ConnStep(c) == Connects(c) \/ BacklogReset(c) \/ Handler(c) \/ IdleGuard(c)

LEMMA OthersKept ==
  ASSUME Types, NEW c \in Conns, ConnStep(c)
  PROVE  UNCHANGED <<server, loop, got>> /\ \A x \in Conns \ {c} : Same(x)
  <1> USE DEF Types, Goes, Guards, Same
  <1>1. CASE Connects(c) \/ BacklogReset(c)
    BY SMTT(30), SMTT(60), <1>1 DEF Connects, BacklogReset
  <1>2. CASE HandshakeEnds(c) \/ Requests(c) \/ Forwarded(c) \/ RequestEnds(c)
    BY <1>2 DEF HandshakeEnds, Requests, Forwarded, RequestEnds
  <1>3. CASE DialFails(c) \/ Logs(c)
    BY SMTT(30), SMTT(60), <1>3 DEF DialFails, Logs
  <1>4. CASE OpensSocks(c) \/ CountsRelay(c) \/ OpensConnect(c) \/ OpensRequest(c)
    BY <1>4 DEF OpensSocks, CountsRelay, OpensConnect, OpensRequest
  <1>5. CASE RelayOver(c) \/ \E d \in Directions : CopyEnds(c, d)
    BY <1>5 DEF RelayOver, CopyEnds
  <1>6. CASE ClosesUp(c) \/ ClosesClient(c) \/ Leaves(c)
    BY <1>6 DEF ClosesUp, closeUp, ClosesClient, closeClient, Leaves
  <1>7. CASE Stalls(c) \/ Moves(c) \/ GuardFires(c) \/ GuardStops(c)
    BY SMTT(30), SMTT(60), <1>7 DEF Stalls, Moves, GuardFires, GuardStops
  <1>8. CASE GuardClosesClient(c) \/ GuardClosesUp(c) \/ GuardLogs(c)
    BY ZenonT(30), SMTT(30), <1>8 DEF GuardClosesClient, closeClient, GuardClosesUp, closeUp, GuardLogs
  <1> QED
    BY ZenonT(30), <1>1, <1>2, <1>3, <1>4, <1>5, <1>6, <1>7, <1>8
       DEF ConnStep, Handler, IdleGuard

(* Steps of an accept loop change the place of one connection at most, and  *)
(* take a slot for it.                                                      *)
LEMMA AcceptKeeps ==
  ASSUME Types, NEW s \in Servers, AcceptLoop(s)
  PROVE  UNCHANGED <<server, up, guard, lines>>
  BY SMTT(30), SMTT(60) DEF AcceptLoop, AcceptReturns, AcceptFails, BackoffOver, AcceptClosed,
     Acquires,
     Refuses, Hands, connVars

------------------------------------------------------------------------------
(* The access line.                                                         *)

Before == {"new", "queued", "taken", "handshake", "dial"}
After == {"closing", "leaving", "gone"}
Requesting == {"send", "respond", "closeUp"}

(* Of a closed upstream, one closer owes the line or it is written.          *)
LineOK(c) ==
  /\ up[c] = "none" => /\ pc[c] \in Before \union After /\ guard[c] = "off"
                       /\ lines[c] <= 1
                       /\ pc[c] \in Before => lines[c] = 0
  /\ up[c] = "open" => /\ pc[c] \in {"opened", "relay"} \union Requesting
                       /\ lines[c] = 0 /\ guard[c] # "line"
                       /\ pc[c] \notin Requesting => guard[c] = "off"
  /\ up[c] = "closed" => /\ pc[c] \in Requesting \union {"line"} \union After
                         /\ \/ pc[c] = "line" /\ guard[c] # "line" /\ lines[c] = 0
                            \/ pc[c] # "line" /\ guard[c] = "line" /\ lines[c] = 0
                            \/ pc[c] # "line" /\ guard[c] # "line" /\ lines[c] = 1
  /\ pc[c] = "opened" => Kind(c) = "socks5"

LEMMA LineStep ==
  ASSUME Types, NEW c \in Conns, LineOK(c), ConnStep(c)
  PROVE  LineOK(c)'
  <1> USE DEF Types, Goes, Guards, LineOK, Before, After, Requesting, Kind
  <1>1. CASE Connects(c) \/ BacklogReset(c)
    BY ZenonT(30), SMTT(30), <1>1 DEF Connects, BacklogReset
  <1>2. CASE HandshakeEnds(c) \/ Requests(c)
    BY SMTT(30), SMTT(60), <1>2 DEF HandshakeEnds, Requests
  <1>3. CASE Forwarded(c) \/ RequestEnds(c)
    BY ZenonT(30), SMTT(30), <1>3 DEF Forwarded, RequestEnds
  <1>4. CASE DialFails(c)
    BY <1>4 DEF DialFails
  <1>5. CASE Logs(c)
    BY <1>5 DEF Logs
  <1>6. CASE OpensSocks(c)
    BY <1>6 DEF OpensSocks
  <1>7. CASE CountsRelay(c)
    BY SMTT(30), SMTT(60), <1>7 DEF CountsRelay
  <1>8. CASE OpensConnect(c) \/ OpensRequest(c)
    BY SMTT(30), SMTT(60), <1>8 DEF OpensConnect, OpensRequest
  <1>9. CASE RelayOver(c)
    BY ZenonT(30), SMTT(30), <1>9 DEF RelayOver
  <1>10. CASE \E d \in Directions : CopyEnds(c, d)
    BY ZenonT(30), SMTT(30), <1>10 DEF CopyEnds
  <1>11. CASE ClosesUp(c)
    BY ZenonT(30), SMTT(30), <1>11 DEF ClosesUp, closeUp
  <1>12. CASE ClosesClient(c) \/ Leaves(c)
    BY ZenonT(90), SMTT(60), <1>12 DEF ClosesClient, Leaves
  <1>13. CASE Stalls(c) \/ Moves(c) \/ GuardFires(c) \/ GuardStops(c)
    BY SMTT(30), SMTT(60), <1>13 DEF Stalls, Moves, GuardFires, GuardStops
  <1>14. CASE GuardClosesClient(c)
    BY SMTT(30), SMTT(60), <1>14 DEF GuardClosesClient
  <1>15. CASE GuardClosesUp(c)
    BY SMTT(30), SMTT(60), <1>15 DEF GuardClosesUp, closeUp
  <1>16. CASE GuardLogs(c)
    BY SMTT(30), SMTT(60), <1>16 DEF GuardLogs
  <1> QED
    BY ZenonT(30), <1>1, <1>2, <1>3, <1>4, <1>5, <1>6, <1>7, <1>8, <1>9, <1>10, <1>11,
       <1>12, <1>13,
       <1>14, <1>15, <1>16 DEF ConnStep, Handler, IdleGuard

------------------------------------------------------------------------------
(* The accept loops.                                                        *)

(* A loop that was handed a connection has it for itself, and no slot for    *)
(* it yet in the first of its two places.                                    *)
HoldsOK(s) ==
  loop[s] \in {"got", "slotted"} =>
    /\ got[s] \in Conns /\ server[got[s]] = s /\ pc[got[s]] = "taken"
    /\ loop[s] = "got" => ~open[got[s]]

OpenOK(c) == open[c] => pc[c] \notin {"new", "queued", "leaving", "gone"}

(* Nothing but its accept loop moves a connection that was just accepted.   *)
LEMMA TakenWaits ==
  ASSUME Types, NEW c \in Conns, LineOK(c), pc[c] = "taken"
  PROVE  ~ConnStep(c)
  <1>1. guard[c] = "off"
    BY DEF Types, LineOK, Requesting, After
  <1> QED
    BY ZenonT(30), <1>1 DEF ConnStep, Connects, BacklogReset, Handler, IdleGuard,
       HandshakeEnds, Requests,
       DialFails, OpensSocks, CountsRelay, OpensConnect, OpensRequest, CopyEnds, RelayOver,
       Forwarded, RequestEnds, ClosesUp, Logs, ClosesClient, Leaves, Stalls, Moves,
       GuardFires, GuardStops, GuardClosesClient, GuardClosesUp, GuardLogs, Goes, Guards

Places ==
  /\ \A c \in Conns : LineOK(c) /\ OpenOK(c)
  /\ \A s \in Servers : HoldsOK(s)

LEMMA InitPlaces == Init => Places
  <1> SUFFICES ASSUME Init PROVE Places
    OBVIOUS
  <1>1. \A c \in Conns : LineOK(c)
    BY DEF Init, LineOK, Before, After, Requesting
  <1>2. \A c \in Conns : OpenOK(c)
    BY DEF Init, OpenOK
  <1>3. \A s \in Servers : HoldsOK(s)
    BY SMTT(30), SMTT(60) DEF Init, HoldsOK
  <1> QED
    BY <1>1, <1>2, <1>3 DEF Places

LEMMA OpenStep ==
  ASSUME Types, NEW c \in Conns, OpenOK(c), ConnStep(c), LineOK(c)
  PROVE  OpenOK(c)'
  <1> USE DEF Types, OpenOK, Goes, Guards
  <1>1. CASE ClosesClient(c) \/ GuardClosesClient(c)
    BY SMTT(30), SMTT(60), <1>1 DEF ClosesClient, GuardClosesClient, closeClient
  <1>2. CASE Leaves(c) \/ BacklogReset(c) \/ Connects(c)
    BY ZenonT(30), SMTT(30), <1>2 DEF Leaves, BacklogReset, Connects
  <1>3. CASE HandshakeEnds(c) \/ Requests(c) \/ DialFails(c) \/ OpensSocks(c)
             \/ CountsRelay(c) \/ OpensConnect(c) \/ OpensRequest(c)
    BY ZenonT(90), SMTT(60), <1>3 DEF HandshakeEnds, Requests, DialFails, OpensSocks, CountsRelay,
       OpensConnect,
       OpensRequest
  <1>4. CASE RelayOver(c) \/ Forwarded(c) \/ RequestEnds(c) \/ ClosesUp(c) \/ Logs(c)
    BY ZenonT(30), SMTT(30), <1>4 DEF RelayOver, Forwarded, RequestEnds, ClosesUp, Logs
  <1>5. CASE Stalls(c) \/ Moves(c) \/ GuardFires(c) \/ GuardStops(c) \/ GuardClosesUp(c)
             \/ GuardLogs(c) \/ \E d \in Directions : CopyEnds(c, d)
    BY <1>5 DEF Stalls, Moves, GuardFires, GuardStops, GuardClosesUp, GuardLogs, CopyEnds
  <1> QED
    BY ZenonT(30), <1>1, <1>2, <1>3, <1>4, <1>5 DEF ConnStep, Handler, IdleGuard

LEMMA ConnPlaces ==
  ASSUME Types, Places, NEW c \in Conns, ConnStep(c)
  PROVE  Places'
  <1>1. UNCHANGED <<server, loop, got>> /\ \A x \in Conns \ {c} : Same(x)
    BY ZenonT(30), SMTT(30), OthersKept
  <1>2. \A x \in Conns \ {c} : LineOK(x)' /\ OpenOK(x)'
    BY SMTT(30), SMTT(60), <1>1 DEF Places, Same, LineOK, OpenOK, Kind
  <1>3. LineOK(c)' /\ OpenOK(c)'
    BY SMTT(30), SMTT(60), LineStep, OpenStep DEF Places
  <1>4. ASSUME NEW s \in Servers PROVE HoldsOK(s)'
    <2>1. pc[c] # "taken"
      BY TakenWaits DEF Places
    <2> QED
      BY ZenonT(30), <1>1, <2>1 DEF Places, HoldsOK, Same
  <1> QED
    BY <1>2, <1>3, <1>4 DEF Places

LEMMA AcceptPlaces ==
  ASSUME Types, Places, NEW s \in Servers, AcceptLoop(s)
  PROVE  Places'
  <1> USE DEF Types, Loops, Goes
  <1>1. UNCHANGED <<server, up, guard, lines>>
    BY AcceptKeeps
  <1>2. CASE AcceptReturns(s)
    <2> PICK c \in Conns : /\ server[c] = s /\ Goes(c, "queued", "taken")
                           /\ got' = [got EXCEPT ![s] = c]
      BY ZenonT(30), <1>2 DEF AcceptReturns
    <2>1. loop[s] = "accept" /\ loop' = [loop EXCEPT ![s] = "got"] /\ open' = open
      BY ZenonT(30), SMTT(30), <1>2 DEF AcceptReturns
    <2>2. \A x \in Conns : LineOK(x)' /\ OpenOK(x)'
      BY SMTT(30), SMTT(60), <1>1, <2>1 DEF Places, LineOK, OpenOK, Kind, Before, After, Requesting
    <2>3. ASSUME NEW t \in Servers PROVE HoldsOK(t)'
      BY SMTT(30), SMTT(60), <1>1, <2>1 DEF Places, HoldsOK, OpenOK
    <2> QED
      BY <2>2, <2>3 DEF Places
  <1>3. CASE AcceptFails(s) \/ BackoffOver(s) \/ AcceptClosed(s)
    <2>1. UNCHANGED <<pc, open, got>> /\ loop'[s] \notin {"got", "slotted"}
          /\ \A t \in Servers \ {s} : loop'[t] = loop[t]
      BY <1>3 DEF AcceptFails, BackoffOver, AcceptClosed, connVars
    <2> QED
      BY SMTT(30), SMTT(60), <1>1, <2>1 DEF Places, LineOK, OpenOK, HoldsOK, Kind
  <1>4. CASE Acquires(s)
    <2>1. /\ loop[s] = "got" /\ loop' = [loop EXCEPT ![s] = "slotted"]
          /\ open' = [open EXCEPT ![got[s]] = TRUE] /\ UNCHANGED <<pc, got>>
      BY ZenonT(30), SMTT(30), <1>4 DEF Acquires, tryAcquire
    <2>2. \A x \in Conns : LineOK(x)' /\ OpenOK(x)'
      BY SMTT(30), SMTT(60), <1>1, <2>1 DEF Places, LineOK, OpenOK, HoldsOK, Kind
    <2>3. ASSUME NEW t \in Servers PROVE HoldsOK(t)'
      BY <1>1, <2>1 DEF Places, HoldsOK
    <2> QED
      BY SMTT(30), SMTT(60), <2>2, <2>3 DEF Places
  <1>5. CASE Refuses(s) \/ Hands(s)
    <2>1. /\ loop[s] \in {"got", "slotted"} /\ loop' = [loop EXCEPT ![s] = "accept"]
          /\ got' = [got EXCEPT ![s] = NoConn] /\ open' = open
          /\ \/ loop[s] = "got" /\ pc' = [pc EXCEPT ![got[s]] = "gone"]
             \/ pc' = [pc EXCEPT ![got[s]] = "handshake"]
      BY <1>5 DEF Refuses, Hands
    <2>2. got[s] \in Conns /\ pc[got[s]] = "taken" /\ server[got[s]] = s
      BY ZenonT(30), SMTT(30), <2>1 DEF Places, HoldsOK
    <2>3. \A x \in Conns : LineOK(x)'
      BY SMTT(30), SMTT(60), <1>1, <2>1, <2>2 DEF Places, LineOK, Kind, Before, After, Requesting
    <2>4. \A x \in Conns : OpenOK(x)'
      BY SMTT(30), SMTT(60), <1>1, <2>1, <2>2 DEF Places, OpenOK, HoldsOK
    <2>5. ASSUME NEW t \in Servers PROVE HoldsOK(t)'
      BY SMTT(30), SMTT(60), <1>1, <2>1, <2>2 DEF Places, HoldsOK
    <2> QED
      BY ZenonT(30), SMTT(30), <2>3, <2>4, <2>5 DEF Places
  <1> QED
    BY SMTT(30), SMTT(60), <1>2, <1>3, <1>4, <1>5 DEF AcceptLoop

------------------------------------------------------------------------------
(* The slots.                                                               *)

Open == {c \in Conns : open[c]}

SlotInv ==
  /\ slots = IF Limit = 0 THEN 0 ELSE Cardinality(Open)
  /\ Limit # 0 => slots <= Limit

LEMMA OpenFinite == IsFiniteSet(Open) /\ Cardinality(Open) \in Nat
  BY ProxyAssumption, FS_Subset, FS_CardinalityType DEF Open

(* Only the first Close returns the slot. *)
LEMMA CloseReturnsSlot ==
  ASSUME Types, SlotInv, NEW c \in Conns, closeClient(c)
  PROVE  SlotInv'
  <1>1. Open' = Open \ {c}
    BY DEF Types, closeClient, Open
  <1>2. CASE c \in Open
    <2>1. Cardinality(Open') = Cardinality(Open) - 1
      BY SMTT(30), SMTT(60), <1>1, <1>2, OpenFinite, FS_RemoveElement
    <2>2. open[c]
      BY <1>2 DEF Open
    <2> QED
      BY <2>1, <2>2, OpenFinite, ProxyAssumption DEF SlotInv, closeClient
  <1>3. CASE c \notin Open
    <2>1. Open' = Open /\ ~open[c]
      BY <1>1, <1>3 DEF Open
    <2> QED
      BY <2>1 DEF SlotInv, closeClient
  <1> QED
    BY <1>2, <1>3

LEMMA SlotTaken ==
  ASSUME Types, SlotInv, NEW s \in Servers, tryAcquire(s), got[s] \in Conns, ~open[got[s]]
  PROVE  SlotInv'
  <1>1. Open' = Open \union {got[s]} /\ got[s] \notin Open
    BY DEF Types, tryAcquire, Open
  <1>2. Cardinality(Open') = Cardinality(Open) + 1
    BY ZenonT(30), <1>1, OpenFinite, FS_AddElement
  <1> QED
    BY SMTT(30), SMTT(60), <1>2, OpenFinite, ProxyAssumption DEF SlotInv, tryAcquire

LEMMA SlotSteps ==
  ASSUME Types, Places, SlotInv, Next
  PROVE  SlotInv'
  <1>1. CASE UNCHANGED <<slots, open>>
    BY <1>1 DEF SlotInv, Open
  <1>2. ASSUME NEW s \in Servers, Acquires(s) PROVE SlotInv'
    <2>1. tryAcquire(s) /\ got[s] \in Conns /\ ~open[got[s]]
      BY <1>2 DEF Acquires, Loops, Places, HoldsOK
    <2> QED
      BY SMTT(30), SMTT(60), <2>1, SlotTaken
  <1>3. ASSUME NEW c \in Conns, ClosesClient(c) \/ GuardClosesClient(c) PROVE SlotInv'
    BY SMTT(30), SMTT(60), <1>3, CloseReturnsSlot DEF ClosesClient, GuardClosesClient
  <1> QED
    BY ZenonT(30), SMTT(30), <1>1, <1>2, <1>3
    DEF Next, AcceptLoop, AcceptReturns, AcceptFails, BackoffOver, AcceptClosed, Refuses,
        Hands, Connects, BacklogReset, Handler, HandshakeEnds, Requests, DialFails,
        OpensSocks, CountsRelay, OpensConnect, OpensRequest, CopyEnds, RelayOver, Forwarded,
        RequestEnds, ClosesUp, Logs, Leaves, IdleGuard, Stalls, Moves, GuardFires,
        GuardStops, GuardClosesUp, GuardLogs, Shutdown, Signal, DrainDeadline,
        ClosesListener, CloseFails, WaitReturns, Drained, TimesOut, Exits, Exited, connVars,
        vars

------------------------------------------------------------------------------
(* The WaitGroups.                                                          *)

(* c is counted by its server. *)
Flying(c) ==
  IF Kind(c) = "http" THEN pc[c] \notin {"new", "queued", "taken", "gone"}
  ELSE up[c] = "open" /\ pc[c] # "opened"

InFlight(s) == {c \in Conns : server[c] = s /\ Flying(c)}

CountInv == \A s \in Servers : count[s] = Cardinality(InFlight(s))

LEMMA FlightFinite ==
  ASSUME NEW s \in Servers
  PROVE  IsFiniteSet(InFlight(s)) /\ Cardinality(InFlight(s)) \in Nat
  BY ZenonT(30), SMTT(30), ProxyAssumption, FS_Subset, FS_CardinalityType DEF InFlight

(* A step that moves one connection and counts the change. *)
Counted(c) ==
  \/ (Flying(c)' <=> Flying(c)) /\ count' = count
  \/ ~Flying(c) /\ Flying(c)' /\ count' = [count EXCEPT ![server[c]] = @ + 1]
  \/ Flying(c) /\ ~Flying(c)' /\ count' = [count EXCEPT ![server[c]] = @ - 1]

LEMMA CountStep ==
  ASSUME Types, CountInv, NEW c \in Conns, server' = server,
         \A x \in Conns \ {c} : Flying(x)' <=> Flying(x), Counted(c)
  PROVE  CountInv'
  <1> SUFFICES ASSUME NEW s \in Servers PROVE count'[s] = Cardinality(InFlight(s)')
    BY DEF CountInv
  <1>1. IsFiniteSet(InFlight(s)) /\ count[s] = Cardinality(InFlight(s))
        /\ Cardinality(InFlight(s)) \in Nat
    BY SMTT(30), SMTT(60), FlightFinite DEF CountInv
  <1>2. CASE server[c] # s
    <2>1. InFlight(s)' = InFlight(s)
      BY <1>2 DEF InFlight
    <2>2. count'[s] = count[s]
      BY ZenonT(30), SMTT(30), <1>2 DEF Counted, Types
    <2> QED
      BY SMTT(30), SMTT(60), <1>1, <2>1, <2>2
  <1>3. CASE server[c] = s /\ (Flying(c)' <=> Flying(c)) /\ count' = count
    <2>1. InFlight(s)' = InFlight(s)
      BY SMTT(30), SMTT(60), <1>3 DEF InFlight
    <2> QED
      BY SMTT(30), SMTT(60), <1>1, <1>3, <2>1
  <1>4. CASE server[c] = s /\ ~Flying(c) /\ Flying(c)'
             /\ count' = [count EXCEPT ![server[c]] = @ + 1]
    <2>1. InFlight(s)' = InFlight(s) \union {c} /\ c \notin InFlight(s)
      BY <1>4 DEF InFlight
    <2>2. Cardinality(InFlight(s)') = Cardinality(InFlight(s)) + 1
      BY ZenonT(30), <1>1, <2>1, FS_AddElement
    <2>3. count'[s] = count[s] + 1
      BY SMTT(30), SMTT(60), <1>4 DEF Types
    <2> QED
      BY SMTT(30), SMTT(60), <1>1, <2>2, <2>3
  <1>5. CASE server[c] = s /\ Flying(c) /\ ~Flying(c)'
             /\ count' = [count EXCEPT ![server[c]] = @ - 1]
    <2>1. InFlight(s)' = InFlight(s) \ {c} /\ c \in InFlight(s)
      BY <1>5 DEF InFlight
    <2>2. Cardinality(InFlight(s)') = Cardinality(InFlight(s)) - 1
      BY ZenonT(30), SMTT(30), <1>1, <2>1, FS_RemoveElement
    <2>3. count'[s] = count[s] - 1
      BY <1>5 DEF Types
    <2> QED
      BY SMTT(30), SMTT(60), <1>1, <2>2, <2>3
  <1> QED
    BY SMTT(30), SMTT(60), <1>2, <1>3, <1>4, <1>5 DEF Counted

(* What a step of a connection does to the count of its server. *)
LEMMA ConnCounted ==
  ASSUME Types, NEW c \in Conns, LineOK(c), ConnStep(c)
  PROVE  Counted(c)
  <1> USE DEF Types, Goes, Guards, Counted, Flying, Kind
  <1>1. Kind(c) \in {"socks5", "http"}
    BY SMTT(30), SMTT(60), ServersFacts
  <1>2. CASE Connects(c) \/ BacklogReset(c) \/ HandshakeEnds(c) \/ Requests(c) \/ DialFails(c)
    BY ZenonT(30), SMTT(30), <1>2 DEF Connects, BacklogReset, HandshakeEnds, Requests, DialFails,
       LineOK,
       Before, After, Requesting
  <1>3. CASE OpensSocks(c)
    BY <1>3 DEF OpensSocks, LineOK, Requesting, After
  <1>4. CASE CountsRelay(c)
    BY SMTT(30), SMTT(60), <1>4 DEF CountsRelay, LineOK, Before, After, Requesting
  <1>5. CASE OpensConnect(c) \/ OpensRequest(c)
    BY ZenonT(90), SMTT(60), <1>5 DEF OpensConnect, OpensRequest
  <1>6. CASE RelayOver(c) \/ Forwarded(c) \/ RequestEnds(c) \/ Logs(c) \/ ClosesClient(c)
    BY ZenonT(30), SMTT(30), <1>6 DEF RelayOver, Forwarded, RequestEnds, Logs, ClosesClient
  <1>7. CASE ClosesUp(c)
    <2>1. /\ pc[c] = "closeUp" /\ pc'[c] \in {"line", "closing"} /\ up'[c] = "closed"
          /\ server' = server
      BY SMTT(30), SMTT(60), <1>7 DEF ClosesUp, closeUp
    <2>2. CASE Kind(c) = "socks5" /\ up[c] = "open"
      <3>1. count' = [count EXCEPT ![server[c]] = @ - 1]
        BY ZenonT(30), <1>7, <2>2 DEF ClosesUp, closeUp
      <3> QED
        BY ZenonT(30), <2>1, <2>2, <3>1
    <2>3. CASE ~(Kind(c) = "socks5" /\ up[c] = "open")
      <3>1. count' = count
        BY ONLY Types, c \in Conns, <1>7, <2>3, SMTT(30), SMTT(60) DEF Types, ClosesUp, closeUp, Kind
      <3> QED
        BY ZenonT(30), <1>1, <2>1, <2>3, <3>1
    <2> QED
      BY ZenonT(30), <2>2, <2>3
  <1>8. CASE GuardClosesUp(c)
    <2>1. pc' = pc /\ up'[c] = "closed" /\ server' = server
          /\ (up[c] = "open" => pc[c] # "opened")
      BY ZenonT(30), <1>8 DEF GuardClosesUp, closeUp, LineOK, Requesting
    <2>2. CASE Kind(c) = "socks5" /\ up[c] = "open"
      <3>1. count' = [count EXCEPT ![server[c]] = @ - 1]
        BY ZenonT(30), <1>8, <2>2 DEF GuardClosesUp, closeUp
      <3> QED
        BY ZenonT(30), <2>1, <2>2, <3>1
    <2>3. CASE ~(Kind(c) = "socks5" /\ up[c] = "open")
      <3>1. count' = count
        BY ONLY Types, c \in Conns, <1>8, <2>3, SMTT(30), SMTT(60) DEF Types, GuardClosesUp, closeUp, Kind
      <3> QED
        BY ZenonT(30), <1>1, <2>1, <2>3, <3>1
    <2> QED
      BY ZenonT(30), <2>2, <2>3
  <1>9. CASE Leaves(c)
    <2>1. pc[c] = "leaving" /\ pc'[c] = "gone" /\ UNCHANGED <<server, up>>
      BY ZenonT(30), <1>9 DEF Leaves
    <2>2. CASE Kind(c) = "http"
      BY ZenonT(30), <1>9, <2>1, <2>2 DEF Leaves
    <2>3. CASE Kind(c) # "http"
      <3>1. count' = count
        BY ONLY Types, c \in Conns, <1>9, <2>3, SMTT(30), SMTT(60) DEF Types, Leaves, Kind
      <3> QED
        BY ZenonT(30), <2>1, <2>3, <3>1
    <2> QED
      BY ZenonT(30), <2>2, <2>3
  <1>10. CASE Stalls(c) \/ Moves(c) \/ GuardFires(c) \/ GuardStops(c)
              \/ GuardClosesClient(c) \/ GuardLogs(c) \/ \E d \in Directions : CopyEnds(c, d)
    BY <1>10 DEF Stalls, Moves, GuardFires, GuardStops, GuardClosesClient, GuardLogs,
       CopyEnds
  <1> QED
    BY ZenonT(30), <1>2, <1>3, <1>4, <1>5, <1>6, <1>7, <1>8, <1>9, <1>10
    DEF ConnStep, Handler, IdleGuard

(* The HTTP proxy counts the connection that it hands over; no other step   *)
(* of an accept loop counts, or moves one that is counted.                  *)
LEMMA AcceptCounted ==
  ASSUME Types, Places, CountInv, NEW s \in Servers, AcceptLoop(s)
  PROVE  CountInv'
  <1> USE DEF Types, Loops, Goes
  <1>1. UNCHANGED <<server, up, guard, lines>>
    BY SMTT(30), SMTT(60), AcceptKeeps
  <1>2. CASE AcceptReturns(s)
    <2> PICK c \in Conns : Goes(c, "queued", "taken")
      BY ZenonT(30), <1>2 DEF AcceptReturns
    <2>1. \A x \in Conns : Flying(x)' <=> Flying(x)
      BY ZenonT(30), SMTT(30), <1>1 DEF Flying, Kind
    <2>2. Counted(c)
      BY ZenonT(30), <1>2, <2>1 DEF Counted, AcceptReturns
    <2> QED
      BY SMTT(30), SMTT(60), <1>1, <2>1, <2>2, CountStep
  <1>3. CASE AcceptFails(s) \/ BackoffOver(s) \/ AcceptClosed(s) \/ Acquires(s)
    <2>1. UNCHANGED <<pc, count>>
      BY <1>3 DEF AcceptFails, BackoffOver, AcceptClosed, Acquires, connVars
    <2>2. ASSUME NEW t \in Servers PROVE InFlight(t)' = InFlight(t)
      BY ONLY <1>1, <2>1, ZenonT(30) DEF InFlight, Flying, Kind
    <2> QED
      BY ONLY CountInv, <2>1, <2>2, ZenonT(30) DEF CountInv
  <1>4. CASE Refuses(s) \/ Hands(s)
    <2>1. PICK c \in Conns : /\ c = got[s] /\ server[c] = s
                             /\ pc[c] = "taken" /\ up[c] = "none"
      BY ONLY Types, Places, s \in Servers, <1>4, SMTT(30), SMTT(60) DEF Types, Refuses, Hands, Places, HoldsOK, LineOK, Requesting, After
    <2>2. \A x \in Conns \ {c} : Flying(x)' <=> Flying(x)
      BY ZenonT(30), SMTT(30), <1>1, <1>4, <2>1 DEF Refuses, Hands, Flying, Kind
    <2>3. CASE Refuses(s)
      <3>1. pc'[c] = "gone" /\ count' = count
        BY SMTT(30), SMTT(60), <2>1, <2>3 DEF Refuses
      <3>2. Flying(c)' <=> Flying(c)
        BY SMTT(30), SMTT(60), <1>1, <2>1, <3>1 DEF Flying, Kind
      <3>3. Counted(c)
        BY ZenonT(30), SMTT(30), <3>1, <3>2 DEF Counted
      <3> QED
        BY SMTT(30), SMTT(60), <1>1, <2>1, <2>2, <3>3, CountStep
    <2>4. CASE Hands(s) /\ Kinds[s] = "http"
      <3>1. pc'[c] = "handshake" /\ count' = [count EXCEPT ![server[c]] = @ + 1]
        BY SMTT(30), SMTT(60), <2>1, <2>4 DEF Hands
      <3>2. Counted(c)
        BY ZenonT(30), <1>1, <2>1, <2>4, <3>1 DEF Counted, Flying, Kind
      <3> QED
        BY <1>1, <2>1, <2>2, <3>2, CountStep
    <2>5. CASE Hands(s) /\ Kinds[s] # "http"
      <3>1. pc'[c] = "handshake" /\ count' = count
        BY SMTT(30), SMTT(60), <2>1, <2>5 DEF Hands
      <3>2. Counted(c)
        BY SMTT(30), SMTT(60), <1>1, <2>1, <2>5, <3>1 DEF Counted, Flying, Kind
      <3> QED
        BY <1>1, <2>1, <2>2, <3>2, CountStep
    <2> QED
      BY ZenonT(30), SMTT(30), <1>4, <2>3, <2>4, <2>5
  <1> QED
    BY ZenonT(30), <1>2, <1>3, <1>4 DEF AcceptLoop

------------------------------------------------------------------------------
IInv == Types /\ Places /\ SlotInv /\ CountInv

LEMMA InitIInv == Init => IInv
  <1> SUFFICES ASSUME Init PROVE IInv
    OBVIOUS
  <1>1. Open = {} /\ slots = 0
    BY DEF Init, Open
  <1>2. SlotInv
    BY SMTT(30), SMTT(60), <1>1, FS_EmptySet, ProxyAssumption DEF SlotInv
  <1>3. ASSUME NEW s \in Servers PROVE InFlight(s) = {} /\ count[s] = 0
    BY DEF Init, InFlight, Flying
  <1>4. CountInv
    BY SMTT(30), SMTT(60), <1>3, FS_EmptySet DEF CountInv
  <1> QED
    BY ZenonT(30), SMTT(30), <1>2, <1>4, InitTypes, InitPlaces DEF IInv

LEMMA IInvStep == IInv /\ [Next]_vars => IInv'
  <1> SUFFICES ASSUME IInv, [Next]_vars PROVE IInv'
    OBVIOUS
  <1> USE DEF IInv
  <1>1. ASSUME NEW s \in Servers, AcceptLoop(s) PROVE Types' /\ Places' /\ CountInv'
    BY SMTT(30), SMTT(60), <1>1, AcceptTypes, AcceptPlaces, AcceptCounted
  <1>2. ASSUME NEW c \in Conns, ConnStep(c) PROVE Types' /\ Places' /\ CountInv'
    <2>1. Types'
      BY <1>2, HandlerTypes, GuardTypes DEF ConnStep
    <2>2. Places'
      BY ZenonT(30), SMTT(30), <1>2, ConnPlaces
    <2>3. server' = server /\ \A x \in Conns \ {c} : Flying(x)' <=> Flying(x)
      BY SMTT(30), SMTT(60), <1>2, OthersKept DEF Same, Flying, Kind
    <2>4. Counted(c)
      BY <1>2, ConnCounted DEF Places
    <2> QED
      BY SMTT(30), SMTT(60), <2>1, <2>2, <2>3, <2>4, CountStep
  <1>3. CASE UNCHANGED typed
    <2>1. Types'
      BY <1>3 DEF typed, Types
    <2>2. Places'
      <3>1. ASSUME NEW c \in Conns PROVE LineOK(c)' /\ OpenOK(c)'
        BY ZenonT(30), SMTT(30), <1>3 DEF typed, Places, LineOK, OpenOK, Kind
      <3>2. ASSUME NEW s \in Servers PROVE HoldsOK(s)'
        BY <1>3 DEF typed, Places, HoldsOK
      <3> QED
        BY ZenonT(30), <3>1, <3>2 DEF Places
    <2>3. SlotInv'
      <3>1. Open' = Open
        BY <1>3 DEF typed, Open
      <3> QED
        BY <1>3, <3>1 DEF typed, SlotInv
    <2>4. CountInv'
      <3>1. ASSUME NEW s \in Servers PROVE InFlight(s)' = InFlight(s)
        BY <1>3 DEF typed, InFlight, Flying, Kind
      <3> QED
        BY SMTT(30), SMTT(60), <1>3, <3>1 DEF typed, CountInv
    <2> QED
      BY ZenonT(30), SMTT(30), <2>1, <2>2, <2>3, <2>4
  <1>4. CASE Next
    <2>1. Types' /\ Places' /\ CountInv'
      BY SMTT(30), SMTT(60), <1>1, <1>2, <1>3, <1>4, ShutdownKeeps DEF Next, ConnStep, Exited
    <2> QED
      BY ZenonT(30), SMTT(30), <1>4, <2>1, SlotSteps
  <1> QED
    BY SMTT(30), SMTT(60), <1>3, <1>4, ShutdownKeeps

LEMMA IInvHolds == Spec => []IInv
  BY InitIInv, IInvStep, PTL DEF Spec

(* The slots of the shared limit are those of the open client connections   *)
(* (listener.go), for any limit and any number of connections.              *)
THEOREM SlotsExact == Spec => []SlotPerClient
  <1>1. IInv => SlotPerClient
    BY ZenonT(30) DEF IInv, SlotInv, Open, SlotPerClient, Places, OpenOK
  <1> QED
    BY <1>1, IInvHolds, PTL

(* One access line per upstream (socks5.go, httpproxy.go).                  *)
THEOREM LinesExact == Spec => []OneAccessLine
  <1>1. IInv => OneAccessLine
    BY SMTT(30), SMTT(60) DEF IInv, Types, Places, LineOK, OneAccessLine, Before, After, Requesting
  <1> QED
    BY <1>1, IInvHolds, PTL

(* The WaitGroups count what is in flight and never go below zero           *)
(* (httpproxy.go, socks5.go).                                               *)
THEOREM WaitGroupsExact == Spec => []CountsInFlight
  <1>1. IInv => CountsInFlight
    BY DEF IInv, CountInv, InFlight, Flying, CountsInFlight
  <1> QED
    BY <1>1, IInvHolds, PTL
------------------------------------------------------------------------------
(* What the counters do not depend on: the listeners, the copies of a relay, *)
(* and main.                                                                *)
MainTypes ==
  /\ listening \in [Servers -> BOOLEAN]
  /\ waiter \in [Servers -> {"none", "wait", "done"}]
  /\ phase \in {"serve", "close", "drain", "stop", "exit"}
  /\ turn \in Servers
  /\ expired \in BOOLEAN
  /\ result \in [Servers -> {"none", "ok", "timeout", "error"}]

CopyTypes ==
  /\ copying \in [Conns -> SUBSET Directions]
  /\ quiet \in [Conns -> BOOLEAN]

LEMMA InitMainTypes == Init => MainTypes /\ CopyTypes
  <1> SUFFICES ASSUME Init PROVE MainTypes /\ CopyTypes
    OBVIOUS
  <1>1. 1 \in Servers
    BY SMTT(30), SMTT(60), ProxyAssumption DEF Servers
  <1> QED
    BY ZenonT(30), <1>1 DEF Init, MainTypes, CopyTypes

(* Shutdown keeps its types: main goes on to the next server while there is *)
(* one.                                                                     *)
LEMMA ShutdownTypes ==
  ASSUME MainTypes, Shutdown
  PROVE  MainTypes'
  <1> USE DEF MainTypes
  <1>1. ASSUME NEW r \in {"ok", "timeout", "error"}, Returned(r)
        PROVE  /\ result' \in [Servers -> {"none", "ok", "timeout", "error"}]
               /\ phase' \in {"serve", "close", "drain", "stop", "exit"}
               /\ turn' \in Servers
    <2>1. turn' \in Servers
      BY <1>1, ProxyAssumption DEF Returned, Servers
    <2> QED
      BY SMTT(30), SMTT(60), <1>1, <2>1 DEF Returned
  <1>2. CASE Signal \/ DrainDeadline \/ Exits
    BY ZenonT(30), <1>2 DEF Signal, DrainDeadline, Exits
  <1>3. CASE ClosesListener
    BY SMTT(30), SMTT(60), <1>3 DEF ClosesListener
  <1>4. CASE CloseFails
    BY SMTT(30), SMTT(60), <1>1, <1>4 DEF CloseFails
  <1>5. CASE \E s \in Servers : WaitReturns(s)
    BY SMTT(30), SMTT(60), <1>5 DEF WaitReturns
  <1>6. CASE Drained \/ TimesOut
    BY <1>1, <1>6 DEF Drained, TimesOut
  <1> QED
    BY SMTT(30), SMTT(60), <1>2, <1>3, <1>4, <1>5, <1>6 DEF Shutdown

(* The copies of a relay start and end together with it. *)
LEMMA ConnCopyTypes ==
  ASSUME CopyTypes, NEW c \in Conns, ConnStep(c)
  PROVE  CopyTypes' /\ UNCHANGED mainVars
  <1> USE DEF CopyTypes
  <1>1. CASE Connects(c) \/ BacklogReset(c) \/ HandshakeEnds(c) \/ Requests(c)
             \/ DialFails(c) \/ OpensSocks(c) \/ OpensRequest(c)
    BY SMTT(30), SMTT(60), <1>1 DEF Connects, BacklogReset, HandshakeEnds, Requests, DialFails, OpensSocks,
       OpensRequest
  <1>2. CASE CountsRelay(c) \/ OpensConnect(c) \/ RelayOver(c)
    BY SMTT(30), SMTT(60), <1>2 DEF CountsRelay, OpensConnect, RelayOver
  <1>3. CASE \E d \in Directions : CopyEnds(c, d)
    BY SMTT(30), SMTT(60), <1>3 DEF CopyEnds
  <1>4. CASE Forwarded(c) \/ RequestEnds(c) \/ ClosesUp(c) \/ Logs(c) \/ ClosesClient(c)
             \/ Leaves(c)
    BY ZenonT(30), <1>4 DEF Forwarded, RequestEnds, ClosesUp, Logs, ClosesClient, Leaves
  <1>5. CASE Stalls(c) \/ Moves(c)
    BY ZenonT(30), <1>5 DEF Stalls, Moves
  <1>6. CASE GuardFires(c) \/ GuardStops(c) \/ GuardClosesClient(c) \/ GuardClosesUp(c)
             \/ GuardLogs(c)
    BY ZenonT(30), <1>6 DEF GuardFires, GuardStops, GuardClosesClient, GuardClosesUp, GuardLogs
  <1> QED
    BY ZenonT(30), SMTT(30), <1>1, <1>2, <1>3, <1>4, <1>5, <1>6 DEF ConnStep, Handler, IdleGuard

LEMMA OtherTypesKept ==
  (\E s \in Servers : AcceptLoop(s)) => UNCHANGED <<copying, quiet, mainVars>>
  BY ZenonT(30) DEF AcceptLoop, AcceptReturns, AcceptFails, BackoffOver, AcceptClosed,
     Acquires, Refuses, Hands, connVars

LEMMA ShutdownKeepsCopies == Shutdown => UNCHANGED <<copying, quiet>>
  BY ZenonT(30) DEF Shutdown, Signal, DrainDeadline, Exits, ClosesListener, CloseFails,
     WaitReturns, Drained, TimesOut, connVars

LEMMA MainTypesHold == Spec => [](MainTypes /\ CopyTypes)
  <1>1. ASSUME MainTypes, CopyTypes, [Next]_vars
        PROVE  MainTypes' /\ CopyTypes'
    <2>1. CASE UNCHANGED <<copying, quiet, mainVars>>
      BY SMTT(30), SMTT(60), <1>1, <2>1 DEF MainTypes, CopyTypes, mainVars
    <2>2. ASSUME NEW c \in Conns, ConnStep(c)
          PROVE  MainTypes' /\ CopyTypes'
      BY SMTT(30), SMTT(60), <1>1, <2>2, ConnCopyTypes DEF MainTypes, mainVars
    <2>3. CASE Shutdown
      BY SMTT(30), SMTT(60), <1>1, <2>3, ShutdownTypes, ShutdownKeepsCopies DEF CopyTypes
    <2>4. CASE UNCHANGED vars
      BY <2>1, <2>4 DEF vars, mainVars
    <2> QED
      BY SMTT(30), SMTT(60), <1>1, <2>1, <2>2, <2>3, <2>4, OtherTypesKept DEF Next, ConnStep, Exited
  <1> QED
    BY <1>1, InitMainTypes, PTL DEF Spec

(* Type correctness: the slots and the WaitGroups are natural numbers, for   *)
(* they count connections; a WaitGroup below zero would panic.              *)
THEOREM TypeCorrect == Spec => []TypeOK
  <1>1. IInv => slots \in Nat
    BY OpenFinite DEF IInv, SlotInv
  <1>2. IInv => count \in [Servers -> Nat]
    <2> SUFFICES ASSUME IInv, NEW s \in Servers PROVE count[s] \in Nat
      BY ZenonT(30), SMTT(30) DEF IInv, Types
    <2> QED
      BY SMTT(30), SMTT(60), FlightFinite DEF IInv, CountInv
  <1>3. IInv /\ MainTypes /\ CopyTypes => TypeOK
    BY ZenonT(30), SMTT(30), <1>1, <1>2 DEF IInv, Types, MainTypes, CopyTypes, TypeOK
  <1> QED
    BY <1>3, IInvHolds, MainTypesHold, PTL

------------------------------------------------------------------------------
(* The drain.  Once a waiter runs, its listener is closed; a connection     *)
(* that is accepted and not handed over is in the hands of its accept loop. *)
(* When the count is zero the HTTP proxy has at most that one, and accepts  *)
(* no other.                                                                *)
Present(s) == {x \in Conns : server[x] = s /\ pc[x] \notin {"new", "queued", "gone"}}

Held(c) ==
  pc[c] = "taken" => loop[server[c]] \in {"got", "slotted"} /\ got[server[c]] = c

(* Main did not return from the Shutdown of s. *)
Unreached(s) == s > turn \/ (s = turn /\ phase \in {"serve", "close", "drain"})

DrainInv ==
  /\ \A c \in Conns : Held(c)
  /\ \A s \in Servers :
       /\ Unreached(s) => result[s] = "none"
       /\ waiter[s] # "none" => ~listening[s]
       /\ result[s] = "ok" => waiter[s] = "done"
       /\ Kinds[s] = "http" /\ waiter[s] = "done" => \A c, d \in Present(s) : c = d

LEMMA InitDrain == Init => DrainInv
  BY SMTT(30), SMTT(60) DEF Init, DrainInv, Held, Unreached

(* A handler moves what is in flight; no step of a connection takes it from *)
(* the backlog.                                                             *)
LEMMA ConnMoves ==
  ASSUME Types, NEW c \in Conns, ConnStep(c)
  PROVE  \/ pc'[c] = pc[c]
         \/ pc'[c] \in {"queued", "gone"}
         \/ pc[c] \notin {"new", "queued", "taken", "gone"} /\ pc'[c] # "taken"
  <1>0. DOMAIN pc = Conns /\ c \in Conns
    BY ONLY Types, c \in Conns, SMTT(30), SMTT(60) DEF Types
  <1>1. CASE Connects(c) \/ BacklogReset(c)
    BY ONLY <1>0, <1>1, ZenonT(30) DEF Connects, BacklogReset, Goes
  <1>2. CASE HandshakeEnds(c) \/ Requests(c) \/ DialFails(c)
    BY ONLY <1>0, <1>2, ZenonT(30) DEF HandshakeEnds, Requests, DialFails, Goes
  <1>3. CASE OpensSocks(c) \/ CountsRelay(c) \/ OpensConnect(c) \/ OpensRequest(c)
    BY ONLY <1>0, <1>3, ZenonT(30) DEF OpensSocks, CountsRelay, OpensConnect, OpensRequest, Goes
  <1>4. CASE RelayOver(c) \/ Forwarded(c) \/ RequestEnds(c)
    BY ONLY <1>0, <1>4, ZenonT(30), SMTT(30) DEF RelayOver, Forwarded, RequestEnds, Goes
  <1>5. CASE ClosesUp(c) \/ Logs(c) \/ ClosesClient(c) \/ Leaves(c)
    BY ONLY <1>0, <1>5, ZenonT(30), SMTT(30) DEF ClosesUp, Logs, ClosesClient, Leaves, Goes
  <1>6. CASE \E d \in Directions : CopyEnds(c, d)
    BY ONLY <1>0, <1>6, ZenonT(30) DEF CopyEnds, Goes
  <1>7. CASE Stalls(c) \/ Moves(c) \/ GuardFires(c) \/ GuardStops(c)
    BY ONLY <1>0, <1>7, ZenonT(30) DEF Stalls, Moves, GuardFires, GuardStops
  <1>8. CASE GuardClosesClient(c) \/ GuardClosesUp(c) \/ GuardLogs(c)
    BY ONLY <1>0, <1>8, ZenonT(30) DEF GuardClosesClient, GuardClosesUp, GuardLogs
  <1> QED
    BY ZenonT(30), <1>1, <1>2, <1>3, <1>4, <1>5, <1>6, <1>7, <1>8
       DEF ConnStep, Handler, IdleGuard

(* Fewer connections present, and main as it was. *)
LEMMA DrainKept ==
  ASSUME DrainInv, UNCHANGED mainVars, \A c \in Conns : Held(c)',
         \A s \in Servers : waiter[s] = "done" => Present(s)' \subseteq Present(s)
  PROVE  DrainInv'
  BY SMTT(30), SMTT(60) DEF DrainInv, mainVars, Unreached

LEMMA ConnDrain ==
  ASSUME Types, DrainInv, NEW c \in Conns, ConnStep(c), CopyTypes
  PROVE  DrainInv'
  <1>1. UNCHANGED <<server, loop, got>> /\ \A x \in Conns \ {c} : Same(x)
    BY SMTT(30), SMTT(60), OthersKept
  <1>2. \/ pc'[c] = pc[c]
        \/ pc'[c] \in {"queued", "gone"}
        \/ pc[c] \notin {"new", "queued", "taken", "gone"} /\ pc'[c] # "taken"
    BY ZenonT(30), ConnMoves
  <1>3. UNCHANGED mainVars
    BY ZenonT(30), SMTT(30), ConnCopyTypes
  <1>4. \A x \in Conns : Held(x)'
    BY ONLY DrainInv, Types, c \in Conns, <1>1, <1>2, SMTT(30), SMTT(60) DEF Types, DrainInv, Held, Same
  <1>5. \A s \in Servers : Present(s)' \subseteq Present(s)
    BY ZenonT(30), SMTT(30), <1>1, <1>2 DEF Present, Same
  <1> QED
    BY ZenonT(30), <1>3, <1>4, <1>5, DrainKept

LEMMA AcceptDrain ==
  ASSUME Types, Places, DrainInv, NEW s \in Servers, AcceptLoop(s)
  PROVE  DrainInv'
  <1> USE DEF Types, Loops, Goes
  <1>1. server' = server /\ UNCHANGED mainVars
    BY ZenonT(30), AcceptKeeps, OtherTypesKept
  <1>2. \A x \in Conns : Held(x)
    BY ZenonT(30) DEF DrainInv
  <1>3. /\ server \in [Conns -> Servers] /\ DOMAIN pc = Conns
        /\ DOMAIN loop = Servers /\ DOMAIN got = Servers
    BY ONLY Types, SMTT(30), SMTT(60) DEF Types
  <1>4. s \in Servers
    BY SMTT(30), SMTT(60)
  <1>5. CASE AcceptReturns(s)
    <2>1. PICK c \in Conns : /\ server[c] = s /\ Goes(c, "queued", "taken")
                             /\ got' = [got EXCEPT ![s] = c]
      BY ZenonT(30), <1>5 DEF AcceptReturns
    <2>2. /\ loop[s] = "accept" /\ loop' = [loop EXCEPT ![s] = "got"]
          /\ listening[s]
      BY ONLY <1>5, ZenonT(30) DEF AcceptReturns
    <2>3. pc' = [pc EXCEPT ![c] = "taken"]
      BY ONLY <2>1, ZenonT(30) DEF Goes
    <2>4. \A x \in Conns : Held(x)'
      BY ONLY <1>1, <1>2, <1>3, <1>4, <2>1, <2>2, <2>3, c \in Conns, ZenonT(90), SMTT(60) DEF Held
    <2>5. waiter[s] = "none"
      BY ONLY DrainInv, <1>4, <2>2, ZenonT(30) DEF DrainInv
    <2>6. \A t \in Servers : t # s => Present(t)' \subseteq Present(t)
      BY ONLY <1>1, <1>3, <2>1, <2>3, SMTT(30), SMTT(60) DEF Present
    <2> QED
      BY SMTT(30), SMTT(60), <1>1, <2>4, <2>5, <2>6, DrainKept
  <1>6. CASE AcceptFails(s) \/ BackoffOver(s) \/ AcceptClosed(s) \/ Acquires(s)
    <2>1. UNCHANGED <<pc, got>>
      BY SMTT(30), SMTT(60), <1>6 DEF AcceptFails, BackoffOver, AcceptClosed, Acquires, connVars
    <2>2. \E q : /\ loop' = [loop EXCEPT ![s] = q]
                 /\ loop[s] \in {"got", "slotted"} => q \in {"got", "slotted"}
      BY ONLY <1>6, SMTT(30), SMTT(60) DEF AcceptFails, BackoffOver, AcceptClosed, Acquires
    <2>3. \A x \in Conns : Held(x)'
      BY ONLY <1>1, <1>2, <1>3, <1>4, <2>1, <2>2, SMTT(30), SMTT(60) DEF Held
    <2>4. \A t \in Servers : Present(t)' \subseteq Present(t)
      BY ONLY <1>1, <2>1, SMTT(30), SMTT(60) DEF Present
    <2> QED
      BY ZenonT(30), <1>1, <2>3, <2>4, DrainKept
  <1>7. CASE Refuses(s) \/ Hands(s)
    <2>1. PICK c \in Conns : c = got[s] /\ server[c] = s /\ pc[c] = "taken"
      BY ZenonT(30), SMTT(30), <1>7 DEF Refuses, Hands, Places, HoldsOK
    <2>2. /\ pc' = [pc EXCEPT ![c] = pc'[c]] /\ pc'[c] # "taken"
          /\ loop' = [loop EXCEPT ![s] = "accept"]
          /\ got' = [got EXCEPT ![s] = NoConn]
      BY ZenonT(30), SMTT(30), <1>7, <2>1 DEF Refuses, Hands
    <2>3. \A x \in Conns : Held(x)'
      BY ONLY <1>1, <1>2, <1>3, <1>4, <2>1, <2>2, ZenonT(30), SMTT(30) DEF Held
    <2>4. \A t \in Servers : Present(t)' \subseteq Present(t)
      BY ONLY <1>1, <1>3, <2>1, <2>2, SMTT(30), SMTT(60) DEF Present
    <2> QED
      BY ZenonT(30), SMTT(30), <1>1, <2>3, <2>4, DrainKept
  <1> QED
    BY ZenonT(30), <1>5, <1>6, <1>7 DEF AcceptLoop

(* The wait returns at a count of zero: no handler runs, and what else is   *)
(* present is held by the one accept loop.                                  *)
LEMMA NoneCounted ==
  ASSUME IInv, DrainInv, NEW s \in Servers, Kinds[s] = "http", count[s] = 0
  PROVE  \A c, d \in Present(s) : c = d
  <1>1. InFlight(s) = {}
    BY ZenonT(30), SMTT(30), FlightFinite, FS_EmptySet DEF IInv, CountInv
  <1>2. ASSUME NEW c \in Present(s) PROVE c = got[s]
    <2>1. pc[c] = "taken"
      BY SMTT(30), SMTT(60), <1>1 DEF Present, InFlight, Flying, Kind
    <2> QED
      BY SMTT(30), SMTT(60), <2>1 DEF DrainInv, Held, Present
  <1> QED
    BY ZenonT(30), <1>2

LEMMA ShutdownDrain ==
  ASSUME IInv, MainTypes, DrainInv, Shutdown
  PROVE  DrainInv'
  <1> USE DEF MainTypes, Servers
  <1>1. UNCHANGED <<server, loop, got, pc>>
    BY ZenonT(30), SMTT(30), ShutdownKeeps DEF typed
  <1>2. \A c \in Conns : Held(c)'
    BY SMTT(30), SMTT(60), <1>1 DEF DrainInv, Held
  <1>3. \A s \in Servers : Present(s)' = Present(s)
    BY ZenonT(30), SMTT(30), <1>1 DEF Present
  <1> SUFFICES ASSUME NEW s \in Servers
               PROVE  /\ Unreached(s)' => result'[s] = "none"
                      /\ waiter'[s] # "none" => ~listening'[s]
                      /\ result'[s] = "ok" => waiter'[s] = "done"
                      /\ Kinds[s] = "http" /\ waiter'[s] = "done" =>
                           \A c, d \in Present(s) : c = d
    BY SMTT(30), SMTT(60), <1>2, <1>3 DEF DrainInv
  <1>4. /\ Unreached(s) => result[s] = "none"
        /\ waiter[s] # "none" => ~listening[s]
        /\ result[s] = "ok" => waiter[s] = "done"
        /\ Kinds[s] = "http" /\ waiter[s] = "done" => \A c, d \in Present(s) : c = d
    BY ZenonT(30) DEF DrainInv
  <1>5. CASE Signal \/ DrainDeadline \/ Exits
    BY ZenonT(30), SMTT(30), <1>4, <1>5 DEF Signal, DrainDeadline, Exits, Unreached
  <1>6. CASE ClosesListener
    <2>1. result'[s] = "ok" => waiter[s] = "done" /\ s # turn
      BY ZenonT(30), SMTT(30), <1>4, <1>6 DEF ClosesListener, Unreached
    <2> QED
      BY ZenonT(30), SMTT(30), <1>4, <1>6, <2>1 DEF ClosesListener, Unreached
  <1>7. CASE CloseFails
    BY SMTT(30), SMTT(60), <1>4, <1>7 DEF CloseFails, Returned, Unreached
  <1>8. CASE \E t \in Servers : WaitReturns(t)
    <2>1. CASE waiter'[s] = waiter[s]
      BY SMTT(30), SMTT(60), <1>4, <1>8, <2>1 DEF WaitReturns, Unreached
    <2>2. CASE waiter'[s] # waiter[s]
      <3>1. /\ waiter[s] = "wait" /\ count[s] = 0 /\ waiter'[s] = "done"
            /\ UNCHANGED <<listening, result>>
        BY SMTT(30), SMTT(60), <1>8, <2>2 DEF WaitReturns, Unreached
      <3>2. Kinds[s] = "http" => \A c, d \in Present(s) : c = d
        BY ZenonT(30), <3>1, NoneCounted
      <3>3. Unreached(s)' <=> Unreached(s)
        BY ZenonT(30), <1>8 DEF WaitReturns, Unreached
      <3> QED
        BY ZenonT(30), <1>4, <3>1, <3>2, <3>3
    <2> QED
      BY ZenonT(30), SMTT(30), <2>1, <2>2
  <1>9. CASE Drained \/ TimesOut
    BY SMTT(30), SMTT(60), <1>4, <1>9 DEF Drained, TimesOut, Returned, Unreached
  <1> QED
    BY ZenonT(30), <1>5, <1>6, <1>7, <1>8, <1>9 DEF Shutdown

LEMMA DrainHolds == Spec => []DrainInv
  <1>1. ASSUME IInv, MainTypes, CopyTypes, DrainInv, [Next]_vars
        PROVE  DrainInv'
    <2>1. ASSUME NEW s \in Servers, AcceptLoop(s) PROVE DrainInv'
      BY ZenonT(30), <1>1, <2>1, AcceptDrain DEF IInv
    <2>2. ASSUME NEW c \in Conns, ConnStep(c) PROVE DrainInv'
      BY ZenonT(30), <1>1, <2>2, ConnDrain DEF IInv
    <2>3. CASE Shutdown
      BY ZenonT(30), SMTT(30), <1>1, <2>3, ShutdownDrain
    <2>4. CASE UNCHANGED vars
      BY SMTT(30), SMTT(60), <1>1, <2>4 DEF DrainInv, Unreached, Held, Present, vars
    <2> QED
      BY ZenonT(30), <1>1, <2>1, <2>2, <2>3, <2>4 DEF Next, ConnStep, Exited
  <1> QED
    BY <1>1, InitDrain, IInvHolds, MainTypesHold, PTL DEF Spec

(* A Shutdown of the HTTP proxy that returned nil leaves one connection at   *)
(* most (httpproxy.go, Shutdown and handleConn), for any number of clients  *)
(* and servers and any limit.                                               *)
THEOREM DrainIsShort == Spec => []DrainLeavesOne
  <1>1. DrainInv => DrainLeavesOne
    BY ZenonT(30) DEF DrainInv, Present, DrainLeavesOne
  <1> QED
    BY <1>1, DrainHolds, PTL
===============================================================================
