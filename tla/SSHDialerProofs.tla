--------------------------- MODULE SSHDialerProofs ---------------------------
(***************************************************************************)
(* Proofs about SSHDialer, for any set of clients and host keys, and any   *)
(* delays that fit their word.                                             *)
(*                                                                         *)
(* The safety properties are not inductive by themselves: what they say of *)
(* d.client rests on where the monitor is and on what its local variables  *)
(* hold there.  MonitorPlace and HeldTrust supply that.                    *)
(***************************************************************************)
EXTENDS SSHDialer, TLAPS

(* Before a client is published d.client is nil, afterwards it is the one   *)
(* the monitor holds, and it is cleared only once its transport is dead.    *)
MonitorPlace ==
  /\ proc = "down" => pc = "off"
  /\ pc = "off" => client = NoClient /\ pinned = NoKey /\ status # "connected"
  /\ pc \in {"sleep", "dialing", "saving", "dialed", "publish"} =>
       client = NoClient /\ status # "connected"
  /\ pc \in {"saving", "dialed", "publish"} => held \in Clients
  /\ pc = "lost" => client = NoClient
  /\ pc = "announce" => held \in Clients /\ client = held
  /\ pc \in {"wait", "drop"} =>
       held \in Clients /\ client = held /\ status = "connected"
  /\ pc = "drop" => transport[held] = "dead"
  /\ pc = "returned" => (client # NoClient <=> status = "connected")
  /\ stopped # "no" => done

(* The key the monitor is about to trust is the pinned one or, on first     *)
(* use, the one it saved; what it has pinned is on disk unless the operator *)
(* edited the file.                                                         *)
HeldTrust ==
  /\ pinned # NoKey => touched \/ file = pinned
  /\ pc = "saving" => pinned = NoKey /\ hostKey[held] \in Keys
  /\ pc \in {"dialed", "publish"} =>
       /\ hostKey[held] \in Keys
       /\ pinned \in {NoKey, hostKey[held]}
       /\ touched \/ file = hostKey[held]
  /\ client # NoClient => pinned \in Keys /\ hostKey[client] = pinned

IInv ==
  /\ TypeOK
  /\ MonitorPlace
  /\ HeldTrust
  /\ NoAbandonedTransport
  /\ ConnectedIsProbed

------------------------------------------------------------------------------
(* The initial state satisfies the inductive invariant. *)
LEMMA InitIInv == Init => IInv
  <1> SUFFICES ASSUME Init PROVE IInv
    OBVIOUS
  <1> USE DialerAssumption DEF Init
  <1>1. TypeOK
    <2>1. /\ transport \in [Clients -> {"free", "live", "stuck", "dead"}]
          /\ hostKey \in [Clients -> Keys \union {NoKey}]
          /\ kp \in [Clients -> {"none", "idle", "probing", "closing"}]
      OBVIOUS
    <2>2. touched \in BOOLEAN /\ done \in BOOLEAN /\ stopped \in {"no", "yes", "late"}
      BY Zenon
    <2>3. attempt \in 0 .. MaxAttempt
      OBVIOUS
    <2>4. proc \in {"up", "down"} /\ status \in States /\ pc \in PCs
      BY DEF States, PCs
    <2> QED
      BY <2>1, <2>2, <2>3, <2>4, Zenon DEF TypeOK
  <1>2. MonitorPlace /\ HeldTrust
    BY DEF MonitorPlace, HeldTrust
  <1>3. NoAbandonedTransport /\ ConnectedIsProbed
    BY DEF NoAbandonedTransport, ConnectedIsProbed, Open
  <1> QED
    BY <1>1, <1>2, <1>3 DEF IInv

(* The steps that reset the process preserve the invariant. *)
LEMMA ProcessSteps == IInv /\ (Start \/ Crash) => IInv'
  <1> SUFFICES ASSUME IInv, Start \/ Crash PROVE IInv'
    OBVIOUS
  <1> USE DialerAssumption DEF IInv
  <1>1. /\ held' = NoClient /\ client' = NoClient /\ rawConn' = NoClient
        /\ attempt' = 0 /\ status' = "connecting"
        /\ done' = FALSE /\ stopped' = "no" /\ touched' = FALSE
        /\ file' = file
        /\ transport' = [c \in Clients |-> "free"]
        /\ hostKey' = [c \in Clients |-> NoKey]
        /\ kp' = [c \in Clients |-> "none"]
    BY DEF Start, Crash, Volatile
  <1>2. \/ proc' = "up" /\ pc' = "sleep" /\ pinned' = file
           /\ file \in Keys \union {NoKey}
        \/ proc' = "down" /\ pc' = "off" /\ pinned' = NoKey
    BY DEF Start, Crash, Volatile, TypeOK
  <1>3. TypeOK'
    <2>1. /\ transport' \in [Clients -> {"free", "live", "stuck", "dead"}]
          /\ hostKey' \in [Clients -> Keys \union {NoKey}]
          /\ kp' \in [Clients -> {"none", "idle", "probing", "closing"}]
      BY <1>1
    <2>2. proc' \in {"up", "down"} /\ pc' \in PCs
          /\ pinned' \in Keys \union {NoKey}
      BY <1>2 DEF PCs
    <2>3. touched' \in BOOLEAN /\ done' \in BOOLEAN /\ stopped' \in {"no", "yes", "late"}
      BY <1>1, Zenon
    <2>4. attempt' \in 0 .. MaxAttempt /\ status' \in States
      BY <1>1 DEF States
    <2>5. file' \in Keys \union {NoKey, BlankFile}
      BY <1>1 DEF TypeOK
    <2> QED
      BY <1>1, <2>1, <2>2, <2>3, <2>4, <2>5, Zenon DEF TypeOK
  <1>4. MonitorPlace' /\ HeldTrust'
    BY <1>1, <1>2 DEF MonitorPlace, HeldTrust
  <1>5. NoAbandonedTransport' /\ ConnectedIsProbed'
    BY <1>1 DEF NoAbandonedTransport, ConnectedIsProbed, Open
  <1> QED
    BY <1>3, <1>4, <1>5

(* The operator and the network preserve the invariant: an edited file is   *)
(* marked, and a transport never reopens.                                   *)
LEMMA EnvironmentSteps ==
  ASSUME IInv,
         \/ \E f \in Keys \union {NoKey, BlankFile} : OperatorEdits(f)
         \/ \E c \in Clients :
              PeerSticks(c) \/ PeerRecovers(c) \/ TransportDies(c)
  PROVE  IInv'
  <1> USE DialerAssumption DEF IInv, monitorVars, dialerVars
  <1>1. ASSUME NEW f \in Keys \union {NoKey, BlankFile}, OperatorEdits(f)
        PROVE  IInv'
    <2> USE <1>1 DEF OperatorEdits
    <2>1. TypeOK'
      BY DEF TypeOK
    <2>2. MonitorPlace'
      BY DEF MonitorPlace
    <2>3. HeldTrust'
      BY Zenon DEF HeldTrust, MonitorPlace, TypeOK
    <2>4. NoAbandonedTransport' /\ ConnectedIsProbed'
      BY DEF NoAbandonedTransport, ConnectedIsProbed
    <2> QED
      BY <2>1, <2>2, <2>3, <2>4
  <1>2. ASSUME NEW c \in Clients,
               PeerSticks(c) \/ PeerRecovers(c) \/ TransportDies(c)
        PROVE  IInv'
    <2>1. /\ transport[c] \in Open
          /\ \E to \in {"live", "stuck", "dead"} :
               transport' = [transport EXCEPT ![c] = to]
          /\ UNCHANGED <<proc, file, touched, pc, held, pinned, attempt, client,
                         rawConn, status, done, stopped, hostKey, kp>>
      BY <1>2 DEF PeerSticks, PeerRecovers, TransportDies, TransportChanges,
                  Open
    <2> HIDE <1>2
    <2> USE <2>1
    <2>2. TypeOK'
      BY SMTT(30), SMTT(60) DEF TypeOK
    <2>3. MonitorPlace' /\ HeldTrust'
      BY DEF MonitorPlace, HeldTrust, TypeOK, Open
    <2>4. NoAbandonedTransport' /\ ConnectedIsProbed'
      BY DEF NoAbandonedTransport, ConnectedIsProbed, TypeOK, Open
    <2> QED
      BY <2>2, <2>3, <2>4
  <1> QED
    BY <1>1, <1>2

(* The monitor's steps preserve the invariant. *)
LEMMA MonitorSteps == IInv /\ Monitor => IInv'
  <1> SUFFICES ASSUME IInv, Monitor PROVE IInv'
    OBVIOUS
  <1> USE DialerAssumption
      DEF IInv, TypeOK, PCs, States, FailStates, Open, MonitorPlace, HeldTrust,
          NoAbandonedTransport, ConnectedIsProbed, dialerVars
  <1>1. CASE MonitorWaitReturns
    BY <1>1 DEF MonitorWaitReturns
  <1>2. CASE MonitorDrops
    BY <1>2 DEF MonitorDrops
  <1>3. CASE MonitorReportsLoss
    BY <1>3 DEF MonitorReportsLoss
  <1>4. CASE MonitorWakes
    BY SMTT(30), SMTT(60), <1>4 DEF MonitorWakes
  <1>5. ASSUME NEW st \in FailStates, MonitorConnectFails(st)
        PROVE  IInv'
    BY SMTT(30), SMTT(60), <1>5 DEF MonitorConnectFails, ConnectFailed
  <1>6. ASSUME NEW c \in Clients, NEW k \in Keys, MonitorHandshake(c, k)
        PROVE  IInv'
    BY <1>6 DEF MonitorHandshake, Fresh
  <1>7. CASE MonitorSavesKey
    BY <1>7, ZenonT(60) DEF MonitorSavesKey
  <1>8. CASE MonitorSaveFails
    BY <1>8 DEF MonitorSaveFails, ConnectFailed, Closed
  <1>9. CASE MonitorChecksDone
    BY <1>9 DEF MonitorChecksDone, Closed
  <1>10. CASE MonitorPublishes
    BY SMTT(30), SMTT(60), <1>10 DEF MonitorPublishes, Closed
  <1>11. CASE MonitorAnnounces
    BY <1>11 DEF MonitorAnnounces
  <1> QED
    BY <1>1, <1>2, <1>3, <1>4, <1>5, <1>6, <1>7, <1>8, <1>9, <1>10, <1>11, Zenon
    DEF Monitor

(* The keepalive loops and stop() preserve the invariant: a loop ends only  *)
(* when its client is not the published one, is closed, or done is set.     *)
LEMMA KeepaliveStopSteps ==
  ASSUME IInv,
         \/ \E c \in Clients : KeepaliveLoop(c)
         \/ StopSetsDone
         \/ StopClosesClient
  PROVE  IInv'
  <1> USE DialerAssumption
      DEF IInv, TypeOK, Open, MonitorPlace, HeldTrust, NoAbandonedTransport,
          ConnectedIsProbed, monitorVars, dialerVars
  <1>1. ASSUME NEW c \in Clients, KeepaliveTick(c)
        PROVE  IInv'
    BY SMTT(30), SMTT(60), <1>1 DEF KeepaliveTick, KeepaliveStep
  <1>2. ASSUME NEW c \in Clients, KeepaliveAnswered(c)
        PROVE  IInv'
    BY SMTT(30), SMTT(60), <1>2 DEF KeepaliveAnswered, KeepaliveStep
  <1>3. ASSUME NEW c \in Clients, KeepaliveUnanswered(c)
        PROVE  IInv'
    BY SMTT(30), SMTT(60), <1>3 DEF KeepaliveUnanswered, KeepaliveStep
  <1>4. ASSUME NEW c \in Clients, KeepaliveCloses(c)
        PROVE  IInv'
    BY SMTT(30), SMTT(60), <1>4 DEF KeepaliveCloses, KeepaliveStep, Closed
  <1>5. CASE StopSetsDone
    BY SMTT(30), SMTT(60), <1>5 DEF StopSetsDone
  <1>6. CASE StopClosesClient
    BY <1>6 DEF StopClosesClient, Closed
  <1> QED
    BY <1>1, <1>2, <1>3, <1>4, <1>5, <1>6, ZenonT(60) DEF KeepaliveLoop

------------------------------------------------------------------------------
(* IInv is an invariant of the dialer, whatever the network, the operator   *)
(* and the scheduler do.                                                    *)
THEOREM InductiveInvariant == Spec => []IInv
  <1>1. IInv /\ [Next]_vars => IInv'
    <2> SUFFICES ASSUME IInv, [Next]_vars PROVE IInv'
      OBVIOUS
    <2>1. CASE Next
      BY ZenonT(30), SMTT(30), <2>1, ProcessSteps, EnvironmentSteps, MonitorSteps, KeepaliveStopSteps
      DEF Next, Environment
    <2>2. CASE UNCHANGED vars
      BY <2>2 DEF vars, IInv, TypeOK, MonitorPlace, HeldTrust,
                  NoAbandonedTransport, ConnectedIsProbed
    <2> QED
      BY <2>1, <2>2
  <1> QED
    BY <1>1, InitIInv, PTL DEF Spec

(* The variables of the dialer keep their types. *)
THEOREM TypeCorrect == Spec => []TypeOK
  BY InductiveInvariant, PTL DEF IInv

(* Every open SSH transport is in the monitor's hands, or a stop() to come   *)
(* finds it, or it is the one client that was between the monitor's last     *)
(* look at d.done and d.client when stop() looked, for any number of clients *)
(* and reconnects.                                                           *)
THEOREM NoLeak == Spec => []NoAbandonedTransport
  BY InductiveInvariant, PTL DEF IInv

(* The host key of a published tunnel is the pinned one and, unless the     *)
(* operator edited the file, the one the next process start will check.     *)
THEOREM TrustIsSaved == Spec => []TrustSurvivesRestart
  <1>1. IInv => TrustSurvivesRestart
    BY DialerAssumption DEF IInv, HeldTrust, TrustSurvivesRestart
  <1> QED
    BY <1>1, InductiveInvariant, PTL

(* With keepalive on, an open published tunnel always has its probe loop.   *)
THEOREM AlwaysProbed == Spec => []ConnectedIsProbed
  BY InductiveInvariant, PTL DEF IInv

(* Connected() and Status() disagree only inside the monitor's two windows. *)
THEOREM StatusAgrees == Spec => []StatusTellsConnected
  <1>1. IInv => StatusTellsConnected
    BY DialerAssumption DEF IInv, TypeOK, PCs, MonitorPlace, StatusTellsConnected
  <1> QED
    BY <1>1, InductiveInvariant, PTL

(* A step takes a client out of d.client only when its transport is dead or *)
(* the process ends.                                                        *)
THEOREM TunnelKept == Spec => LiveTunnelKept
  <1>1. IInv /\ [Next]_vars =>
          [client # NoClient /\ client' # client =>
             transport[client] = "dead" \/ proc' = "down"]_vars
    <2> SUFFICES ASSUME IInv, Next, client # NoClient, client' # client
                 PROVE  transport[client] = "dead" \/ proc' = "down"
      BY DEF vars
    <2> USE DialerAssumption
        DEF IInv, MonitorPlace, dialerVars, monitorVars
    <2>1. CASE Start \/ Crash
      BY <2>1 DEF Start, Crash
    <2>2. CASE MonitorDrops \/ MonitorPublishes
      BY <2>2, ZenonT(30), SMTT(60) DEF MonitorDrops, MonitorPublishes
    <2>3. CASE Monitor
      BY ZenonT(30), SMTT(30), <2>2, <2>3
      DEF Monitor, MonitorWaitReturns, MonitorReportsLoss, MonitorWakes,
          MonitorConnectFails, ConnectFailed, MonitorHandshake,
          MonitorSavesKey, MonitorSaveFails, MonitorChecksDone,
          MonitorAnnounces
    <2>4. CASE \E c \in Clients : KeepaliveLoop(c)
      BY <2>4, ZenonT(30), SMTT(60) DEF KeepaliveLoop, KeepaliveTick, KeepaliveAnswered,
                  KeepaliveUnanswered, KeepaliveCloses, KeepaliveStep
    <2>5. CASE StopSetsDone \/ StopClosesClient
      BY <2>5 DEF StopSetsDone, StopClosesClient
    <2>6. CASE Environment
      BY <2>1, <2>6
      DEF Environment, OperatorEdits, PeerSticks, PeerRecovers,
          TransportDies, TransportChanges
    <2> QED
      BY <2>1, <2>3, <2>4, <2>5, <2>6 DEF Next
  <1> QED
    BY <1>1, InductiveInvariant, PTL DEF Spec, LiveTunnelKept

(* Every step of the dialer is a step of Tunnel or leaves it unchanged. *)
LEMMA StepImplements ==
  ASSUME IInv, Next
  PROVE  Promise!Next \/ UNCHANGED Promise!vars
  <1> USE DialerAssumption
      DEF IInv, TypeOK, MonitorPlace, HeldTrust, monitorVars, dialerVars
  <1>1. CASE Start
    <2>1. Promise!Begins
      BY <1>1 DEF Start, Volatile, Promise!Begins
    <2> QED
      BY <2>1 DEF Promise!Next
  <1>2. CASE Crash
    <2>1. Promise!Ends
      BY <1>2 DEF Crash, Volatile, Promise!Ends
    <2> QED
      BY <2>1 DEF Promise!Next
  <1>3. ASSUME NEW f \in Keys \union {NoKey, BlankFile}, OperatorEdits(f)
        PROVE  Promise!Next
    <2>1. Promise!Edits
      BY <1>3 DEF OperatorEdits, Promise!Edits
    <2> QED
      BY <2>1 DEF Promise!Next
  (* A step that only touches transports moves the link along LinkSteps.    *)
  <1>4. ASSUME UNCHANGED <<proc, file, pc, held, pinned, client, hostKey>>,
               transport' \in [Clients -> {"free", "live", "stuck", "dead"}]
        PROVE  Promise!Next \/ UNCHANGED Promise!vars
    <2>1. CASE client = NoClient
      BY <1>4, <2>1 DEF Promise!vars
    <2>2. CASE client # NoClient /\ (transport[client] = "live" <=> transport'[client] = "live")
      BY <1>4, <2>2 DEF Promise!vars
    <2>3. CASE client # NoClient /\ ~(transport[client] = "live" <=> transport'[client] = "live")
      <3>1. Promise!Changes
        BY <1>4, <2>3 DEF Promise!Changes, Promise!LinkSteps
      <3> QED
        BY <3>1 DEF Promise!Next
    <2> QED
      BY <2>1, <2>2, <2>3
  <1>5. ASSUME NEW c \in Clients,
               PeerSticks(c) \/ PeerRecovers(c) \/ TransportDies(c)
        PROVE  Promise!Next \/ UNCHANGED Promise!vars
    <2>1. UNCHANGED <<proc, file, pc, held, pinned, client, hostKey>>
      BY SMTT(30), SMTT(60), <1>5 DEF PeerSticks, PeerRecovers, TransportDies, TransportChanges
    <2>2. transport' \in [Clients -> {"free", "live", "stuck", "dead"}]
      BY ZenonT(30), SMTT(30), <1>5 DEF PeerSticks, PeerRecovers, TransportDies, TransportChanges
    <2> QED
      BY ZenonT(30), SMTT(30), <2>1, <2>2, <1>4
  <1>6. ASSUME NEW c \in Clients, KeepaliveLoop(c)
        PROVE  Promise!Next \/ UNCHANGED Promise!vars
    <2>1. UNCHANGED <<proc, file, pc, held, pinned, client, hostKey>>
      BY ZenonT(30), SMTT(30), <1>6 DEF KeepaliveLoop, KeepaliveTick, KeepaliveAnswered,
                  KeepaliveUnanswered, KeepaliveCloses, KeepaliveStep
    <2>2. transport' \in [Clients -> {"free", "live", "stuck", "dead"}]
      BY <1>6 DEF KeepaliveLoop, KeepaliveTick, KeepaliveAnswered,
                  KeepaliveUnanswered, KeepaliveCloses, KeepaliveStep, Closed
    <2> QED
      BY <2>1, <2>2, <1>4
  <1>7. CASE StopSetsDone \/ StopClosesClient
    <2>1. UNCHANGED <<proc, file, pc, held, pinned, client, hostKey>>
      BY <1>7 DEF StopSetsDone, StopClosesClient
    <2>2. transport' \in [Clients -> {"free", "live", "stuck", "dead"}]
      BY SMTT(30), SMTT(60), <1>7 DEF StopSetsDone, StopClosesClient, Closed
    <2> QED
      BY SMTT(30), SMTT(60), <2>1, <2>2, <1>4
  <1>8. CASE Monitor
    <2>1. CASE MonitorWaitReturns
      BY ZenonT(30), SMTT(30), <1>8, <2>1 DEF MonitorWaitReturns, Promise!vars
    <2>2. CASE MonitorDrops
      <3>1. Promise!Changes
        BY ZenonT(30), SMTT(30), <2>2 DEF MonitorDrops, Promise!Changes, Promise!LinkSteps
      <3> QED
        BY <3>1 DEF Promise!Next
    <2>3. CASE MonitorReportsLoss \/ MonitorWakes \/ MonitorAnnounces
      BY SMTT(30), SMTT(60), <2>3 DEF MonitorReportsLoss, MonitorWakes, MonitorAnnounces, Promise!vars
    <2>4. ASSUME NEW st \in FailStates, MonitorConnectFails(st)
          PROVE  UNCHANGED Promise!vars
      BY SMTT(30), SMTT(60), <2>4 DEF MonitorConnectFails, ConnectFailed, Promise!vars
    <2>5. ASSUME NEW c \in Clients, NEW k \in Keys, MonitorHandshake(c, k)
          PROVE  UNCHANGED Promise!vars
      BY SMTT(30), SMTT(60), <2>5 DEF MonitorHandshake, Promise!vars
    <2>6. CASE MonitorSavesKey
      <3>1. Promise!Saves(hostKey[held]) /\ hostKey[held] \in Keys
        BY SMTT(30), SMTT(60), <2>6 DEF MonitorSavesKey, Promise!Saves
      <3> QED
        BY SMTT(30), SMTT(60), <3>1 DEF Promise!Next
    <2>7. CASE MonitorSaveFails
      BY <2>7 DEF MonitorSaveFails, ConnectFailed, Closed, Promise!vars
    <2>8. CASE MonitorChecksDone
      <3>1. CASE pc' = "publish" \/ pinned # NoKey
        BY <2>8, <3>1 DEF MonitorChecksDone, Closed, Promise!vars
      <3>2. CASE pc' # "publish" /\ pinned = NoKey
        <4>1. Promise!Withdraws
          BY SMTT(30), SMTT(60), <2>8, <3>2 DEF MonitorChecksDone, Closed, Promise!Withdraws
        <4> QED
          BY ZenonT(30), SMTT(30), <4>1 DEF Promise!Next
      <3> QED
        BY SMTT(30), SMTT(60), <3>1, <3>2
    <2>9. CASE MonitorPublishes
      <3>1. Promise!Connects(hostKey[held]) /\ hostKey[held] \in Keys
        BY <2>9 DEF MonitorPublishes, Closed, Promise!Connects
      <3> QED
        BY ZenonT(30), SMTT(30), <3>1 DEF Promise!Next
    <2> QED
      BY SMTT(30), SMTT(60), <1>8, <2>1, <2>2, <2>3, <2>4, <2>5, <2>6, <2>7, <2>8, <2>9 DEF Monitor
  <1> QED
    BY <1>1, <1>2, <1>3, <1>5, <1>6, <1>7, <1>8 DEF Next, Environment

(* The dialer implements Tunnel, for any clients and keys: the link the     *)
(* resolvers rely on and trust on first use are what the monitor, keepalive *)
(* and stop() provide together.                                             *)
THEOREM DialerIsTunnel == Spec => ImplementsTunnel
  <1>1. Init => Promise!Init
    BY DialerAssumption DEF Init, Promise!Init
  <1>2. IInv /\ [Next]_vars => [Promise!Next]_(Promise!vars)
    <2>1. CASE UNCHANGED vars
      BY <2>1 DEF vars, Promise!vars
    <2> QED
      BY <2>1, StepImplements
  <1> QED
    BY <1>1, <1>2, InductiveInvariant, PTL DEF Spec, ImplementsTunnel, Promise!Spec

------------------------------------------------------------------------------
(* The backoff.  Within the cap of the shift nothing is shifted out.         *)
LEMMA SmallPowers ==
  /\ 2^0 = 1 /\ 2^1 = 2 /\ 2^2 = 4 /\ 2^3 = 8 /\ 2^4 = 16 /\ 2^5 = 32 /\ 2^6 = 64
OBVIOUS

LEMMA PowersBounded ==
  ASSUME NEW n \in 0 .. 6
  PROVE  2^n \in Nat /\ 1 <= 2^n /\ 2^n <= 64
<1>1. n \in {0, 1, 2, 3, 4, 5, 6}
  OBVIOUS
<1>2. CASE n = 0
  BY <1>2, SmallPowers
<1>3. CASE n = 1
  BY <1>3, SmallPowers
<1>4. CASE n = 2
  BY <1>4, SmallPowers
<1>5. CASE n = 3
  BY <1>5, SmallPowers
<1>6. CASE n = 4
  BY <1>6, SmallPowers
<1>7. CASE n = 5
  BY <1>7, SmallPowers
<1>8. CASE n = 6
  BY <1>8, SmallPowers
<1> QED BY Zenon, <1>1, <1>2, <1>3, <1>4, <1>5, <1>6, <1>7, <1>8

LEMMA PowersDouble ==
  ASSUME NEW n \in 0 .. 5
  PROVE  2^(n + 1) = 2 * 2^n
<1>1. n \in {0, 1, 2, 3, 4, 5}
  OBVIOUS
<1>2. CASE n = 0
  BY <1>2, SmallPowers
<1>3. CASE n = 1
  BY <1>3, SmallPowers
<1>4. CASE n = 2
  BY <1>4, SmallPowers
<1>5. CASE n = 3
  BY <1>5, SmallPowers
<1>6. CASE n = 4
  BY <1>6, SmallPowers
<1>7. CASE n = 5
  BY <1>7, SmallPowers
<1> QED BY Zenon, <1>1, <1>2, <1>3, <1>4, <1>5, <1>6, <1>7

LEMMA ShlExact ==
  ASSUME NEW n \in 0 .. 6
  PROVE  Shl(BaseDelay, n) = BaseDelay * 2^n
<1> DEFINE half == 2^(WordBits - 1)
           y == BaseDelay * 2^n
<1>1. half \in Int /\ BaseDelay * 2^6 < half
  BY BackoffAssumption
<1>2. 2^n \in Nat /\ 2^n <= 64
  BY Zenon, PowersBounded
<1>3. y \in Nat /\ y <= BaseDelay * 2^6
  BY <1>2, SmallPowers, BackoffAssumption
<1>4. Shl(BaseDelay, n) = ((y + half) % (2 * half)) - half
  BY DEF Shl
<1> HIDE DEF half, y
<1>5. half \in Nat /\ y < half
  BY <1>1, <1>3, BackoffAssumption, SmallPowers
<1>6. ((y + half) % (2 * half)) - half = y
  BY <1>3, <1>5
<1> QED BY <1>4, <1>6 DEF y

(* The delay after n failures: the doubled base, capped. *)
LEMMA DelayIs ==
  ASSUME NEW n \in Nat
  PROVE  LET s == IF n > 6 THEN 6 ELSE n
             d == BaseDelay * 2^s
         IN  reconnectDelay(n) = IF d > MaxDelay THEN MaxDelay ELSE d
<1> DEFINE s == IF n > 6 THEN 6 ELSE n
<1>1. s \in 0 .. 6
  OBVIOUS
<1>2. Shl(BaseDelay, s) = BaseDelay * 2^s
  <2> HIDE DEF s
  <2> QED BY ZenonT(30), <1>1, ShlExact
<1> QED BY Zenon, <1>2 DEF reconnectDelay

(* Only a failed connect counts up. *)
LEMMA AttemptSteps ==
  ASSUME [Next]_vars
  PROVE  attempt' = 0 \/ attempt' = attempt \/ (attempt < MaxAttempt /\ attempt' = attempt + 1)
<1>1. CASE Start \/ Environment
  BY SMTT(30), SMTT(60), <1>1 DEF Start, Environment, Crash, OperatorEdits, PeerSticks, PeerRecovers,
              TransportDies, TransportChanges, Volatile, monitorVars
<1>2. CASE Monitor
  BY <1>2 DEF Monitor, MonitorWaitReturns, MonitorDrops, MonitorReportsLoss, MonitorWakes,
              MonitorConnectFails, MonitorHandshake, MonitorSavesKey, MonitorSaveFails,
              MonitorChecksDone, MonitorPublishes, MonitorAnnounces, ConnectFailed
<1>3. CASE \E c \in Clients : KeepaliveLoop(c)
  BY ZenonT(30), <1>3 DEF KeepaliveLoop, KeepaliveTick, KeepaliveAnswered, KeepaliveUnanswered,
              KeepaliveCloses, KeepaliveStep, monitorVars
<1>4. CASE StopSetsDone \/ StopClosesClient \/ UNCHANGED vars
  BY <1>4 DEF StopSetsDone, StopClosesClient, monitorVars, vars
<1> QED BY SMTT(30), SMTT(60), <1>1, <1>2, <1>3, <1>4 DEF Next

(* The wait neither falls below the cap nor overflows as attempts fail,      *)
(* whatever the jitter: each failure is followed by a wait of at least       *)
(* baseDelay, longer than the one before unless that reached maxDelay, and   *)
(* below maxDelay and the jitter's bound, for any base, cap, jitter and word *)
(* that fit together as the code's do, and any number of failed attempts.    *)
THEOREM BackoffNeverFalls == Spec => BackoffHolds
<1>1. IInv /\ [Next]_vars
        => [attempt' > attempt =>
              \A d \in Delays, e \in Delays' :
                /\ BaseDelay <= e /\ e < MaxDelay + Jitter
                /\ d < e \/ MaxDelay <= d]_vars
  <2> SUFFICES ASSUME IInv, [Next]_vars, attempt' > attempt,
                      NEW d \in Delays, NEW e \in Delays'
               PROVE  /\ BaseDelay <= e /\ e < MaxDelay + Jitter
                      /\ d < e \/ MaxDelay <= d
    OBVIOUS
  <2>1. attempt \in Nat
    BY DialerAssumption DEF IInv, TypeOK
  <2>2. attempt' = attempt + 1
    BY <2>1, AttemptSteps
  <2> DEFINE n == attempt
             s == IF n > 6 THEN 6 ELSE n
             t == IF n + 1 > 6 THEN 6 ELSE n + 1
             x == BaseDelay * 2^s
             y == BaseDelay * 2^t
             Capped(z) == IF z > MaxDelay THEN MaxDelay ELSE z
  <2>3. reconnectDelay(n) = Capped(x) /\ reconnectDelay(n + 1) = Capped(y)
    BY <2>1, DelayIs
  <2>4. PICK j \in 0 .. Jitter - 1 : e = Capped(y) + j
    <3>1. Delays' = {reconnectDelay(attempt') + i : i \in 0 .. Jitter - 1}
      BY <2>1, <2>2 DEF Delays, reconnectDelay, Shl
    <3> QED BY <2>2, <2>3, <3>1
  <2>5. d = 0 \/ \E i \in 0 .. Jitter - 1 : d = Capped(x) + i
    BY <2>3 DEF Delays
  <2>6. s \in 0 .. 6 /\ t \in 1 .. 6 /\ ((s = 6 /\ t = 6) \/ (s \in 0 .. 5 /\ t = s + 1))
    BY <2>1
  <2> HIDE DEF s, t
  <2>7. 2^s \in Nat /\ 2^t \in Nat /\ 1 <= 2^s /\ 1 <= 2^t
    <3>1. s \in 0 .. 6 /\ t \in 0 .. 6
      BY <2>6
    <3> QED BY Zenon, <3>1, PowersBounded
  <2>8. x \in Nat /\ y \in Nat /\ BaseDelay <= x /\ BaseDelay <= y
    BY <2>7, BackoffAssumption
  <2>9. MaxDelay <= x \/ x + BaseDelay <= y
    <3>1. CASE s = 6
      BY <3>1, BackoffAssumption
    <3>2. CASE s \in 0 .. 5 /\ t = s + 1
      <4>1. 2^(s + 1) = 2 * 2^s
        BY Zenon, <3>2, PowersDouble
      <4>2. y = x + BaseDelay * 2^s
        BY <2>7, <3>2, <4>1, BackoffAssumption
      <4> QED BY <2>7, <2>8, <4>2, BackoffAssumption
    <3> QED BY Zenon, <2>6, <3>1, <3>2
  <2> HIDE DEF x, y
  <2>10. BaseDelay <= e /\ e < MaxDelay + Jitter
    BY <2>4, <2>8, BackoffAssumption
  <2>11. CASE d = 0
    BY <2>10, <2>11, <2>4, <2>8, BackoffAssumption
  <2>12. CASE \E i \in 0 .. Jitter - 1 : d = Capped(x) + i
    BY <2>4, <2>8, <2>9, <2>12, BackoffAssumption
  <2> QED BY Zenon, <2>5, <2>10, <2>11, <2>12
<1> QED BY <1>1, InductiveInvariant, PTL DEF Spec, BackoffHolds
==============================================================================
