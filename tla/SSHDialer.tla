------------------------------ MODULE SSHDialer ------------------------------
(***************************************************************************)
(* The SSH tunnel of ssh-gate (dialer.go): the monitor goroutine that owns *)
(* the connection, one keepalive goroutine per published client, stop(),   *)
(* the ssh_known_hosts file that pins the host key, the operator who edits *)
(* that file, and process crashes and restarts.                            *)
(*                                                                         *)
(* A client stands for an *ssh.Client with its transport.  Go reuses the   *)
(* memory of a client only when nothing refers to it any more, so a finite *)
(* set of clients models any number of reconnects: see Fresh.              *)
(***************************************************************************)
EXTENDS Integers

CONSTANTS
  Clients,      \* addresses an *ssh.Client can have
  NoClient,     \* the nil *ssh.Client
  Keys,         \* host key fingerprints
  NoKey,        \* the empty fingerprint; also a missing ssh_known_hosts
  BlankFile,    \* an ssh_known_hosts that is empty after trimming
  Keepalive,    \* keepalivePeriod > 0
  BaseDelay,    \* reconnectDelay's baseDelay
  MaxDelay,     \* reconnectDelay's maxDelay
  Jitter,       \* what rand.Intn is given: the jitter stays below it
  WordBits,     \* width of time.Duration
  MaxAttempt    \* bound: the failed-attempt counter saturates here

ASSUME DialerAssumption ==
  /\ NoClient \notin Clients
  /\ NoKey \notin Keys /\ BlankFile \notin Keys /\ NoKey # BlankFile
  /\ Keepalive \in BOOLEAN
  /\ MaxAttempt \in Nat

(* One second, 60 seconds and half a second.  The shift is capped at 6: the   *)
(* base shifted by 6 is over the maximum and still fits a word.               *)
ASSUME BackoffAssumption ==
  /\ BaseDelay \in Nat /\ MaxDelay \in Nat /\ BaseDelay <= MaxDelay
  /\ MaxDelay <= BaseDelay * 2^6
  /\ Jitter \in Nat \ {0} /\ Jitter <= BaseDelay
  /\ WordBits \in Nat \ {0}
  /\ BaseDelay * 2^6 < 2^(WordBits - 1)

VARIABLES
  proc,       \* is the process running
  file,       \* content of ssh_known_hosts
  touched,    \* history: the operator edited file since the process last
              \* read or wrote it
  pc,         \* where the monitor goroutine is
  held,       \* the monitor's local: client while it waits, else newClient
  pinned,     \* the monitor's local of that name
  attempt,    \* the monitor's local of that name
  client,     \* d.client
  rawConn,    \* d.rawConn, named by the client it belongs to
  status,     \* d.status.State
  done,       \* d.done
  stopped,    \* has stop() returned; "late" if it looked for a client while
              \* the monitor was between its last look at done and d.client
  transport,  \* what the network has made of each client's connection
  hostKey,    \* the key each client's server presented
  kp          \* where each client's keepalive goroutine is

monitorVars == <<pc, held, pinned, attempt>>
dialerVars == <<client, rawConn, status>>
vars == <<proc, file, touched, pc, held, pinned, attempt, client, rawConn,
          status, done, stopped, transport, hostKey, kp>>

(* "failed" stands for key_rejected, unreachable and ssh_error: the dialer   *)
(* treats them alike.                                                        *)
FailStates == {"host_key_mismatch", "failed"}

States == {"connecting", "connected", "reconnecting"} \union FailStates

PCs == {"off", "sleep", "dialing", "saving", "dialed", "publish", "announce",
        "wait", "drop", "lost", "returned"}

Open == {"live", "stuck"}    \* the transport still holds a socket

TypeOK ==
  /\ proc \in {"up", "down"}
  /\ file \in Keys \union {NoKey, BlankFile}
  /\ touched \in BOOLEAN
  /\ pc \in PCs
  /\ held \in Clients \union {NoClient}
  /\ pinned \in Keys \union {NoKey}
  /\ attempt \in 0 .. MaxAttempt
  /\ client \in Clients \union {NoClient}
  /\ rawConn \in Clients \union {NoClient}
  /\ status \in States
  /\ done \in BOOLEAN
  /\ stopped \in {"no", "yes", "late"}
  /\ transport \in [Clients -> {"free", "live", "stuck", "dead"}]
  /\ hostKey \in [Clients -> Keys \union {NoKey}]
  /\ kp \in [Clients -> {"none", "idle", "probing", "closing"}]

------------------------------------------------------------------------------
(* reconnectDelay: the doubled base, capped.  The shift is Go's, on a signed *)
(* word of WordBits bits: bits shifted out are lost and the top bit is the   *)
(* sign.                                                                     *)

Shl(x, n) ==
  LET half == 2^(WordBits - 1)
  IN  ((x * 2^n + half) % (2 * half)) - half

(* Mutant: the shift is not capped. *)
UncappedDelay(n) ==
  LET delay == Shl(BaseDelay, n)
  IN  IF delay > MaxDelay THEN MaxDelay ELSE delay

reconnectDelay(n) ==
  LET shift == IF n > 6 THEN 6 ELSE n
      delay == Shl(BaseDelay, shift)
  IN  IF delay > MaxDelay THEN MaxDelay ELSE delay

(* What the delay before the next dial can be: a jitter is added to it.  It  *)
(* is zero on the first pass and after a successful connect.                 *)
Delays ==
  IF attempt = 0 THEN {0} ELSE {reconnectDelay(attempt) + j : j \in 0 .. Jitter - 1}

------------------------------------------------------------------------------
(* A process that is not running has none of the dialer's state.            *)
Volatile(at, key) ==
  /\ pc' = at
  /\ pinned' = key
  /\ held' = NoClient
  /\ attempt' = 0
  /\ client' = NoClient
  /\ rawConn' = NoClient
  /\ status' = "connecting"
  /\ done' = FALSE
  /\ stopped' = "no"
  /\ touched' = FALSE
  /\ transport' = [c \in Clients |-> "free"]
  /\ hostKey' = [c \in Clients |-> NoKey]
  /\ kp' = [c \in Clients |-> "none"]

Init ==
  /\ proc = "down" /\ file = NoKey /\ touched = FALSE
  /\ pc = "off" /\ held = NoClient /\ pinned = NoKey /\ attempt = 0
  /\ client = NoClient /\ rawConn = NoClient /\ status = "connecting"
  /\ done = FALSE /\ stopped = "no"
  /\ transport = [c \in Clients |-> "free"]
  /\ hostKey = [c \in Clients |-> NoKey]
  /\ kp = [c \in Clients |-> "none"]

(* Mutant: the saved fingerprint is not loaded, each start trusts anew. *)
StartTrustsAnew ==
  /\ proc = "down"
  /\ file # BlankFile
  /\ proc' = "up"
  /\ Volatile("sleep", NoKey)
  /\ UNCHANGED file

(* newSSHDialer: a missing file leaves trust on first use to the first      *)
(* connect, a blank one is a configuration error and the process exits.     *)
Start ==
  /\ proc = "down"
  /\ file # BlankFile
  /\ proc' = "up"
  /\ Volatile("sleep", file)
  /\ UNCHANGED file

(* The process exits or is killed: its sockets go with it.                  *)
Crash ==
  /\ proc = "up"
  /\ proc' = "down"
  /\ Volatile("off", NoKey)
  /\ UNCHANGED file

(* The operator deletes ssh_known_hosts, blanks it or writes a fingerprint. *)
OperatorEdits(f) ==
  /\ f # file
  /\ file' = f
  /\ touched' = (proc = "up")
  /\ UNCHANGED <<proc, monitorVars, dialerVars, done, stopped, transport,
                 hostKey, kp>>

------------------------------------------------------------------------------
(* The network: a peer gets stuck with the TCP connection alive, answers    *)
(* again, or the connection dies.                                           *)

TransportChanges(c, from, to) ==
  /\ transport[c] \in from
  /\ transport' = [transport EXCEPT ![c] = to]
  /\ UNCHANGED <<proc, file, touched, monitorVars, dialerVars, done, stopped,
                 hostKey, kp>>

PeerSticks(c) == TransportChanges(c, {"live"}, "stuck")
PeerRecovers(c) == TransportChanges(c, {"stuck"}, "live")
TransportDies(c) == TransportChanges(c, Open, "dead")

Closed(c) == IF c = NoClient THEN transport ELSE [transport EXCEPT ![c] = "dead"]

------------------------------------------------------------------------------
(* The monitor goroutine.  Only it writes d.client, so reading d.client at  *)
(* the top of the loop is folded into the step before.                      *)

(* Mutant: the monitor does not wait for the transport to die. *)
MonitorWaitSkipped ==
  /\ pc = "wait"
  /\ pc' = IF done THEN "returned" ELSE "drop"
  /\ UNCHANGED <<proc, file, touched, held, pinned, attempt, dialerVars, done,
                 stopped, transport, hostKey, kp>>

(* client.Wait() returns when the transport is dead.                        *)
MonitorWaitReturns ==
  /\ pc = "wait"
  /\ transport[held] = "dead"
  /\ pc' = IF done THEN "returned" ELSE "drop"
  /\ UNCHANGED <<proc, file, touched, held, pinned, attempt, dialerVars, done,
                 stopped, transport, hostKey, kp>>

(* Mutant: the loss is not reported. *)
MonitorDropsSilently ==
  /\ pc = "drop"
  /\ client' = NoClient
  /\ held' = NoClient
  /\ pc' = "sleep"
  /\ UNCHANGED <<proc, file, touched, pinned, attempt, rawConn, status, done,
                 stopped, transport, hostKey, kp>>

MonitorDrops ==
  /\ pc = "drop"
  /\ client' = NoClient
  /\ pc' = "lost"
  /\ UNCHANGED <<proc, file, touched, held, pinned, attempt, rawConn, status,
                 done, stopped, transport, hostKey, kp>>

MonitorReportsLoss ==
  /\ pc = "lost"
  /\ status' = "reconnecting"
  /\ held' = NoClient
  /\ pc' = "sleep"
  /\ UNCHANGED <<proc, file, touched, pinned, attempt, client, rawConn, done,
                 stopped, transport, hostKey, kp>>

(* time.Sleep(delay) is over.                                               *)
MonitorWakes ==
  /\ pc = "sleep"
  /\ pc' = IF done THEN "returned" ELSE "dialing"
  /\ UNCHANGED <<proc, file, touched, held, pinned, attempt, dialerVars, done,
                 stopped, transport, hostKey, kp>>

(* The error branch of the loop: count, back off, report, dial again.       *)
ConnectFailed(st) ==
  /\ attempt' = IF attempt < MaxAttempt THEN attempt + 1 ELSE attempt
  /\ status' = st
  /\ held' = NoClient
  /\ pc' = "sleep"
  /\ UNCHANGED <<proc, file, touched, pinned, client, rawConn, done, stopped,
                 hostKey, kp>>

(* connectSSH fails before it has a client: the key file is unreadable, the *)
(* VPS unreachable, the handshake fails.  Only a pinned key can mismatch.   *)
MonitorConnectFails(st) ==
  /\ pc = "dialing"
  /\ st = "host_key_mismatch" => pinned # NoKey /\ \E k \in Keys : k # pinned
  /\ ConnectFailed(st)
  /\ UNCHANGED transport

(* An address the allocator can hand out for a new client.                  *)
Fresh(c) ==
  /\ c \notin {client, rawConn, held}
  /\ kp[c] = "none"
  /\ transport[c] \in {"free", "dead"}

(* The handshake succeeds with host key k.                                  *)
MonitorHandshake(c, k) ==
  /\ pc = "dialing"
  /\ Fresh(c)
  /\ pinned \in {NoKey, k}
  /\ held' = c
  /\ transport' = [transport EXCEPT ![c] = "live"]
  /\ hostKey' = [hostKey EXCEPT ![c] = k]
  /\ pc' = IF pinned = NoKey THEN "saving" ELSE "dialed"
  /\ UNCHANGED <<proc, file, touched, pinned, attempt, dialerVars, done,
                 stopped, kp>>

(* Trust on first use: writeFileAtomic replaces ssh_known_hosts...          *)
MonitorSavesKey ==
  /\ pc = "saving"
  /\ file' = hostKey[held]
  /\ touched' = FALSE
  /\ pc' = "dialed"
  /\ UNCHANGED <<proc, held, pinned, attempt, dialerVars, done, stopped,
                 transport, hostKey, kp>>

(* Mutants: the failed save is ignored, ends the monitor. *)
MonitorSaveIgnored ==
  /\ pc = "saving"
  /\ pc' = "dialed"
  /\ UNCHANGED <<proc, file, touched, held, pinned, attempt, dialerVars, done,
                 stopped, transport, hostKey, kp>>

MonitorSaveFatal ==
  /\ pc = "saving"
  /\ transport' = Closed(held)
  /\ held' = NoClient
  /\ pc' = "returned"
  /\ UNCHANGED <<proc, file, touched, pinned, attempt, dialerVars, done,
                 stopped, hostKey, kp>>

(* ... or fails and leaves it alone, and so does the connect.               *)
MonitorSaveFails ==
  /\ pc = "saving"
  /\ transport' = Closed(held)
  /\ ConnectFailed("failed")

(* Mutant: stop() during the connect is not noticed. *)
MonitorChecksNothing ==
  /\ pc = "dialed"
  /\ pc' = "publish"
  /\ UNCHANGED <<proc, file, touched, held, pinned, attempt, dialerVars, done,
                 stopped, transport, hostKey, kp>>

(* The last look at d.done before the client is published.                  *)
MonitorChecksDone ==
  /\ pc = "dialed"
  /\ \/ /\ done
        /\ transport' = Closed(held)
        /\ held' = NoClient
        /\ pc' = "returned"
     \/ /\ ~done
        /\ pc' = "publish"
        /\ UNCHANGED <<transport, held>>
  /\ UNCHANGED <<proc, file, touched, pinned, attempt, dialerVars, done,
                 stopped, hostKey, kp>>

(* Mutant: only the first connect of the process starts a keepalive loop. *)
MonitorPublishesUnprobed ==
  /\ pc = "publish"
  /\ client' = held
  /\ rawConn' = held
  /\ transport' = Closed(client)
  /\ kp' = IF rawConn = NoClient THEN [kp EXCEPT ![held] = "idle"] ELSE kp
  /\ pinned' = IF pinned = NoKey THEN hostKey[held] ELSE pinned
  /\ attempt' = 0
  /\ pc' = "announce"
  /\ UNCHANGED <<proc, file, touched, held, status, done, stopped, hostKey>>

MonitorPublishes ==
  /\ pc = "publish"
  /\ client' = held
  /\ rawConn' = held
  /\ transport' = Closed(client)
  /\ kp' = IF Keepalive THEN [kp EXCEPT ![held] = "idle"] ELSE kp
  /\ pinned' = IF pinned = NoKey THEN hostKey[held] ELSE pinned
  /\ attempt' = 0
  /\ pc' = "announce"
  /\ UNCHANGED <<proc, file, touched, held, status, done, stopped, hostKey>>

MonitorAnnounces ==
  /\ pc = "announce"
  /\ status' = "connected"
  /\ pc' = "wait"
  /\ UNCHANGED <<proc, file, touched, held, pinned, attempt, client, rawConn,
                 done, stopped, transport, hostKey, kp>>

Monitor ==
  \/ MonitorWaitReturns \/ MonitorDrops \/ MonitorReportsLoss \/ MonitorWakes
  \/ \E st \in FailStates : MonitorConnectFails(st)
  \/ \E c \in Clients, k \in Keys : MonitorHandshake(c, k)
  \/ MonitorSavesKey \/ MonitorSaveFails
  \/ MonitorChecksDone \/ MonitorPublishes \/ MonitorAnnounces

------------------------------------------------------------------------------
(* The keepalive goroutine of client c.                                     *)

KeepaliveStep(c, from, to) ==
  /\ kp[c] = from
  /\ kp' = [kp EXCEPT ![c] = to]
  /\ UNCHANGED <<proc, file, touched, monitorVars, dialerVars, done, stopped,
                 hostKey>>

(* The ticker fires: retire when the client was replaced or the dialer      *)
(* stops, else send the probe.                                              *)
KeepaliveTick(c) ==
  /\ KeepaliveStep(c, "idle", IF client # c \/ done THEN "none" ELSE "probing")
  /\ UNCHANGED transport

KeepaliveAnswered(c) ==
  /\ transport[c] = "live"
  /\ KeepaliveStep(c, "probing", "idle")
  /\ UNCHANGED transport

(* The probe errs on a dead transport or a period passes with no answer.    *)
KeepaliveUnanswered(c) ==
  /\ transport[c] \in {"stuck", "dead"}
  /\ KeepaliveStep(c, "probing", "closing")
  /\ UNCHANGED transport

(* Mutant: the loop gives up without closing the client. *)
KeepaliveGivesUp(c) ==
  /\ KeepaliveStep(c, "closing", "none")
  /\ UNCHANGED transport

KeepaliveCloses(c) ==
  /\ KeepaliveStep(c, "closing", "none")
  /\ transport' = Closed(c)

KeepaliveLoop(c) ==
  \/ KeepaliveTick(c) \/ KeepaliveAnswered(c)
  \/ KeepaliveUnanswered(c) \/ KeepaliveCloses(c)

------------------------------------------------------------------------------
(* stop(): first the flag, then the client it finds.                        *)

StopSetsDone ==
  /\ proc = "up"
  /\ ~done
  /\ done' = TRUE
  /\ UNCHANGED <<proc, file, touched, monitorVars, dialerVars, stopped,
                 transport, hostKey, kp>>

StopClosesClient ==
  /\ done
  /\ stopped = "no"
  /\ stopped' = IF pc = "publish" THEN "late" ELSE "yes"
  /\ transport' = Closed(client)
  /\ UNCHANGED <<proc, file, touched, monitorVars, dialerVars, done, hostKey,
                 kp>>

Environment ==
  \/ Crash
  \/ \E f \in Keys \union {NoKey, BlankFile} : OperatorEdits(f)
  \/ \E c \in Clients : PeerSticks(c) \/ PeerRecovers(c) \/ TransportDies(c)

Next ==
  \/ Start
  \/ Monitor
  \/ \E c \in Clients : KeepaliveLoop(c)
  \/ StopSetsDone
  \/ StopClosesClient
  \/ Environment

Spec == Init /\ [][Next]_vars

(* Fairness: the goroutines and stop() are scheduled, timers fire, and the   *)
(* VPS is not down for ever: of infinitely many attempts that could succeed  *)
(* infinitely many do.  Nothing is assumed of the operator, of stop() being  *)
(* called or of the peer recovering.                                         *)
Fairness ==
  /\ WF_vars(Monitor)
  /\ \A c \in Clients : WF_vars(KeepaliveLoop(c))
  /\ WF_vars(StopClosesClient)
  /\ SF_vars(\E c \in Clients, k \in Keys : MonitorHandshake(c, k))
  /\ SF_vars(MonitorSavesKey)

FairSpec == Spec /\ Fairness

------------------------------------------------------------------------------
(* No SSH connection is left open with nobody to close it, but for one case. *)
(* An open transport is in the monitor's hands, which closes it when it      *)
(* cannot pin it or stop() came, or is on its way to d.client or there, for  *)
(* a stop() that is yet to look.  After stop() nothing is left open ("never  *)
(* publish a client that nothing will close", dialer.go monitor), unless     *)
(* stop() looked for a client between the monitor's last look at d.done and  *)
(* its store to d.client: that one client is published and nobody closes it. *)
NoAbandonedTransport ==
  \A c \in Clients :
    transport[c] \in Open =>
      \/ c = held /\ pc \in {"saving", "dialed"}
      \/ c = held /\ pc = "publish" /\ stopped # "yes"
      \/ c = client /\ stopped # "yes"

(* The host key of a published tunnel is the pinned one, and unless the      *)
(* operator has edited ssh_known_hosts since, it is on disk: whenever the    *)
(* process dies, the next start checks that same key ("the key is trusted    *)
(* only once it is saved", dialer.go connectSSH).                            *)
TrustSurvivesRestart ==
  client # NoClient =>
    /\ hostKey[client] = pinned
    /\ touched \/ file = pinned

(* With keepalive on, an open published tunnel always has its probe loop, so *)
(* a stuck peer cannot keep Connected() true for ever; the loop ends only    *)
(* after it closed its own client, or once the dialer stops.                 *)
ConnectedIsProbed ==
  Keepalive /\ client # NoClient /\ transport[client] \in Open /\ ~done =>
    kp[client] # "none"

(* Connected() and Status() are set under separate critical sections.  They  *)
(* disagree only between the two of one loss (pc "lost") or of one connect   *)
(* (pc "announce"), never while the monitor sleeps, dials or waits.          *)
StatusTellsConnected ==
  pc \notin {"announce", "lost"} => (client # NoClient <=> status = "connected")

(* A tunnel leaves d.client only when its transport is dead (client.Wait()   *)
(* returned) or the process is gone: no reconnect cuts a working tunnel.     *)
LiveTunnelKept ==
  [][client # NoClient /\ client' # client =>
       transport[client] = "dead" \/ proc' = "down"]_vars

(* After a failed connect the monitor waits, whatever the jitter: at least   *)
(* BaseDelay, longer than after the failure before until that wait was       *)
(* MaxDelay, and never as long as MaxDelay and the jitter's bound, however   *)
(* many attempts failed (an uncapped shift would turn the delay negative).   *)
(* The jitter comes on top: the wait may be over MaxDelay, and at the cap it *)
(* may be shorter than the one before.                                       *)
BackoffHolds ==
  [][attempt' > attempt =>
       \A d \in Delays, e \in Delays' :
         /\ BaseDelay <= e /\ e < MaxDelay + Jitter
         /\ d < e \/ MaxDelay <= d]_vars

(* The dialer implements Tunnel, which is what the resolvers rely on and     *)
(* what the operator is told of ssh_known_hosts: one link, down only after   *)
(* it stopped working, and no host key but the one that was on disk at the   *)
(* start or was saved before its first use, through reconnects, failed       *)
(* saves, edits of the file, stop() and crashes.                             *)
Promise == INSTANCE Tunnel WITH
  running <- proc = "up",
  pin <- pinned,
  offer <- IF pinned = NoKey /\ pc \in {"dialed", "publish"} THEN hostKey[held]
           ELSE NoKey,
  link <- IF client = NoClient THEN "down"
          ELSE IF transport[client] = "live" THEN "up" ELSE "dying"

ImplementsTunnel == Promise!Spec

(* A stuck peer does not hold the tunnel for ever: keepalive closes the      *)
(* transport, unless the peer answers again or stop() takes over.            *)
StuckTunnelClosed ==
  \A c \in Clients : transport[c] = "stuck" ~> transport[c] # "stuck" \/ done

(* A lost tunnel comes back: from any state without a client the monitor     *)
(* gets to publish one, unless stop() or a crash intervenes.                 *)
TunnelReturns ==
  (proc = "up" /\ client = NoClient) ~>
    (client # NoClient \/ done \/ proc = "down")
==============================================================================
