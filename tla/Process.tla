-------------------------------- MODULE Process --------------------------------
(***************************************************************************)
(* The life of the ssh-gate process (main.go, keys.go, notify.go, utils.go *)
(* and debian/ssh-gate.service): startup step by step, with the key files  *)
(* and the first-run marker on a disk that survives crashes and may lose   *)
(* what was not synced in a power failure; the systemd status line, which  *)
(* main and the dialer's monitor write concurrently; the signal goroutine; *)
(* and the unit, which starts, restarts and stops the process.             *)
(*                                                                         *)
(* The proxies behind the listeners and their shutdown are in              *)
(* ProxyServers, the monitor's loop is in SSHDialer.                       *)
(***************************************************************************)
EXTENDS Naturals

CONSTANTS
  MaxKeys,     \* bound: key pairs in use or remembered at a time
  MaxFaults,   \* bound: crashes, power failures and lost notifications
  MaxEdits     \* bound: changes of the key files by the operator

ASSUME ProcessAssumption ==
  MaxKeys \in Nat /\ MaxFaults \in Nat /\ MaxEdits \in Nat

VARIABLES
  disk,        \* the files of DATA_DIR as processes see them
  durable,     \* what a power failure may leave of them: the file system
               \* keeps the order of renames and of new files
  tmp,         \* the temporary file of writeFileAtomic
  readable,    \* the process may read ssh_key
  shown,       \* history: keys that printFirstRun has printed
  touched,     \* history: the operator changed the key files since they
               \* were checked
  proc,        \* where main is; "off" without a process
  key,         \* the key pair EnsureSSHKeyPair works with
  conf,        \* SSH_HOST and SSH_USER are set
  listening,   \* open listeners
  sig,         \* the signal goroutine
  term,        \* a signal is in its channel
  stopping,    \* status.stopping
  line,        \* the status line systemd shows
  lost,        \* history: the last message for it was lost
  mon,         \* the monitor: d.status, and whether onStatus has it yet
  unit,        \* the systemd unit
  faults, edits

files == <<disk, durable, readable, shown, touched>>
status == <<stopping, line, lost, mon>>
signals == <<sig, term>>
bounds == <<faults, edits>>
vars == <<disk, durable, tmp, readable, shown, touched, proc, key, conf,
          listening, sig, term, stopping, line, lost, mon, unit, faults, edits>>

NoKey == 0
OwnKey == MaxKeys + 1      \* a key pair the operator brings along
Torn == MaxKeys + 2        \* a truncated file

Content == 0 .. MaxKeys + 2
Dir == [priv : Content, pub : Content, marker : BOOLEAN]
Listeners == {"proxies", "health"}
Places == {"off", "config", "priv", "writePriv", "pub", "writePub", "marker",
           "hint", "saveMarker", "proxies", "health", "signals", "ready",
           "serving", "drain"}
NoTmp == [st |-> "none", synced |-> FALSE]

TypeOK ==
  /\ disk \in Dir
  /\ durable \subseteq Dir /\ disk \in durable
  /\ tmp \in [st : {"none", "written", "closed"}, synced : BOOLEAN]
  /\ tmp # NoTmp => proc \in {"writePriv", "writePub"}
  /\ readable \in BOOLEAN
  /\ shown \subseteq Content
  /\ touched \in BOOLEAN
  /\ proc \in Places
  /\ key \in 0 .. MaxKeys + 1
  /\ conf \in BOOLEAN
  /\ listening \subseteq Listeners
  /\ sig \in {"none", "spawned", "notify", "waiting", "got"}
  /\ term \in BOOLEAN
  /\ stopping \in BOOLEAN
  /\ line \in {"none", "not_configured", "connecting", "connected", "failed", "stopping"}
  /\ lost \in BOOLEAN
  /\ mon \in [status : {"none", "connecting", "connected", "failed"}, unsent : BOOLEAN]
  /\ unit \in {"inactive", "starting", "active", "stopping", "timeout", "restart", "failed"}
  /\ faults \in 0 .. MaxFaults /\ edits \in 0 .. MaxEdits

NoMonitor == [status |-> "none", unsent |-> FALSE]

Init ==
  /\ disk = [priv |-> NoKey, pub |-> NoKey, marker |-> FALSE]
  /\ durable = {disk}
  /\ tmp = NoTmp
  /\ readable = TRUE
  /\ shown = {}
  /\ touched = FALSE
  /\ proc = "off" /\ key = NoKey /\ conf = FALSE
  /\ listening = {}
  /\ sig = "none" /\ term = FALSE
  /\ stopping = FALSE /\ line = "none" /\ lost = FALSE
  /\ mon = NoMonitor
  /\ unit = "inactive"
  /\ faults = 0 /\ edits = 0

------------------------------------------------------------------------------
(* The end of a process takes all of its memory along. *)
ProcessGone ==
  /\ proc' = "off" /\ key' = NoKey /\ conf' = FALSE
  /\ tmp' = NoTmp
  /\ listening' = {}
  /\ sig' = "none" /\ term' = FALSE
  /\ stopping' = FALSE /\ line' = "none" /\ lost' = FALSE
  /\ mon' = NoMonitor

(* log.Fatal: exit code 78, which the unit lists in RestartPreventExitStatus.*)
Fatal ==
  /\ ProcessGone
  /\ unit' = "failed"
  /\ UNCHANGED <<files, bounds>>

(* main goes on to its next step. *)
Goes(from, to) == proc = from /\ proc' = to

Starts ==
  /\ proc' = "config"
  /\ unit' = "starting"
  /\ UNCHANGED <<files, tmp, key, conf, listening, signals, status, bounds>>

(* systemctl start, and the boot of the machine. *)
Start == unit \in {"inactive", "failed"} /\ proc = "off" /\ Starts

Restart == unit = "restart" /\ Starts

(* loadConfig and MkdirAll; the configuration may have changed. *)
LoadConfig ==
  \/ /\ Goes("config", "priv")
     /\ conf' \in BOOLEAN
     /\ UNCHANGED <<files, tmp, key, listening, signals, status, unit, bounds>>
  \/ proc = "config" /\ Fatal

------------------------------------------------------------------------------
(* EnsureSSHKeyPair and writeFileAtomic.                                    *)

(* Mutant: a key that cannot be read is replaced. *)
MissingOrUnreadable == disk.priv = NoKey \/ ~readable

(* os.IsNotExist *)
Missing == disk.priv = NoKey

(* A new key pair is unlike any other; numbers nobody remembers are reused. *)
Unused ==
  {k \in 1 .. MaxKeys : k \notin shown /\ \A d \in durable : d.priv # k /\ d.pub # k}

GenerateKey == \E k \in Unused : (\A j \in Unused : k <= j) /\ key' = k

ReadPrivateKey ==
  \/ /\ ~Missing /\ readable /\ disk.priv # Torn
     /\ Goes("priv", "pub")
     /\ key' = disk.priv
     /\ touched' = FALSE
     /\ UNCHANGED <<disk, durable, readable, shown, tmp, conf, listening, signals,
                    status, unit, bounds>>
  \/ /\ ~Missing /\ (~readable \/ disk.priv = Torn)
     /\ proc = "priv"
     /\ Fatal
  \/ /\ Missing
     /\ Goes("priv", "writePriv")
     /\ GenerateKey
     /\ touched' = FALSE
     /\ UNCHANGED <<disk, durable, readable, shown, tmp, conf, listening,
                    signals, status, unit, bounds>>

Writing == proc \in {"writePriv", "writePub"}

(* CreateTemp, Write and Chmod. *)
WriteTemp ==
  /\ Writing /\ tmp.st = "none"
  /\ tmp' = [st |-> "written", synced |-> FALSE]
  /\ UNCHANGED <<files, proc, key, conf, listening, signals, status, unit, bounds>>

(* Mutant: the data is left to the kernel. *)
CloseUnsynced ==
  /\ Writing /\ tmp.st = "written"
  /\ tmp' = [st |-> "closed", synced |-> FALSE]
  /\ UNCHANGED <<files, proc, key, conf, listening, signals, status, unit, bounds>>

SyncAndClose ==
  /\ Writing /\ tmp.st = "written"
  /\ tmp' = [st |-> "closed", synced |-> TRUE]
  /\ UNCHANGED <<files, proc, key, conf, listening, signals, status, unit, bounds>>

(* A new directory entry is visible at once and durable later. *)
Enters(new, field) ==
  /\ disk' = new
  /\ durable' = durable \union {new}
       \union (IF tmp.synced \/ field = "marker" THEN {} ELSE {[new EXCEPT ![field] = Torn]})

Rename ==
  LET field == IF proc = "writePriv" THEN "priv" ELSE "pub"
  IN  /\ Writing /\ tmp.st = "closed"
      /\ Enters([disk EXCEPT ![field] = key], field)
      /\ tmp' = NoTmp
      /\ proc' = IF proc = "writePriv" THEN "pub" ELSE "marker"
      /\ readable' = (readable \/ proc = "writePriv")
      /\ UNCHANGED <<shown, touched, key, conf, listening, signals, status, unit, bounds>>

(* Any step of it fails; the temporary file is removed. *)
WriteFails == Writing /\ Fatal

(* Mutant: only a missing public key is written. *)
PublicStandsIfThere == disk.pub # NoKey

(* The public half is derived from the private key; the file is compared    *)
(* with it.                                                                 *)
PublicStands == disk.pub = key

ReadPublicKey ==
  /\ Goes("pub", IF PublicStands THEN "marker" ELSE "writePub")
  /\ UNCHANGED <<files, tmp, key, conf, listening, signals, status, unit, bounds>>

------------------------------------------------------------------------------
(* The first-run hint.                                                      *)

(* Mutant: the marker is saved first. *)
StatMarkerFirst ==
  /\ proc = "marker"
  /\ IF disk.marker
     THEN proc' = "proxies" /\ UNCHANGED <<disk, durable>>
     ELSE proc' = "hint" /\ Enters([disk EXCEPT !.marker = TRUE], "marker")
  /\ UNCHANGED <<tmp, readable, shown, touched, key, conf, listening,
                 signals, status, unit, bounds>>

StatMarker ==
  /\ Goes("marker", IF disk.marker THEN "proxies" ELSE "hint")
  /\ UNCHANGED <<files, tmp, key, conf, listening, signals, status, unit, bounds>>

PrintFirstRun ==
  /\ Goes("hint", "saveMarker")
  /\ shown' = shown \union {key}
  /\ UNCHANGED <<disk, durable, tmp, readable, touched, key, conf, listening,
                 signals, status, unit, bounds>>

(* os.WriteFile of an empty file, whose failure is only logged. *)
SaveMarker ==
  /\ Goes("saveMarker", "proxies")
  /\ \/ Enters([disk EXCEPT !.marker = TRUE], "marker")
     \/ UNCHANGED <<disk, durable>>
  /\ UNCHANGED <<tmp, readable, shown, touched, key, conf, listening,
                 signals, status, unit, bounds>>

------------------------------------------------------------------------------
(* The status line.                                                         *)

(* A message reaches systemd or is lost, which is only logged. *)
Shows(text) ==
  \/ line' = text /\ lost' = FALSE /\ UNCHANGED faults
  \/ /\ faults < MaxFaults /\ faults' = faults + 1
     /\ lost' = TRUE /\ UNCHANGED line

(* Mutant: the shutdown is not looked at. *)
sendAlways(text) == Shows(text)

send(text) ==
  \/ ~stopping /\ Shows(text)
  \/ stopping /\ UNCHANGED <<line, lost, faults>>

(* setStatus in the monitor: the state is stored under d.mu, and reported   *)
(* without it.                                                              *)
MonitorStores ==
  /\ mon.status # "none" /\ ~mon.unsent
  /\ \E st \in {"connected", "failed"} \ {mon.status} :
       mon' = [status |-> st, unsent |-> TRUE]
  /\ UNCHANGED <<files, tmp, proc, key, conf, listening, signals, stopping, line,
                 lost, unit, bounds>>

MonitorSends ==
  /\ mon.unsent
  /\ mon' = [mon EXCEPT !.unsent = FALSE]
  /\ send(mon.status)
  /\ UNCHANGED <<files, tmp, proc, key, conf, listening, signals, stopping, unit, edits>>

------------------------------------------------------------------------------
(* Servers and signals.                                                     *)

(* Not configured: a status line and no proxies.  Otherwise startProxies:    *)
(* the dialer, whose constructor reports "connecting" before its monitor     *)
(* runs, the rules, the proxies.                                             *)
StartProxies ==
  \/ /\ Goes("proxies", "health")
     /\ ~conf /\ send("not_configured")
     /\ UNCHANGED <<files, tmp, key, conf, listening, signals, stopping, mon, unit, edits>>
  \/ /\ Goes("proxies", "health")
     /\ conf /\ send("connecting")
     /\ mon' = [status |-> "connecting", unsent |-> FALSE]
     /\ listening' = listening \union {"proxies"}
     /\ UNCHANGED <<files, tmp, key, conf, signals, stopping, unit, edits>>
  \/ proc = "proxies" /\ conf /\ Fatal

(* Mutant: a busy port is only logged. *)
NewHealthServerLogged ==
  /\ Goes("health", "signals")
  /\ listening' \in {listening, listening \union {"health"}}
  /\ UNCHANGED <<files, tmp, key, conf, signals, status, unit, bounds>>

NewHealthServer ==
  \/ /\ Goes("health", "signals")
     /\ listening' = listening \union {"health"}
     /\ UNCHANGED <<files, tmp, key, conf, signals, status, unit, bounds>>
  \/ proc = "health" /\ Fatal

(* go func() { ... }, and rules.Start. *)
SpawnSignals ==
  /\ Goes("signals", "ready")
  /\ sig' = "spawned"
  /\ UNCHANGED <<files, tmp, key, conf, listening, term, status, unit, bounds>>

(* signal.Notify, then the receive, then cancel. *)
SignalStep ==
  /\ \/ sig = "spawned" /\ sig' = "notify" /\ UNCHANGED term
     \/ sig = "notify" /\ sig' = "waiting" /\ UNCHANGED term
     \/ sig = "waiting" /\ term /\ sig' = "got" /\ term' = FALSE
  /\ UNCHANGED <<files, tmp, proc, key, conf, listening, status, unit, bounds>>

(* Mutant: systemctl start waits for the tunnel. *)
ReadyWhenConnected ==
  /\ Goes("ready", "serving")
  /\ conf => mon.status = "connected"
  /\ unit' = IF unit = "starting" THEN "active" ELSE unit
  /\ UNCHANGED <<files, tmp, key, conf, listening, signals, status, bounds>>

(* status.ready; this message may be lost as well. *)
Ready ==
  /\ Goes("ready", "serving")
  /\ \/ /\ unit' = IF unit = "starting" THEN "active" ELSE unit
        /\ UNCHANGED faults
     \/ /\ faults < MaxFaults /\ faults' = faults + 1
        /\ UNCHANGED unit
  /\ UNCHANGED <<files, tmp, key, conf, listening, signals, status, edits>>

(* ctx.Done, status.stop. *)
StatusStop ==
  /\ Goes("serving", "drain")
  /\ sig = "got"
  /\ stopping' = TRUE
  /\ Shows("stopping")
  /\ UNCHANGED <<files, tmp, key, conf, listening, signals, mon, unit, edits>>

(* shutdownServers, rules.Stop, d.stop: the drain has a deadline. *)
Exit ==
  /\ proc = "drain"
  /\ ProcessGone
  /\ unit' = IF unit = "timeout" THEN "restart" ELSE "inactive"
  /\ UNCHANGED <<files, bounds>>

------------------------------------------------------------------------------
(* The unit and the world.                                                  *)

(* Mutant: the channel has no buffer, and nobody receives yet. *)
SignalToReceiver(next) ==
  \/ /\ sig \in {"none", "spawned"} /\ ProcessGone
     /\ unit' = IF next = "timeout" THEN "restart" ELSE "inactive"
  \/ /\ sig \notin {"none", "spawned"}
     /\ term' = (term \/ sig = "waiting")
     /\ unit' = next
     /\ UNCHANGED <<proc, key, conf, tmp, listening, sig, status>>

(* SIGTERM ends a process that has not called signal.Notify; otherwise it   *)
(* goes to the channel, which has room for one.                             *)
Signal(next) ==
  \/ /\ sig \in {"none", "spawned"} /\ ProcessGone
     /\ unit' = IF next = "timeout" THEN "restart" ELSE "inactive"
  \/ /\ sig \notin {"none", "spawned"}
     /\ term' = TRUE
     /\ unit' = next
     /\ UNCHANGED <<proc, key, conf, tmp, listening, sig, status>>

(* systemctl stop. *)
Stop ==
  \/ /\ unit \in {"starting", "active"} /\ Signal("stopping")
     /\ UNCHANGED <<files, bounds>>
  \/ /\ unit = "restart" /\ unit' = "inactive"
     /\ UNCHANGED <<files, tmp, proc, key, conf, listening, signals, status, bounds>>

(* TimeoutStartSec: the process serves and its READY=1 never came. *)
StartTimeout ==
  /\ unit = "starting" /\ proc = "serving"
  /\ Signal("timeout")
  /\ UNCHANGED <<files, bounds>>

(* TimeoutStopSec: a process that is too slow to end is killed. *)
StopTimeout ==
  /\ unit \in {"stopping", "timeout"}
  /\ ProcessGone
  /\ unit' = IF unit = "timeout" THEN "restart" ELSE "failed"
  /\ UNCHANGED <<files, bounds>>

(* A panic, or the kernel kills the process.  Restart=on-failure. *)
Crash ==
  /\ proc # "off" /\ faults < MaxFaults /\ faults' = faults + 1
  /\ ProcessGone
  /\ unit' = IF unit = "stopping" THEN "failed" ELSE "restart"
  /\ UNCHANGED <<files, edits>>

PowerFailure ==
  /\ faults < MaxFaults /\ faults' = faults + 1
  /\ ProcessGone
  /\ disk' \in durable
  /\ durable' = {disk'}
  /\ unit' = "inactive"
  /\ UNCHANGED <<readable, shown, touched, edits>>

Writeback ==
  /\ durable # {disk} /\ durable' = {disk}
  /\ UNCHANGED <<disk, readable, shown, touched, tmp, proc, key, conf,
                 listening, signals, status, unit, bounds>>

(* The operator brings a key along, edits or deletes ssh_key.pub, or changes *)
(* the owner of ssh_key.  The private key is not deleted.                    *)
Operator ==
  /\ edits < MaxEdits /\ edits' = edits + 1
  /\ \/ /\ \E new \in {[disk EXCEPT !.priv = OwnKey], [disk EXCEPT !.pub = OwnKey],
                       [disk EXCEPT !.pub = NoKey]} :
             disk' = new /\ durable' = durable \union {new}
        /\ UNCHANGED readable
     \/ readable' = ~readable /\ UNCHANGED <<disk, durable>>
  /\ touched' = TRUE
  /\ UNCHANGED <<shown, tmp, proc, key, conf, listening, signals, status,
                 unit, faults>>

MainStep ==
  \/ LoadConfig \/ ReadPrivateKey \/ WriteTemp \/ SyncAndClose \/ Rename
  \/ WriteFails \/ ReadPublicKey \/ StatMarker \/ PrintFirstRun \/ SaveMarker
  \/ StartProxies \/ NewHealthServer \/ SpawnSignals \/ Ready \/ StatusStop \/ Exit

Next ==
  \/ Start \/ Restart \/ Stop \/ StartTimeout \/ StopTimeout
  \/ MainStep \/ SignalStep \/ MonitorStores \/ MonitorSends
  \/ Crash \/ PowerFailure \/ Writeback \/ Operator

(* main and the signal goroutine run, and systemd restarts the process and   *)
(* times out its start.  Nothing rests on its killing a slow stop.           *)
Fairness ==
  WF_vars(MainStep) /\ WF_vars(SignalStep) /\ WF_vars(Restart) /\ WF_vars(StartTimeout)

Spec == Init /\ [][Next]_vars /\ Fairness

------------------------------------------------------------------------------
(* "a crash never leaves a truncated file behind" (utils.go), nor does a    *)
(* power failure: what ssh_key and ssh_key.pub name is whole.               *)
NoTornFile == disk.priv # Torn /\ disk.pub # Torn

(* The program never puts a new private key in the place of one that is     *)
(* there, which "would silently desync the server's authorized_keys"        *)
(* (keys.go), unless the operator brings one along while it runs.           *)
KeyKept ==
  [][proc # "off" /\ proc' # "off" /\ edits' = edits /\ disk'.priv # disk.priv
       => disk.priv = NoKey \/ touched]_vars

(* Once the keys are checked, the two files are the halves of one pair, the *)
(* one this process uses, whatever crash came between their writes.         *)
PairMatches ==
  proc \in {"marker", "hint", "saveMarker", "proxies", "health", "signals", "ready",
            "serving", "drain"} /\ ~touched
    => disk.priv = key /\ disk.pub = key

(* The first-run marker stands for a hint that was printed: a key pair that *)
(* this program made and that is still in use has been shown, also when a   *)
(* crash or a power failure cut a first run short.                          *)
MarkerMeansShown ==
  disk.marker /\ disk.priv \in 1 .. MaxKeys => disk.priv \in shown

(* The status line is current (ssh-gate.service) unless a message was lost: *)
(* the monitor's report, the hint of a service without configuration, and   *)
(* from status.stop on "Stopping", which no late report hides (notify.go).  *)
LineIsCurrent ==
  proc \in {"health", "signals", "ready", "serving", "drain"} /\ ~lost =>
    \/ stopping /\ line = "stopping"
    \/ ~stopping /\ ~conf /\ line = "not_configured"
    \/ ~stopping /\ conf /\ (line = mon.status \/ mon.unsent)

(* systemd takes the unit for active only while every listener is open.     *)
ActiveMeansListening ==
  unit = "active" =>
    listening = {"health"} \union (IF conf THEN {"proxies"} ELSE {})

(* A stop ends the process, at whatever moment of its start or its life the *)
(* signal comes, and systemd need not kill it.                              *)
StopEnds == (unit = "stopping") ~> (proc = "off")

(* A start ends, well or not: it waits for no tunnel, and a READY=1 that    *)
(* was lost leads to a restart.                                             *)
StartEnds == (unit \in {"starting", "restart", "timeout"}) ~>
             (unit \in {"active", "failed", "inactive", "stopping"})
==============================================================================
