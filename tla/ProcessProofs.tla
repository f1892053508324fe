---------------------------- MODULE ProcessProofs ----------------------------
(***************************************************************************)
(* Proofs about Process: for any number of keys, faults and edits, what    *)
(* the key files, the marker, the status line and the unit say is true.    *)
(***************************************************************************)
EXTENDS Process, TLAPS

(* main is past the private key.                                            *)
HasKey == {"pub", "writePub", "marker", "hint", "saveMarker", "proxies", "health",
           "signals", "ready", "serving", "drain"}

(* main is past both.                                                       *)
HasPair == HasKey \ {"pub", "writePub"}

(* What a power failure may leave is whole, has a private key with its      *)
(* marker, and was shown if this program made it.                           *)
Sound(d) ==
  /\ d.priv # Torn /\ d.pub # Torn
  /\ d.marker => d.priv # NoKey
  /\ d.marker /\ d.priv \in 1 .. MaxKeys => d.priv \in shown

(* The files while main works on them: the private key is the one it uses,  *)
(* or the operator's own.                                                   *)
FilesInv ==
  /\ disk \in Dir /\ durable \subseteq Dir /\ disk \in durable
  /\ tmp.st = "closed" => tmp.synced
  /\ key \in 0 .. MaxKeys + 1
  /\ \A d \in durable : Sound(d)
  /\ proc = "writePriv" => /\ key # NoKey /\ ~disk.marker
                           /\ disk.priv = NoKey \/ touched
  /\ proc \in HasKey => /\ key # NoKey /\ disk.priv \in {key, OwnKey}
                        /\ disk.priv = key \/ touched
  /\ proc \in HasPair => disk.pub = key \/ touched
  /\ proc = "saveMarker" => key \in shown

(* The files are missing at the start. *)
LEMMA InitFiles == Init => FilesInv
  <1> SUFFICES ASSUME Init PROVE FilesInv
    OBVIOUS
  <1>1. disk \in Dir /\ disk.priv = 0 /\ disk.pub = 0 /\ disk.marker = FALSE
    BY ProcessAssumption DEF Init, Dir, Content, NoKey
  <1>2. 0 # Torn /\ 0 \in 0 .. MaxKeys + 1
    BY ProcessAssumption DEF Torn
  <1> QED
    BY <1>1, <1>2 DEF Init, FilesInv, Sound, NoTmp, HasKey, HasPair, NoKey

(* A step that leaves the files and the key alone, and at most lets main    *)
(* move on or end, preserves the files' invariant.                          *)
LEMMA FilesKept ==
  ASSUME FilesInv, UNCHANGED <<disk, durable, shown>>,
         \/ UNCHANGED <<key, touched, tmp, proc>>
         \/ ProcessGone
         \/ /\ UNCHANGED <<key, touched, tmp>> /\ proc' # "saveMarker"
            /\ \/ proc \in HasPair /\ proc' \in HasPair
               \/ proc' \in {"config", "priv"}
  PROVE  FilesInv'
  <1>1. CASE UNCHANGED <<key, touched, tmp, proc>>
    BY <1>1 DEF FilesInv, Sound
  <1>2. CASE ProcessGone
    BY <1>2, ProcessAssumption DEF ProcessGone, FilesInv, Sound, NoTmp, NoKey, HasKey,
       HasPair
  <1>3. CASE /\ UNCHANGED <<key, touched, tmp>> /\ proc' # "saveMarker"
             /\ \/ proc \in HasPair /\ proc' \in HasPair
                \/ proc' \in {"config", "priv"}
    BY <1>3 DEF FilesInv, Sound, HasKey, HasPair
  <1> QED
    BY <1>1, <1>2, <1>3

(* The steps of main that touch the files preserve it. *)
LEMMA FileSteps ==
  ASSUME FilesInv,
         \/ ReadPrivateKey \/ WriteTemp \/ SyncAndClose \/ Rename
         \/ ReadPublicKey \/ StatMarker \/ PrintFirstRun \/ SaveMarker
  PROVE  FilesInv'
  <1> USE ProcessAssumption DEF Goes
  <1>1. CASE ReadPrivateKey
    <2>1. CASE ~Missing /\ Goes("priv", "pub")
      <3>1. /\ proc' = "pub" /\ key' = disk.priv /\ touched' = FALSE
            /\ disk.priv # NoKey /\ disk.priv # Torn
            /\ UNCHANGED <<disk, durable, shown, tmp>>
        BY <1>1, <2>1 DEF ReadPrivateKey, Missing, Fatal, ProcessGone
      <3>2. disk.priv \in 0 .. MaxKeys + 1
        BY <3>1 DEF FilesInv, Dir, Content, Torn
      <3> QED
        BY <3>1, <3>2 DEF FilesInv, Sound, HasKey, HasPair
    <2>2. CASE Fatal
      BY ZenonT(30), <2>2, FilesKept DEF Fatal, ProcessGone, files
    <2>3. CASE Missing /\ Goes("priv", "writePriv")
      <3>1. /\ proc' = "writePriv" /\ key' \in Unused /\ touched' = FALSE
            /\ disk.priv = NoKey /\ UNCHANGED <<disk, durable, shown, tmp>>
        BY <1>1, <2>3 DEF ReadPrivateKey, Missing, Fatal, ProcessGone, GenerateKey
      <3>2. key' \in 0 .. MaxKeys + 1 /\ key' # NoKey
        BY <3>1 DEF Unused, NoKey
      <3>3. ~disk.marker
        BY <3>1 DEF FilesInv, Sound
      <3> QED
        BY <3>1, <3>2, <3>3 DEF FilesInv, Sound, HasKey, HasPair
    <2> QED
      BY <1>1, <2>1, <2>2, <2>3 DEF ReadPrivateKey
  <1>2. CASE WriteTemp \/ SyncAndClose
    <2>1. /\ UNCHANGED <<disk, durable, shown, touched, proc, key>>
          /\ tmp'.st = "closed" => tmp'.synced
      BY <1>2 DEF WriteTemp, SyncAndClose, files
    <2> QED
      BY <2>1 DEF FilesInv, Sound
  <1>3. CASE ReadPublicKey \/ StatMarker
    <2>1. /\ UNCHANGED <<disk, durable, shown, touched, key, tmp>>
          /\ proc \in HasKey
          /\ \/ proc' \in HasPair \ {"saveMarker"} /\ (proc \in HasPair \/ disk.pub = key)
             \/ proc' = "writePub"
      BY <1>3 DEF ReadPublicKey, StatMarker, files, HasKey, HasPair, PublicStands
    <2> QED
      BY <2>1 DEF FilesInv, Sound, HasKey, HasPair
  <1>4. CASE PrintFirstRun
    <2>1. /\ UNCHANGED <<disk, durable, touched, key, tmp>>
          /\ proc = "hint" /\ proc' = "saveMarker" /\ shown' = shown \union {key}
      BY <1>4 DEF PrintFirstRun
    <2> QED
      BY <2>1 DEF FilesInv, Sound, HasKey, HasPair
  <1>5. CASE SaveMarker
    <2> DEFINE new == [disk EXCEPT !.marker = TRUE]
    <2>1. /\ UNCHANGED <<shown, touched, key, tmp>>
          /\ proc = "saveMarker" /\ proc' = "proxies"
      BY <1>5 DEF SaveMarker
    <2>2. \/ disk' = new /\ durable' = durable \union {new}
          \/ UNCHANGED <<disk, durable>>
      BY <1>5 DEF SaveMarker, Enters
    <2>3. /\ new \in Dir /\ new.priv = disk.priv /\ new.pub = disk.pub
          /\ key \in shown /\ key # NoKey /\ disk.priv \in {key, OwnKey}
      BY ZenonT(30), <2>1 DEF FilesInv, Dir, HasKey
    <2>4. Sound(new)
      <3>1. Sound(disk)
        BY DEF FilesInv
      <3>2. OwnKey \notin 1 .. MaxKeys /\ OwnKey # NoKey
        BY DEF OwnKey, NoKey
      <3> QED
        BY <3>1, <3>2, <2>3 DEF Sound
    <2> HIDE DEF new
    <2> QED
      BY <2>1, <2>2, <2>3, <2>4 DEF FilesInv, Sound, HasKey, HasPair
  <1>6. CASE Rename
    <2>1. /\ UNCHANGED <<shown, touched, key>> /\ tmp' = NoTmp /\ tmp.synced
          /\ proc \in {"writePriv", "writePub"}
      BY <1>6 DEF Rename, Writing, FilesInv
    <2>2. CASE proc = "writePriv"
      <3> DEFINE new == [disk EXCEPT !.priv = key]
      <3>1. disk' = new /\ durable' = durable \union {new} /\ proc' = "pub"
        BY ZenonT(30), <1>6, <2>1, <2>2 DEF Rename, Enters
      <3>2. /\ new \in Dir /\ new.priv = key /\ new.pub = disk.pub
            /\ new.marker = disk.marker /\ ~disk.marker /\ key # NoKey
        BY <2>2 DEF FilesInv, Dir, Content
      <3>3. Sound(new)
        BY <3>2 DEF FilesInv, Sound, Torn
      <3> HIDE DEF new
      <3> QED
        BY <2>1, <3>1, <3>2, <3>3 DEF FilesInv, Sound, HasKey, HasPair, NoTmp
    <2>3. CASE proc = "writePub"
      <3> DEFINE new == [disk EXCEPT !.pub = key]
      <3>1. disk' = new /\ durable' = durable \union {new} /\ proc' = "marker"
        BY ZenonT(30), <1>6, <2>1, <2>3 DEF Rename, Enters
      <3>2. /\ new \in Dir /\ new.pub = key /\ new.priv = disk.priv
            /\ new.marker = disk.marker
        BY <2>3 DEF FilesInv, Dir, Content
      <3>3. Sound(new)
        BY <3>2 DEF FilesInv, Sound, Torn
      <3> HIDE DEF new
      <3> QED
        BY <2>1, <2>3, <3>1, <3>2, <3>3 DEF FilesInv, Sound, HasKey, HasPair, NoTmp
    <2> QED
      BY <2>1, <2>2, <2>3
  <1> QED
    BY <1>1, <1>2, <1>3, <1>4, <1>5, <1>6

(* Power failures, write-back and the operator preserve it. *)
LEMMA WorldSteps ==
  ASSUME FilesInv, PowerFailure \/ Writeback \/ Operator
  PROVE  FilesInv'
  <1> USE ProcessAssumption
  <1>1. CASE PowerFailure
    BY <1>1 DEF PowerFailure, ProcessGone, FilesInv, Sound, NoTmp, NoKey, HasKey, HasPair
  <1>2. CASE Writeback
    BY <1>2 DEF Writeback, FilesInv, Sound
  <1>3. CASE Operator
    <2>1. UNCHANGED <<shown, tmp, proc, key>> /\ touched' = TRUE
      BY <1>3 DEF Operator
    <2>2. CASE UNCHANGED <<disk, durable>>
      BY <2>1, <2>2 DEF FilesInv, Sound
    <2>3. ASSUME NEW new \in {[disk EXCEPT !.priv = OwnKey], [disk EXCEPT !.pub = OwnKey],
                              [disk EXCEPT !.pub = NoKey]},
                 disk' = new, durable' = durable \union {new}
          PROVE  FilesInv'
      <3>1. OwnKey \in Content /\ NoKey \in Content /\ OwnKey # Torn /\ NoKey # Torn
            /\ OwnKey # NoKey /\ OwnKey \notin 1 .. MaxKeys
        BY DEF OwnKey, NoKey, Torn, Content
      <3>2. /\ new \in Dir /\ new.marker = disk.marker
            /\ new.priv \in {disk.priv, OwnKey} /\ new.pub \in {disk.pub, OwnKey, NoKey}
        BY <3>1 DEF FilesInv, Dir
      <3>3. Sound(new)
        BY <3>1, <3>2 DEF FilesInv, Sound
      <3> QED
        BY <2>1, <2>3, <3>2, <3>3 DEF FilesInv, Sound
    <2> QED
      BY <1>3, <2>2, <2>3 DEF Operator
  <1> QED
    BY <1>1, <1>2, <1>3

(* Every step preserves it. *)
LEMMA FilesStep == FilesInv /\ [Next]_vars => FilesInv'
  <1> SUFFICES ASSUME FilesInv, [Next]_vars PROVE FilesInv'
    OBVIOUS
  <1>1. CASE Start \/ Restart
    BY <1>1, FilesKept DEF Start, Restart, Starts, files
  <1>2. CASE LoadConfig \/ WriteFails
    BY ZenonT(30), <1>2, FilesKept DEF LoadConfig, WriteFails, Fatal, ProcessGone, Goes,
       files
  <1>3. CASE StartProxies \/ NewHealthServer
    BY <1>3, FilesKept DEF StartProxies, NewHealthServer, Fatal, Goes, files, HasKey,
       HasPair
  <1>4. CASE SpawnSignals \/ Ready \/ StatusStop \/ Exit
    BY <1>4, FilesKept DEF SpawnSignals, Ready, StatusStop, Exit, Goes, files, HasKey,
       HasPair
  <1>5. CASE SignalStep \/ MonitorStores \/ MonitorSends
    BY <1>5, FilesKept DEF SignalStep, MonitorStores, MonitorSends, files
  <1>6. CASE Stop \/ StartTimeout
    BY <1>6, FilesKept DEF Stop, StartTimeout, Signal, files
  <1>7. CASE StopTimeout \/ Crash
    BY <1>7, FilesKept DEF StopTimeout, Crash, files
  <1>8. CASE UNCHANGED vars
    BY <1>8, FilesKept DEF vars
  <1> QED
    BY <1>1, <1>2, <1>3, <1>4, <1>5, <1>6, <1>7, <1>8, FileSteps, WorldSteps
    DEF Next, MainStep

LEMMA FilesHold == Spec => []FilesInv
  BY InitFiles, FilesStep, PTL DEF Spec

(* "a crash never leaves a truncated file behind" (utils.go), nor does a    *)
(* power failure.                                                           *)
THEOREM FilesWhole == Spec => []NoTornFile
  <1>1. FilesInv => NoTornFile
    BY DEF FilesInv, Sound, NoTornFile
  <1> QED
    BY <1>1, FilesHold, PTL

(* Once the keys are checked, the two files are one pair (keys.go).         *)
THEOREM PairAlwaysMatches == Spec => []PairMatches
  <1>1. FilesInv => PairMatches
    BY DEF FilesInv, PairMatches, HasKey, HasPair
  <1> QED
    BY <1>1, FilesHold, PTL

(* The first-run marker stands for a hint that was printed (main.go).       *)
THEOREM MarkerTellsTruth == Spec => []MarkerMeansShown
  <1>1. FilesInv => MarkerMeansShown
    BY DEF FilesInv, Sound, MarkerMeansShown
  <1> QED
    BY <1>1, FilesHold, PTL

(* The operator's changes are counted. *)
EditsNat == edits \in Nat

LEMMA EditsCounted == Spec => []EditsNat
  <1>1. Init => EditsNat
    BY DEF Init, EditsNat
  <1>2. EditsNat /\ [Next]_vars => EditsNat'
    <2> SUFFICES ASSUME EditsNat, Next \/ UNCHANGED vars PROVE EditsNat'
      OBVIOUS
    <2>1. CASE Operator
      BY <2>1 DEF Operator, EditsNat
    <2>2. CASE Start \/ Restart \/ Stop \/ StartTimeout \/ StopTimeout \/ Crash
               \/ PowerFailure \/ Writeback \/ UNCHANGED vars
      BY <2>2 DEF EditsNat, Start, Restart, Starts, Stop, Signal, StartTimeout, StopTimeout,
         Crash, PowerFailure, Writeback, bounds, vars
    <2>3. CASE SignalStep \/ MonitorStores \/ MonitorSends
      BY <2>3 DEF EditsNat, SignalStep, MonitorStores, MonitorSends, bounds
    <2>4. CASE \/ LoadConfig \/ ReadPrivateKey \/ WriteTemp \/ SyncAndClose \/ Rename
               \/ WriteFails \/ ReadPublicKey
      BY <2>4 DEF EditsNat, LoadConfig, ReadPrivateKey, WriteTemp, SyncAndClose, Rename,
         WriteFails, ReadPublicKey, Fatal, bounds
    <2>5. CASE \/ StatMarker \/ PrintFirstRun \/ SaveMarker \/ StartProxies
               \/ NewHealthServer \/ SpawnSignals \/ Ready \/ StatusStop \/ Exit
      BY <2>5 DEF EditsNat, StatMarker, PrintFirstRun, SaveMarker, StartProxies,
         NewHealthServer, SpawnSignals, Ready, StatusStop, Exit, Fatal, bounds
    <2> QED
      BY ZenonT(30), <2>1, <2>2, <2>3, <2>4, <2>5 DEF Next, MainStep
  <1> QED
    BY <1>1, <1>2, PTL DEF Spec

(* The program never replaces a private key (keys.go).                      *)
THEOREM KeyAlwaysKept == Spec => KeyKept
  <1> DEFINE A == proc # "off" /\ proc' # "off" /\ edits' = edits /\ disk'.priv # disk.priv
                    => disk.priv = NoKey \/ touched
  <1>1. FilesInv /\ EditsNat /\ [Next]_vars => [A]_vars
    <2> SUFFICES ASSUME FilesInv, EditsNat, Next, proc' # "off", edits' = edits,
                        disk'.priv # disk.priv
                 PROVE  disk.priv = NoKey \/ touched
      BY SMTT(30), SMTT(60)
    <2>1. CASE Rename
      BY <2>1 DEF Rename, Enters, Writing, FilesInv, Dir
    <2>2. CASE SaveMarker
      BY <2>2 DEF SaveMarker, Enters, FilesInv, Dir
    <2>3. CASE Operator
      BY <2>3 DEF Operator, EditsNat
    <2>4. CASE PowerFailure
      BY <2>4 DEF PowerFailure, ProcessGone
    <2> QED
      BY ZenonT(30), <2>1, <2>2, <2>3, <2>4
      DEF Next, MainStep, Start, Restart, Starts, Stop, Signal, StartTimeout, StopTimeout,
          LoadConfig, ReadPrivateKey, WriteTemp, SyncAndClose, WriteFails, ReadPublicKey,
          StatMarker, PrintFirstRun, StartProxies, NewHealthServer, SpawnSignals, Ready,
          StatusStop, Exit, SignalStep, MonitorStores, MonitorSends, Crash, Writeback,
          Fatal, files
  <1> QED
    BY <1>1, FilesHold, EditsCounted, PTL DEF Spec, KeyKept

------------------------------------------------------------------------------
(* What the servers, the status line and the unit are at each place.        *)

Early == Places \ {"health", "signals", "ready", "serving", "drain"}

AllListening == listening = {"health"} \union (IF conf THEN {"proxies"} ELSE {})

ServiceInv ==
  /\ proc \in Places /\ conf \in BOOLEAN
  /\ stopping <=> proc = "drain"
  /\ proc \in Early => listening = {} /\ mon = NoMonitor
  /\ ~conf => mon = NoMonitor
  /\ proc = "health" => listening = IF conf THEN {"proxies"} ELSE {}
  /\ proc \in {"signals", "ready", "serving", "drain"} => AllListening
  /\ unit = "active" => proc \in {"serving", "drain"}
  /\ proc = "off" <=> unit \in {"inactive", "restart", "failed"}
  /\ mon \in [status : {"none", "connecting", "connected", "failed"}, unsent : BOOLEAN]
  /\ LineIsCurrent

LEMMA InitService == Init => ServiceInv
  <1> SUFFICES ASSUME Init PROVE ServiceInv
    OBVIOUS
  <1>1. mon \in [status : {"none", "connecting", "connected", "failed"}, unsent : BOOLEAN]
    BY DEF Init, NoMonitor
  <1>2. LineIsCurrent
    BY DEF Init, LineIsCurrent
  <1> QED
    BY ZenonT(30), <1>1, <1>2 DEF Init, ServiceInv, Early, Places

(* The end of the process, with the unit told. *)
LEMMA GoneService ==
  ASSUME ProcessGone, unit' \in {"inactive", "restart", "failed"}
  PROVE  ServiceInv'
  <1>1. (mon \in [status : {"none", "connecting", "connected", "failed"}, unsent : BOOLEAN])'
    BY DEF ProcessGone, NoMonitor
  <1>2. LineIsCurrent'
    BY DEF ProcessGone, LineIsCurrent
  <1> QED
    BY ZenonT(30), <1>1, <1>2 DEF ProcessGone, ServiceInv, Early, Places

(* The start and main's early steps. *)
LEMMA EarlySteps ==
  ASSUME ServiceInv,
         \/ Start \/ Restart \/ LoadConfig \/ ReadPrivateKey \/ WriteTemp \/ SyncAndClose
         \/ Rename \/ WriteFails \/ ReadPublicKey \/ StatMarker \/ PrintFirstRun \/ SaveMarker
  PROVE  ServiceInv'
  <1>1. CASE Fatal
    BY <1>1, GoneService DEF Fatal
  <1>2. CASE Start \/ Restart
    BY <1>2 DEF Start, Restart, Starts, status, ServiceInv, Early, Places, AllListening,
       LineIsCurrent
  <1>3. CASE ~Fatal /\ ~(Start \/ Restart)
    <2>1. /\ proc \in Early \ {"off"} /\ proc' \in Early \ {"off"}
          /\ UNCHANGED <<listening, status, unit>> /\ conf' \in BOOLEAN
      BY ZenonT(30), SMTT(30), <1>3 DEF LoadConfig, ReadPrivateKey, WriteTemp, SyncAndClose, Rename,
         Writing,
         WriteFails, ReadPublicKey, StatMarker, PrintFirstRun, SaveMarker, Goes,
         Early, Places, ServiceInv
    <2> QED
      BY <2>1 DEF status, ServiceInv, Early, Places, AllListening, LineIsCurrent
  <1> QED
    BY <1>1, <1>2, <1>3

(* The servers, the status line and the end. *)
LEMMA ServerSteps ==
  ASSUME ServiceInv,
         \/ StartProxies \/ NewHealthServer \/ SpawnSignals \/ Ready \/ StatusStop \/ Exit
  PROVE  ServiceInv'
  <1> USE DEF ServiceInv, Goes, Early, Places
  <1>1. CASE Fatal
    BY <1>1, GoneService DEF Fatal
  <1>2. CASE StartProxies /\ ~Fatal
    <2>1. /\ proc = "proxies" /\ proc' = "health" /\ ~stopping /\ ~stopping'
          /\ conf' = conf /\ unit' = unit /\ listening = {}
      BY <1>2 DEF StartProxies
    <2>2. CASE conf
      <3>1. /\ listening' = {"proxies"} /\ mon' = [status |-> "connecting", unsent |-> FALSE]
            /\ (lost' = FALSE /\ line' = "connecting") \/ lost' = TRUE
        BY <1>2, <2>1, <2>2 DEF StartProxies, send, Shows
      <3> QED
        BY SMTT(30), SMTT(60), <2>1, <2>2, <3>1 DEF AllListening, LineIsCurrent
    <2>3. CASE ~conf
      <3>1. /\ listening' = {} /\ mon' = mon
            /\ (lost' = FALSE /\ line' = "not_configured") \/ lost' = TRUE
        BY SMTT(30), SMTT(60), <1>2, <2>1, <2>3 DEF StartProxies, send, Shows
      <3> QED
        BY ZenonT(30), SMTT(30), <2>1, <2>3, <3>1 DEF AllListening, LineIsCurrent
    <2> QED
      BY <2>2, <2>3
  <1>3. CASE NewHealthServer /\ ~Fatal
    BY SMTT(30), SMTT(60), <1>3 DEF NewHealthServer, AllListening, status, LineIsCurrent
  <1>4. CASE SpawnSignals \/ Ready
    BY SMTT(30), SMTT(60), <1>4 DEF SpawnSignals, Ready, AllListening, status, LineIsCurrent
  <1>5. CASE StatusStop
    BY SMTT(30), SMTT(60), <1>5 DEF StatusStop, Shows, AllListening, LineIsCurrent
  <1>6. CASE Exit
    BY SMTT(30), SMTT(60), <1>6, GoneService DEF Exit
  <1> QED
    BY <1>1, <1>2, <1>3, <1>4, <1>5, <1>6

(* The signal goroutine and the monitor. *)
LEMMA BesideSteps ==
  ASSUME ServiceInv, SignalStep \/ MonitorStores \/ MonitorSends
  PROVE  ServiceInv'
  <1> USE DEF ServiceInv, Early, Places
  <1>1. CASE SignalStep
    BY SMTT(30), SMTT(60), <1>1 DEF SignalStep, AllListening, status, LineIsCurrent
  <1>2. CASE MonitorStores
    BY <1>2 DEF MonitorStores, AllListening, NoMonitor, LineIsCurrent
  <1>3. CASE MonitorSends
    <2>1. /\ UNCHANGED <<proc, conf, listening, stopping, unit>>
          /\ mon'.status = mon.status
          /\ mon' \in [status : {"none", "connecting", "connected", "failed"}, unsent : BOOLEAN]
      BY ZenonT(30), <1>3 DEF MonitorSends
    <2>2. proc \notin Early
      BY <1>3 DEF MonitorSends, NoMonitor
    <2>3. \/ stopping /\ UNCHANGED <<line, lost>>
          \/ ~stopping /\ lost' = FALSE /\ line' = mon.status
          \/ ~stopping /\ lost' = TRUE
      BY <1>3 DEF MonitorSends, send, Shows
    <2>4. conf
      BY <1>3 DEF MonitorSends, NoMonitor
    <2>5. LineIsCurrent'
      BY <1>3, <2>1, <2>3, <2>4 DEF MonitorSends, LineIsCurrent
    <2> QED
      BY <2>1, <2>2, <2>4, <2>5 DEF AllListening
  <1> QED
    BY SMTT(30), SMTT(60), <1>1, <1>2, <1>3

(* The unit and the world. *)
LEMMA UnitSteps ==
  ASSUME ServiceInv,
         Stop \/ StartTimeout \/ StopTimeout \/ Crash \/ PowerFailure \/ Writeback \/ Operator
  PROVE  ServiceInv'
  <1>1. CASE ProcessGone
    BY ZenonT(30), <1>1, GoneService DEF Stop, StartTimeout, StopTimeout, Crash,
       PowerFailure,
       Writeback, Operator, Signal, ProcessGone, ServiceInv, signals
  <1>2. CASE ~ProcessGone
    <2>1. /\ UNCHANGED <<proc, conf, listening, status>>
          /\ \/ unit' = unit
             \/ unit \in {"starting", "active"} /\ unit' \in {"stopping", "timeout"}
             \/ unit = "restart" /\ unit' = "inactive"
      BY <1>2 DEF Stop, StartTimeout, StopTimeout, Crash, PowerFailure, Writeback,
         Operator, Signal
    <2> QED
      BY <2>1 DEF ServiceInv, status, AllListening, LineIsCurrent
  <1> QED
    BY <1>1, <1>2

LEMMA ServiceHolds == Spec => []ServiceInv
  <1>1. ServiceInv /\ [Next]_vars => ServiceInv'
    <2> SUFFICES ASSUME ServiceInv, [Next]_vars PROVE ServiceInv'
      OBVIOUS
    <2>1. CASE UNCHANGED vars
      BY <2>1 DEF vars, ServiceInv, AllListening, LineIsCurrent
    <2> QED
      BY SMTT(30), SMTT(60), <2>1, EarlySteps, ServerSteps, BesideSteps, UnitSteps DEF Next, MainStep
  <1> QED
    BY <1>1, InitService, PTL DEF Spec

(* The status line is current (notify.go).                                  *)
THEOREM LineAlwaysCurrent == Spec => []LineIsCurrent
  <1>1. ServiceInv => LineIsCurrent
    BY DEF ServiceInv
  <1> QED
    BY <1>1, ServiceHolds, PTL

(* systemd takes the unit for active only while every listener is open      *)
(* (main.go).                                                               *)
THEOREM ActiveAlwaysListens == Spec => []ActiveMeansListening
  <1>1. ServiceInv => ActiveMeansListening
    BY DEF ServiceInv, ActiveMeansListening, AllListening
  <1> QED
    BY <1>1, ServiceHolds, PTL
------------------------------------------------------------------------------
(* Types.                                                                   *)

TmpType ==
  /\ tmp \in [st : {"none", "written", "closed"}, synced : BOOLEAN]
  /\ tmp # NoTmp => proc \in {"writePriv", "writePub"}

FileTypes == readable \in BOOLEAN /\ touched \in BOOLEAN /\ shown \subseteq Content

SignalTypes ==
  /\ listening \subseteq Listeners
  /\ sig \in {"none", "spawned", "notify", "waiting", "got"} /\ term \in BOOLEAN

StatusTypes ==
  /\ line \in {"none", "not_configured", "connecting", "connected", "failed", "stopping"}
  /\ stopping \in BOOLEAN /\ lost \in BOOLEAN

UnitTypes ==
  /\ unit \in {"inactive", "starting", "active", "stopping", "timeout", "restart", "failed"}
  /\ faults \in 0 .. MaxFaults /\ edits \in 0 .. MaxEdits

Typed == TmpType /\ FileTypes /\ SignalTypes /\ StatusTypes /\ UnitTypes

(* A temporary file is there only while a file is written. *)
LEMMA TmpKept ==
  ASSUME TmpType, \/ UNCHANGED <<tmp, proc>>
                  \/ UNCHANGED tmp /\ ~Writing
                  \/ tmp' = NoTmp
                  \/ /\ Writing /\ UNCHANGED proc
                     /\ tmp' \in [st : {"none", "written", "closed"}, synced : BOOLEAN]
  PROVE  TmpType'
  <1>1. NoTmp \in [st : {"none", "written", "closed"}, synced : BOOLEAN]
    BY DEF NoTmp
  <1> QED
    BY ZenonT(30), <1>1 DEF TmpType, Writing

(* Reading the configuration and the private key keeps the types. *)
LEMMA StartTypes ==
  ASSUME FilesInv, ServiceInv, Typed, LoadConfig \/ ReadPrivateKey \/ WriteFails
  PROVE  Typed'
  <1> USE ProcessAssumption DEF Typed, LoadConfig, ReadPrivateKey, WriteFails,
        Goes, Fatal, ProcessGone, files, status, signals, bounds
  <1>1. TmpType'
    BY SMTT(30), SMTT(60), TmpKept DEF Writing
  <1>2. FileTypes'
    BY ZenonT(30) DEF FileTypes, FilesInv, Content
  <1>3. SignalTypes'
    BY ZenonT(30) DEF SignalTypes, Listeners
  <1>4. StatusTypes'
    BY ZenonT(30) DEF StatusTypes, ServiceInv
  <1>5. UnitTypes'
    BY ZenonT(30), SMTT(30) DEF UnitTypes
  <1> QED
    BY ONLY ZenonT(30), SMTT(30), <1>1, <1>2, <1>3, <1>4, <1>5 DEF Typed

(* So does writing a key file. *)
LEMMA WriteTypes ==
  ASSUME FilesInv, ServiceInv, Typed, WriteTemp \/ SyncAndClose \/ Rename \/ ReadPublicKey
  PROVE  Typed'
  <1> USE ProcessAssumption DEF Typed, WriteTemp, SyncAndClose, Rename, ReadPublicKey,
        Goes, Writing, files, status, signals, bounds
  <1>1. TmpType'
    <2>1. /\ [st |-> "written", synced |-> FALSE] \in
                [st : {"none", "written", "closed"}, synced : BOOLEAN]
          /\ [st |-> "closed", synced |-> TRUE] \in
                [st : {"none", "written", "closed"}, synced : BOOLEAN]
      BY ONLY TRUE
    <2>2. CASE WriteTemp \/ SyncAndClose
      BY ONLY ZenonT(30), <2>1, <2>2, Typed, TmpKept DEF Typed, WriteTemp, SyncAndClose
    <2>3. CASE Rename
      BY ONLY <2>3, Typed, TmpKept DEF Typed, Rename
    <2>4. CASE ReadPublicKey
      BY ONLY <2>4, Typed, TmpKept DEF Typed, ReadPublicKey, Goes, Writing
    <2> QED
      BY ONLY <2>2, <2>3, <2>4, WriteTemp \/ SyncAndClose \/ Rename \/ ReadPublicKey
  <1>2. FileTypes'
    BY ZenonT(30) DEF FileTypes, FilesInv, Content
  <1>3. SignalTypes'
    BY ZenonT(30) DEF SignalTypes, Listeners
  <1>4. StatusTypes'
    BY ZenonT(30), SMTT(30) DEF StatusTypes, ServiceInv
  <1>5. UnitTypes'
    BY DEF UnitTypes
  <1> QED
    BY ONLY SMTT(30), SMTT(60), <1>1, <1>2, <1>3, <1>4, <1>5 DEF Typed

(* So does the first-run hint. *)
LEMMA HintTypes ==
  ASSUME FilesInv, ServiceInv, Typed, StatMarker \/ PrintFirstRun \/ SaveMarker
  PROVE  Typed'
  <1> USE ProcessAssumption DEF Typed, StatMarker, PrintFirstRun, SaveMarker,
        Goes, files, status, signals, bounds
  <1>1. TmpType'
    BY TmpKept DEF Writing
  <1>2. FileTypes'
    BY DEF FileTypes, FilesInv, Content
  <1>3. SignalTypes'
    BY DEF SignalTypes, Listeners
  <1>4. StatusTypes'
    BY DEF StatusTypes, ServiceInv
  <1>5. UnitTypes'
    BY ZenonT(30), SMTT(30) DEF UnitTypes
  <1> QED
    BY ONLY <1>1, <1>2, <1>3, <1>4, <1>5 DEF Typed

(* So does opening the listeners. *)
LEMMA ListenTypes ==
  ASSUME FilesInv, ServiceInv, Typed, StartProxies \/ NewHealthServer \/ SpawnSignals
  PROVE  Typed'
  <1> USE ProcessAssumption DEF Typed, StartProxies, NewHealthServer, SpawnSignals,
        Goes, Fatal, ProcessGone, send, Shows, files, status, signals, bounds
  <1>1. TmpType'
    BY ZenonT(30), SMTT(30), TmpKept DEF Writing
  <1>2. FileTypes'
    BY ZenonT(30) DEF FileTypes, FilesInv, Content
  <1>3. SignalTypes'
    BY ZenonT(30) DEF SignalTypes, Listeners
  <1>4. StatusTypes'
    BY ZenonT(30), SMTT(30) DEF StatusTypes, ServiceInv
  <1>5. UnitTypes'
    BY SMTT(30), SMTT(60) DEF UnitTypes
  <1> QED
    BY ONLY <1>1, <1>2, <1>3, <1>4, <1>5 DEF Typed

(* So do the signal goroutine, the monitor and the shutdown. *)
LEMMA ServeTypes ==
  ASSUME FilesInv, ServiceInv, Typed,
         \/ Ready \/ StatusStop \/ Exit \/ SignalStep \/ MonitorStores \/ MonitorSends
  PROVE  Typed'
  <1> USE ProcessAssumption DEF Typed, Ready, StatusStop, Exit, SignalStep, MonitorStores,
        MonitorSends, Goes, ProcessGone, send, Shows, files, status, signals, bounds
  <1>1. TmpType'
    BY TmpKept DEF Writing
  <1>2. FileTypes'
    BY DEF FileTypes, FilesInv, Content
  <1>3. SignalTypes'
    BY ZenonT(30) DEF SignalTypes, Listeners
  <1>4. StatusTypes'
    BY ZenonT(30), SMTT(30) DEF StatusTypes, ServiceInv
  <1>5. UnitTypes'
    BY DEF UnitTypes
  <1> QED
    BY ONLY <1>1, <1>2, <1>3, <1>4, <1>5 DEF Typed

(* So do systemd's starts and stops. *)
LEMMA UnitStartTypes ==
  ASSUME FilesInv, ServiceInv, Typed, Start \/ Restart \/ Stop \/ StartTimeout
  PROVE  Typed'
  <1> USE ProcessAssumption DEF Typed, Start, Restart, Stop, StartTimeout,
        Starts, Signal, ProcessGone, files, status, signals, bounds
  <1>1. TmpType'
    BY ZenonT(30), SMTT(30), TmpKept DEF Writing, ServiceInv
  <1>2. FileTypes'
    BY ZenonT(30) DEF FileTypes, FilesInv, Content
  <1>3. SignalTypes'
    BY ZenonT(30) DEF SignalTypes, Listeners
  <1>4. StatusTypes'
    BY ZenonT(30), SMTT(30) DEF StatusTypes, ServiceInv
  <1>5. UnitTypes'
    BY DEF UnitTypes
  <1> QED
    BY ONLY <1>1, <1>2, <1>3, <1>4, <1>5 DEF Typed

(* So do crashes, power failures and the operator. *)
LEMMA WorldTypes ==
  ASSUME FilesInv, ServiceInv, Typed,
         \/ StopTimeout \/ Crash \/ PowerFailure \/ Writeback \/ Operator
  PROVE  Typed'
  <1> USE ProcessAssumption DEF Typed, StopTimeout, Crash, PowerFailure, Writeback, Operator,
        ProcessGone, files, status, signals, bounds
  <1>1. TmpType'
    BY TmpKept DEF Writing
  <1>2. FileTypes'
    BY ZenonT(30) DEF FileTypes, FilesInv, Content
  <1>3. SignalTypes'
    BY ZenonT(30) DEF SignalTypes, Listeners
  <1>4. StatusTypes'
    BY ZenonT(30) DEF StatusTypes, ServiceInv
  <1>5. UnitTypes'
    BY DEF UnitTypes
  <1> QED
    BY ONLY <1>1, <1>2, <1>3, <1>4, <1>5 DEF Typed

(* The files, the process and the unit are well typed (main.go, keys.go,    *)
(* notify.go, debian/ssh-gate.service).                                     *)
THEOREM TypeCorrect == Spec => []TypeOK
  <1>1. Init => Typed
    <2>1. Init => TmpType
      BY DEF Init, TmpType, NoTmp
    <2>2. Init => FileTypes /\ SignalTypes
      BY ZenonT(30) DEF Init, FileTypes, SignalTypes
    <2>3. Init => StatusTypes
      BY ZenonT(30) DEF Init, StatusTypes
    <2>4. Init => UnitTypes
      BY ProcessAssumption DEF Init, UnitTypes
    <2> QED
      BY <2>1, <2>2, <2>3, <2>4 DEF Typed
  <1>2. FilesInv /\ ServiceInv /\ Typed /\ [Next]_vars => Typed'
    <2>1. ASSUME Typed, UNCHANGED vars PROVE Typed'
      BY <2>1 DEF vars, Typed, TmpType, FileTypes, SignalTypes, StatusTypes, UnitTypes
    <2> QED
      BY ZenonT(30), <2>1, StartTypes, WriteTypes, HintTypes, ListenTypes, ServeTypes,
         UnitStartTypes, WorldTypes DEF Next, MainStep
  <1>3. FilesInv /\ ServiceInv /\ Typed => TypeOK
    BY ZenonT(30) DEF FilesInv, ServiceInv, Typed, TmpType, FileTypes, SignalTypes,
       StatusTypes, UnitTypes, TypeOK
  <1> QED
    BY <1>1, <1>2, <1>3, FilesHold, ServiceHolds, PTL DEF Spec
==============================================================================
