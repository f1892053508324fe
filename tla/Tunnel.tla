-------------------------------- MODULE Tunnel --------------------------------
(***************************************************************************)
(* What the SSH dialer of ssh-gate promises the rest of the program and    *)
(* the operator: one link at a time, which goes down only after it stopped *)
(* working, and trust on first use: a process connects to the one host key *)
(* that was on disk when it started or, without one, to the key it saved   *)
(* before it used it, and to no other until it ends.                       *)
(*                                                                         *)
(* SSHDialer implements this.                                              *)
(***************************************************************************)
EXTENDS Links

CONSTANTS Keys, NoKey, BlankFile

VARIABLES
  running,   \* the process runs
  file,      \* ssh_known_hosts
  pin,       \* the key the process accepts, NoKey before its first
  offer,     \* a key that was saved and not yet used
  link       \* one of Links

vars == <<running, file, pin, offer, link>>

Init ==
  /\ running = FALSE
  /\ file = NoKey
  /\ pin = NoKey
  /\ offer = NoKey
  /\ link = "down"

(* A process starts with the key of the file, if there is one. *)
Begins ==
  /\ ~running /\ running' = TRUE
  /\ file # BlankFile
  /\ pin' = file
  /\ UNCHANGED <<file, offer, link>>

Ends ==
  /\ running /\ running' = FALSE
  /\ pin' = NoKey /\ offer' = NoKey /\ link' = "down"
  /\ UNCHANGED file

(* The operator edits the file. *)
Edits ==
  /\ file' \in Keys \union {NoKey, BlankFile}
  /\ UNCHANGED <<running, pin, offer, link>>

(* First use: the key is saved. *)
Saves(k) ==
  /\ running /\ link = "down" /\ pin = NoKey /\ offer = NoKey
  /\ file' = k
  /\ offer' = k
  /\ UNCHANGED <<running, pin, link>>

(* The connection was given up before it was used. *)
Withdraws ==
  /\ offer # NoKey /\ offer' = NoKey
  /\ UNCHANGED <<running, file, pin, link>>

Connects(k) ==
  /\ running /\ link = "down"
  /\ k = IF pin = NoKey THEN offer ELSE pin
  /\ pin' = k
  /\ offer' = NoKey
  /\ link' \in {"up", "dying"}
  /\ UNCHANGED <<running, file>>

Changes ==
  /\ link # "down"
  /\ <<link, link'>> \in LinkSteps
  /\ UNCHANGED <<running, file, pin, offer>>

Next ==
  \/ Begins \/ Ends \/ Edits \/ Withdraws \/ Changes
  \/ \E k \in Keys : Saves(k) \/ Connects(k)

Spec == Init /\ [][Next]_vars
==============================================================================
