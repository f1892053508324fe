--------------------------- MODULE SSHDialerRetrust --------------------------
(***************************************************************************)
(* SSHDialer with one history variable: what ssh_known_hosts held when the *)
(* connect attempt in progress began.                                      *)
(***************************************************************************)
EXTENDS SSHDialer

VARIABLE atDial

RetrustInit == Init /\ atDial = NoKey

RetrustNext ==
  /\ Next
  /\ atDial' = IF pc # "dialing" /\ pc' = "dialing" THEN file ELSE atDial

RetrustSpec == RetrustInit /\ [][RetrustNext]_<<vars, atDial>>

(* "a different key fails until the file is deleted" (README.md, and the    *)
(* status line "delete ... to trust the new key"): an attempt that began    *)
(* with no ssh_known_hosts does not fail with host_key_mismatch.            *)
DeletedFileRetrusts ==
  [][pc = "dialing" /\ pc' = "sleep" /\ status' = "host_key_mismatch" =>
       atDial # NoKey]_<<vars, atDial>>
==============================================================================
