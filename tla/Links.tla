-------------------------------- MODULE Links --------------------------------
(* The SSH tunnel as the rest of the process sees it (Connected() and the    *)
(* fate of what is sent through it): what the dialer guarantees in Tunnel,    *)
(* and what the resolvers rely on in DNSUpstreams.                            *)

(* The tunnel is "up"; "dying" when its transport does not work and           *)
(* Connected() is still true, because the peer is stuck or client.Wait() is   *)
(* yet to return; "down" when Connected() is false.                           *)
Links == {"up", "dying", "down"}

(* A stuck peer may answer again.  A tunnel goes down only after it stopped   *)
(* working; a new one may have died before it is published.                   *)
LinkSteps ==
  {<<"up", "dying">>, <<"dying", "up">>, <<"dying", "down">>,
   <<"down", "up">>, <<"down", "dying">>}
==============================================================================
