------------------------------ MODULE Handshakes ------------------------------
(***************************************************************************)
(* The handshake deadlines of a SOCKS5 server (socks5.go): serveConn keeps *)
(* every connection in s.handshakes under the client's address, so that    *)
(* the dial callback, which knows only the address, can lift the deadline. *)
(* An address is free for a new connection once the old one is closed.     *)
(***************************************************************************)
EXTENDS FiniteSets

CONSTANTS
  Conns,     \* connections, in any number over time: one that is over is
             \* used again
  Srcs,      \* client addresses
  NoConn

VARIABLES
  pc,          \* where each serveConn is
  src,         \* conn.RemoteAddr()
  open,        \* connections whose socket is open
  deadline,    \* connections with a deadline
  handshakes   \* s.handshakes

vars == <<pc, src, open, deadline, handshakes>>

TypeOK ==
  /\ pc \in [Conns -> {"none", "accepted", "store", "handshake", "dial", "relay", "delete"}]
  /\ src \in [Conns -> Srcs]
  /\ open \subseteq Conns /\ deadline \subseteq Conns
  /\ handshakes \in [Srcs -> Conns \union {NoConn}]

Init ==
  /\ pc = [c \in Conns |-> "none"]
  /\ src \in [Conns -> Srcs]
  /\ open = {} /\ deadline = {}
  /\ handshakes = [a \in Srcs |-> NoConn]

Goes(c, from, to) == pc[c] = from /\ pc' = [pc EXCEPT ![c] = to]

Accept(c, a) ==
  /\ Goes(c, "none", "accepted")
  /\ \A d \in open : src[d] # a
  /\ src' = [src EXCEPT ![c] = a]
  /\ open' = open \union {c}
  /\ UNCHANGED <<deadline, handshakes>>

SetDeadline(c) ==
  /\ Goes(c, "accepted", "store")
  /\ deadline' = deadline \union {c}
  /\ UNCHANGED <<src, open, handshakes>>

Store(c) ==
  /\ Goes(c, "store", "handshake")
  /\ handshakes' = [handshakes EXCEPT ![src[c]] = c]
  /\ UNCHANGED <<src, open, deadline>>

(* The dial callback: the request is there. *)
LiftDeadline(c) ==
  /\ Goes(c, "handshake", "dial")
  /\ deadline' = deadline \ {handshakes[src[c]]}
  /\ UNCHANGED <<src, open, handshakes>>

Dialed(c) ==
  /\ Goes(c, "dial", "relay")
  /\ UNCHANGED <<src, open, deadline, handshakes>>

(* ServeConn returns and has closed the connection: the client is gone, the *)
(* deadline has passed, the dial failed or the relay is over.               *)
ServeConnReturns(c) ==
  /\ pc[c] \in {"handshake", "dial", "relay"}
  /\ pc' = [pc EXCEPT ![c] = "delete"]
  /\ open' = open \ {c}
  /\ deadline' = deadline \ {c}
  /\ UNCHANGED <<src, handshakes>>

Delete(c) ==
  /\ Goes(c, "delete", "none")
  /\ handshakes' = [handshakes EXCEPT ![src[c]] = NoConn]
  /\ UNCHANGED <<src, open, deadline>>

Next ==
  \E c \in Conns :
    \/ \E a \in Srcs : Accept(c, a)
    \/ SetDeadline(c) \/ Store(c) \/ LiftDeadline(c) \/ Dialed(c)
    \/ ServeConnReturns(c) \/ Delete(c)

Spec == Init /\ [][Next]_vars

------------------------------------------------------------------------------
(* "The handshake is over: the relay that follows is unbounded, like a      *)
(* CONNECT tunnel" (socks5.go): a relay runs under no deadline.  The Delete *)
(* of a connection that is over takes away the entry of a new one from the  *)
(* same address, which then finds nothing to lift.                          *)
RelayUnbounded == \A c \in Conns : pc[c] = "relay" => c \notin deadline
==============================================================================
