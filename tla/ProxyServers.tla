----------------------------- MODULE ProxyServers -----------------------------
(***************************************************************************)
(* The two proxy listeners of ssh-gate (listener.go, httpproxy.go,         *)
(* socks5.go) and the shutdown of main.go: accept loops over the shared    *)
(* connection limit, one handler per client connection, the upstream       *)
(* connection that writes the access line when it is closed (logConn), the *)
(* idle guard of an absolute-form HTTP request, and Shutdown, which closes *)
(* the listener of each server and waits for its relays up to one deadline *)
(* shared by both.                                                         *)
(*                                                                         *)
(* What clients and upstreams send is left out: a copy, a request or a     *)
(* handshake goes on or ends.  The process exits after the last Shutdown.  *)
(***************************************************************************)
EXTENDS Integers, FiniteSets, Sequences

CONSTANTS
  Kinds,    \* the servers in the order startProxies makes them, by protocol
  Conns,    \* client connections that may arrive
  Limit,    \* maxConnections, 0 for no limit
  NoConn    \* no connection

ASSUME ProxyAssumption ==
  /\ Kinds \in Seq({"socks5", "http"}) /\ Kinds # <<>>
  /\ Limit \in Nat
  /\ IsFiniteSet(Conns) /\ NoConn \notin Conns

VARIABLES
  server,     \* the server each connection is for
  listening,  \* the listener of a server is open
  loop,       \* where the accept loop of a server is
  got,        \* the connection it was handed
  slots,      \* len(limit.slots)
  pc,         \* where a connection is
  open,       \* its client socket is accepted and was not closed yet
  up,         \* its upstream logConn
  copying,    \* the directions its relay still copies
  guard,      \* where its idle guard is
  quiet,      \* no byte has moved for idleTimeout
  lines,      \* access lines written for it
  count,      \* the WaitGroup of a server
  waiter,     \* the goroutine that waits for it
  phase,      \* where main is
  turn,       \* the server main shuts down
  expired,    \* the drain deadline has passed
  result      \* what Shutdown returned

connVars == <<server, pc, open, up, copying, guard, quiet, lines>>
mainVars == <<phase, turn, expired, result, waiter, listening>>
vars == <<server, listening, loop, got, slots, pc, open, up, copying, guard, quiet,
          lines, count, waiter, phase, turn, expired, result>>

Servers == 1 .. Len(Kinds)
Kind(c) == Kinds[server[c]]
Directions == {"up", "down"}

TypeOK ==
  /\ server \in [Conns -> Servers]
  /\ listening \in [Servers -> BOOLEAN]
  /\ loop \in [Servers -> {"accept", "backoff", "got", "slotted", "exit"}]
  /\ got \in [Servers -> Conns \union {NoConn}]
  /\ slots \in Nat
  /\ pc \in [Conns -> {"new", "queued", "taken", "handshake", "dial", "opened", "relay",
                       "send", "respond", "closeUp", "line", "closing", "leaving", "gone"}]
  /\ open \in [Conns -> BOOLEAN]
  /\ up \in [Conns -> {"none", "open", "closed"}]
  /\ copying \in [Conns -> SUBSET Directions]
  /\ guard \in [Conns -> {"off", "watch", "fired", "half", "line"}]
  /\ quiet \in [Conns -> BOOLEAN]
  /\ lines \in [Conns -> Nat]
  /\ count \in [Servers -> Nat]
  /\ waiter \in [Servers -> {"none", "wait", "done"}]
  /\ phase \in {"serve", "close", "drain", "stop", "exit"}
  /\ turn \in Servers
  /\ expired \in BOOLEAN
  /\ result \in [Servers -> {"none", "ok", "timeout", "error"}]

Init ==
  /\ server \in [Conns -> Servers]
  /\ listening = [s \in Servers |-> TRUE]
  /\ loop = [s \in Servers |-> "accept"]
  /\ got = [s \in Servers |-> NoConn]
  /\ slots = 0
  /\ pc = [c \in Conns |-> "new"]
  /\ open = [c \in Conns |-> FALSE]
  /\ up = [c \in Conns |-> "none"]
  /\ copying = [c \in Conns |-> {}]
  /\ guard = [c \in Conns |-> "off"]
  /\ quiet = [c \in Conns |-> FALSE]
  /\ lines = [c \in Conns |-> 0]
  /\ count = [s \in Servers |-> 0]
  /\ waiter = [s \in Servers |-> "none"]
  /\ phase = "serve"
  /\ turn = 1
  /\ expired = FALSE
  /\ result = [s \in Servers |-> "none"]

Goes(c, from, to) == pc[c] = from /\ pc' = [pc EXCEPT ![c] = to]
Loops(s, from, to) == loop[s] = from /\ loop' = [loop EXCEPT ![s] = to]

------------------------------------------------------------------------------
(* Accepting.                                                               *)

(* The kernel completes a client's connection into the backlog ...          *)
Connects(c) ==
  /\ listening[server[c]]
  /\ Goes(c, "new", "queued")
  /\ UNCHANGED <<server, open, up, copying, guard, quiet, lines, loop, got, slots, count,
                 mainVars>>

(* ... and resets it when the listener is closed first.                     *)
BacklogReset(c) ==
  /\ ~listening[server[c]]
  /\ Goes(c, "queued", "gone")
  /\ UNCHANGED <<server, open, up, copying, guard, quiet, lines, loop, got, slots, count,
                 mainVars>>

AcceptReturns(s) ==
  /\ listening[s]
  /\ Loops(s, "accept", "got")
  /\ \E c \in Conns :
       /\ server[c] = s
       /\ Goes(c, "queued", "taken")
       /\ got' = [got EXCEPT ![s] = c]
  /\ UNCHANGED <<server, open, up, copying, guard, quiet, lines, slots, count, mainVars>>

(* Mutant: any accept error ends the loop. *)
AcceptFailsForGood(s) ==
  /\ listening[s]
  /\ Loops(s, "accept", "exit")
  /\ UNCHANGED <<connVars, got, slots, count, mainVars>>

(* A transient error: resilientListener sleeps and tries again.             *)
AcceptFails(s) ==
  /\ listening[s]
  /\ Loops(s, "accept", "backoff")
  /\ UNCHANGED <<connVars, got, slots, count, mainVars>>

BackoffOver(s) ==
  /\ Loops(s, "backoff", "accept")
  /\ UNCHANGED <<connVars, got, slots, count, mainVars>>

(* net.ErrClosed is the only error that ends the loop.                      *)
AcceptClosed(s) ==
  /\ ~listening[s]
  /\ Loops(s, "accept", "exit")
  /\ UNCHANGED <<connVars, got, slots, count, mainVars>>

(* tryAcquire, when it reports true; without a limit there is nothing to    *)
(* acquire.                                                                 *)
tryAcquire(s) ==
  /\ Limit = 0 \/ slots < Limit
  /\ slots' = IF Limit = 0 THEN slots ELSE slots + 1
  /\ open' = [open EXCEPT ![got[s]] = TRUE]

Acquires(s) ==
  /\ Loops(s, "got", "slotted")
  /\ tryAcquire(s)
  /\ UNCHANGED <<server, pc, up, copying, guard, quiet, lines, got, count, mainVars>>

(* Over the limit: closed at once, and the loop goes on.                    *)
Refuses(s) ==
  /\ Limit # 0 /\ slots >= Limit
  /\ Loops(s, "got", "accept")
  /\ Goes(got[s], "taken", "gone")
  /\ got' = [got EXCEPT ![s] = NoConn]
  /\ UNCHANGED <<server, open, up, copying, guard, quiet, lines, slots, count, mainVars>>

(* The handler starts.  The HTTP proxy counts it first; the SOCKS5 server   *)
(* counts relays, after the dial.                                           *)
Hands(s) ==
  /\ Loops(s, "slotted", "accept")
  /\ Goes(got[s], "taken", "handshake")
  /\ got' = [got EXCEPT ![s] = NoConn]
  /\ count' = [count EXCEPT ![s] = @ + (IF Kinds[s] = "http" THEN 1 ELSE 0)]
  /\ UNCHANGED <<server, open, up, copying, guard, quiet, lines, slots, mainVars>>

------------------------------------------------------------------------------
(* Handlers.  Read and handshake deadlines, dial timeouts and the limits of *)
(* the request all end in one of the Ends or Fails steps.                   *)

(* Mutant: every Close returns a slot, not only the first. *)
closeClientAlways(c) ==
  /\ open' = [open EXCEPT ![c] = FALSE]
  /\ slots' = IF Limit # 0 /\ slots > 0 THEN slots - 1 ELSE slots

(* limitedConn.Close: the slot is released by the first Close.              *)
closeClient(c) ==
  /\ open' = [open EXCEPT ![c] = FALSE]
  /\ slots' = IF Limit # 0 /\ open[c] THEN slots - 1 ELSE slots

(* logConn.Close up to the access line: the first Close retires the relay   *)
(* from the count of the SOCKS5 server (onClose).                           *)
closeUp(c) ==
  /\ up' = [up EXCEPT ![c] = "closed"]
  /\ count' = [count EXCEPT ![server[c]] =
                 @ - (IF Kind(c) = "socks5" /\ up[c] = "open" THEN 1 ELSE 0)]

(* A bad, silent or rejected request, or an unusable target.                *)
HandshakeEnds(c) ==
  /\ Goes(c, "handshake", "closing")
  /\ UNCHANGED <<server, open, up, copying, guard, quiet, lines, loop, got, slots, count,
                 mainVars>>

Requests(c) ==
  /\ Goes(c, "handshake", "dial")
  /\ UNCHANGED <<server, open, up, copying, guard, quiet, lines, loop, got, slots, count,
                 mainVars>>

(* The name does not resolve or no address answers: logFailure.             *)
DialFails(c) ==
  /\ Goes(c, "dial", "closing")
  /\ lines' = [lines EXCEPT ![c] = @ + 1]
  /\ UNCHANGED <<server, open, up, copying, guard, quiet, loop, got, slots, count,
                 mainVars>>

(* The dial of a SOCKS5 request returns; its relay is counted next.         *)
OpensSocks(c) ==
  /\ Kind(c) = "socks5"
  /\ Goes(c, "dial", "opened")
  /\ up' = [up EXCEPT ![c] = "open"]
  /\ UNCHANGED <<server, open, copying, guard, quiet, lines, loop, got, slots, count,
                 mainVars>>

(* Mutant: the relay is not counted. *)
StartsRelay(c) ==
  /\ Goes(c, "opened", "relay")
  /\ copying' = [copying EXCEPT ![c] = Directions]
  /\ UNCHANGED <<server, open, up, guard, quiet, lines, loop, got, slots, count, mainVars>>

CountsRelay(c) ==
  /\ Goes(c, "opened", "relay")
  /\ count' = [count EXCEPT ![server[c]] = @ + 1]
  /\ copying' = [copying EXCEPT ![c] = Directions]
  /\ UNCHANGED <<server, open, up, guard, quiet, lines, loop, got, slots, mainVars>>

OpensConnect(c) ==
  /\ Kind(c) = "http"
  /\ Goes(c, "dial", "relay")
  /\ up' = [up EXCEPT ![c] = "open"]
  /\ copying' = [copying EXCEPT ![c] = Directions]
  /\ UNCHANGED <<server, open, guard, quiet, lines, loop, got, slots, count, mainVars>>

(* An absolute-form request: the idle guard starts with it.                 *)
OpensRequest(c) ==
  /\ Kind(c) = "http"
  /\ Goes(c, "dial", "send")
  /\ up' = [up EXCEPT ![c] = "open"]
  /\ guard' = [guard EXCEPT ![c] = "watch"]
  /\ UNCHANGED <<server, open, copying, quiet, lines, loop, got, slots, count, mainVars>>

(* One direction of a relay ends, by EOF, by an error or by a half-close.   *)
CopyEnds(c, d) ==
  /\ pc[c] = "relay"
  /\ d \in copying[c]
  /\ copying' = [copying EXCEPT ![c] = @ \ {d}]
  /\ UNCHANGED <<server, pc, open, up, guard, quiet, lines, loop, got, slots, count,
                 mainVars>>

(* handleConnect waits for both; the SOCKS5 library also stops at the first *)
(* error.                                                                   *)
RelayOver(c) ==
  /\ copying[c] = {} \/ (Kind(c) = "socks5" /\ copying[c] # Directions)
  /\ Goes(c, "relay", "closeUp")
  /\ copying' = [copying EXCEPT ![c] = {}]
  /\ UNCHANGED <<server, open, up, guard, quiet, lines, loop, got, slots, count, mainVars>>

(* The request is forwarded, then the response is copied back.              *)
Forwarded(c) ==
  /\ Goes(c, "send", "respond")
  /\ UNCHANGED <<server, open, up, copying, guard, quiet, lines, loop, got, slots, count,
                 mainVars>>

(* The request or the response ends, and with it the idle guard (g.stop).   *)
RequestEnds(c) ==
  /\ Goes(c, "send", "closeUp") \/ Goes(c, "respond", "closeUp")
  /\ UNCHANGED <<server, open, up, copying, guard, quiet, lines, loop, got, slots, count,
                 mainVars>>

(* Mutant: a later Close of the upstream writes its line too. *)
ClosesUpAndLogs(c) ==
  /\ pc[c] = "closeUp"
  /\ closeUp(c)
  /\ pc' = [pc EXCEPT ![c] = "line"]
  /\ UNCHANGED <<server, open, copying, guard, quiet, lines, loop, got, slots, mainVars>>

(* lc.Close() of the handler: the first closer goes on to the access line.  *)
ClosesUp(c) ==
  /\ pc[c] = "closeUp"
  /\ closeUp(c)
  /\ pc' = [pc EXCEPT ![c] = IF up[c] = "open" THEN "line" ELSE "closing"]
  /\ UNCHANGED <<server, open, copying, guard, quiet, lines, loop, got, slots, mainVars>>

Logs(c) ==
  /\ Goes(c, "line", "closing")
  /\ lines' = [lines EXCEPT ![c] = @ + 1]
  /\ UNCHANGED <<server, open, up, copying, guard, quiet, loop, got, slots, count,
                 mainVars>>

ClosesClient(c) ==
  /\ Goes(c, "closing", "leaving")
  /\ closeClient(c)
  /\ UNCHANGED <<server, up, copying, guard, quiet, lines, loop, got, count, mainVars>>

(* The handler returns; the HTTP proxy takes it off its count.              *)
Leaves(c) ==
  /\ Goes(c, "leaving", "gone")
  /\ count' = [count EXCEPT ![server[c]] = @ - (IF Kind(c) = "http" THEN 1 ELSE 0)]
  /\ UNCHANGED <<server, open, up, copying, guard, quiet, lines, loop, got, slots,
                 mainVars>>

------------------------------------------------------------------------------
(* The idle guard, a goroutine of its own.                                  *)

Guards(c, from, to) == guard[c] = from /\ guard' = [guard EXCEPT ![c] = to]

(* idleTimeout passes without a byte; a byte moves.                         *)
Stalls(c) ==
  /\ guard[c] = "watch"
  /\ quiet' = [quiet EXCEPT ![c] = TRUE]
  /\ UNCHANGED <<server, pc, open, up, copying, guard, lines, loop, got, slots, count,
                 mainVars>>

Moves(c) ==
  /\ pc[c] \in {"send", "respond"}
  /\ quiet[c]
  /\ up[c] = "open" /\ open[c]
  /\ quiet' = [quiet EXCEPT ![c] = FALSE]
  /\ UNCHANGED <<server, pc, open, up, copying, guard, lines, loop, got, slots, count,
                 mainVars>>

(* The tick finds the request idle.  The ticker can win over a done channel *)
(* that is closed by then.                                                  *)
GuardFires(c) ==
  /\ quiet[c]
  /\ Guards(c, "watch", "fired")
  /\ UNCHANGED <<server, pc, open, up, copying, quiet, lines, loop, got, slots, count,
                 mainVars>>

GuardStops(c) ==
  /\ pc[c] \notin {"send", "respond"}
  /\ Guards(c, "watch", "off")
  /\ UNCHANGED <<server, pc, open, up, copying, quiet, lines, loop, got, slots, count,
                 mainVars>>

GuardClosesClient(c) ==
  /\ Guards(c, "fired", "half")
  /\ closeClient(c)
  /\ UNCHANGED <<server, pc, up, copying, quiet, lines, loop, got, count, mainVars>>

(* Mutant: onIdle closes the client only. *)
GuardLeavesUp(c) ==
  /\ Guards(c, "half", "off")
  /\ UNCHANGED <<server, pc, open, up, copying, quiet, lines, loop, got, slots, count,
                 mainVars>>

GuardClosesUp(c) ==
  /\ Guards(c, "half", IF up[c] = "open" THEN "line" ELSE "off")
  /\ closeUp(c)
  /\ UNCHANGED <<server, pc, open, copying, quiet, lines, loop, got, slots, mainVars>>

GuardLogs(c) ==
  /\ Guards(c, "line", "off")
  /\ lines' = [lines EXCEPT ![c] = @ + 1]
  /\ UNCHANGED <<server, pc, open, up, copying, quiet, loop, got, slots, count, mainVars>>

------------------------------------------------------------------------------
(* Shutting down.                                                           *)

Signal ==
  /\ phase = "serve"
  /\ phase' = "close"
  /\ UNCHANGED <<connVars, loop, got, slots, count, turn, expired, result, waiter,
                 listening>>

(* drainCtx is shared by all the servers.                                   *)
DrainDeadline ==
  /\ phase \in {"close", "drain"}
  /\ ~expired
  /\ expired' = TRUE
  /\ UNCHANGED <<connVars, loop, got, slots, count, phase, turn, result, waiter, listening>>

(* Shutdown returned r for the server main was at.                          *)
Returned(r) ==
  /\ result' = [result EXCEPT ![turn] = r]
  /\ phase' = IF turn < Len(Kinds) THEN "close" ELSE "stop"
  /\ turn' = IF turn < Len(Kinds) THEN turn + 1 ELSE turn

(* Mutant: Shutdown waits without closing the listener. *)
WaitsListening ==
  /\ phase = "close"
  /\ phase' = "drain"
  /\ waiter' = [waiter EXCEPT ![turn] = "wait"]
  /\ UNCHANGED <<connVars, loop, got, slots, count, turn, expired, result, listening>>

ClosesListener ==
  /\ phase = "close"
  /\ phase' = "drain"
  /\ listening' = [listening EXCEPT ![turn] = FALSE]
  /\ waiter' = [waiter EXCEPT ![turn] = "wait"]
  /\ UNCHANGED <<connVars, loop, got, slots, count, turn, expired, result>>

(* The close fails: Shutdown returns the error and does not drain.          *)
CloseFails ==
  /\ phase = "close"
  /\ listening' = [listening EXCEPT ![turn] = FALSE]
  /\ Returned("error")
  /\ UNCHANGED <<connVars, loop, got, slots, count, expired, waiter>>

(* The waiting goroutine sees the WaitGroup at zero and closes done.        *)
WaitReturns(s) ==
  /\ waiter[s] = "wait"
  /\ count[s] = 0
  /\ waiter' = [waiter EXCEPT ![s] = "done"]
  /\ UNCHANGED <<connVars, loop, got, slots, count, phase, turn, expired, result, listening>>

Drained ==
  /\ phase = "drain"
  /\ waiter[turn] = "done"
  /\ Returned("ok")
  /\ UNCHANGED <<connVars, loop, got, slots, count, expired, waiter, listening>>

(* Mutant: no way out at the deadline while a relay goes on. *)
TimesOutWhenDrained ==
  /\ phase = "drain"
  /\ expired
  /\ count[turn] = 0
  /\ Returned("timeout")
  /\ UNCHANGED <<connVars, loop, got, slots, count, expired, waiter, listening>>

(* ctx is done and done is not closed.                                      *)
TimesOut ==
  /\ phase = "drain"
  /\ expired
  /\ waiter[turn] # "done"
  /\ Returned("timeout")
  /\ UNCHANGED <<connVars, loop, got, slots, count, expired, waiter, listening>>

(* d.stop(), and main returns: every other goroutine stops with it.         *)
Exits ==
  /\ phase = "stop"
  /\ phase' = "exit"
  /\ UNCHANGED <<connVars, loop, got, slots, count, turn, expired, result, waiter, listening>>

Exited == phase = "exit" /\ UNCHANGED vars

------------------------------------------------------------------------------
AcceptLoop(s) ==
  \/ AcceptReturns(s) \/ AcceptFails(s) \/ BackoffOver(s) \/ AcceptClosed(s)
  \/ Acquires(s) \/ Refuses(s) \/ Hands(s)

Handler(c) ==
  \/ HandshakeEnds(c) \/ Requests(c)
  \/ DialFails(c) \/ OpensSocks(c) \/ CountsRelay(c) \/ OpensConnect(c) \/ OpensRequest(c)
  \/ \E d \in Directions : CopyEnds(c, d)
  \/ RelayOver(c) \/ Forwarded(c) \/ RequestEnds(c)
  \/ ClosesUp(c) \/ Logs(c) \/ ClosesClient(c) \/ Leaves(c)

IdleGuard(c) ==
  \/ Stalls(c) \/ Moves(c) \/ GuardFires(c) \/ GuardStops(c)
  \/ GuardClosesClient(c) \/ GuardClosesUp(c) \/ GuardLogs(c)

Shutdown ==
  \/ Signal \/ DrainDeadline \/ ClosesListener \/ CloseFails
  \/ (\E s \in Servers : WaitReturns(s))
  \/ Drained \/ TimesOut \/ Exits

Next ==
  \/ /\ phase # "exit"
     /\ \/ \E s \in Servers : AcceptLoop(s)
        \/ \E c \in Conns : Connects(c) \/ BacklogReset(c) \/ Handler(c) \/ IdleGuard(c)
        \/ Shutdown
  \/ Exited

Spec == Init /\ [][Next]_vars

(* Goroutines run and timers expire.  A read or a write on a connection     *)
(* that was closed returns.  What the clients and the destinations do, and  *)
(* the signal, are not fair; accept errors do not go on for ever.           *)
Fairness ==
  /\ \A s \in Servers :
       /\ SF_vars(AcceptReturns(s))
       /\ WF_vars(BackoffOver(s) \/ AcceptClosed(s) \/ Acquires(s) \/ Refuses(s) \/ Hands(s))
       /\ WF_vars(WaitReturns(s))
  /\ \A c \in Conns :
       /\ WF_vars(\/ BacklogReset(c) \/ HandshakeEnds(c) \/ Requests(c)
                  \/ DialFails(c) \/ OpensSocks(c) \/ OpensConnect(c) \/ OpensRequest(c)
                  \/ CountsRelay(c) \/ RelayOver(c)
                  \/ up[c] = "closed" /\ ~open[c] /\ RequestEnds(c)
                  \/ ClosesUp(c) \/ Logs(c) \/ ClosesClient(c) \/ Leaves(c))
       /\ WF_vars(Stalls(c) \/ GuardFires(c) \/ GuardStops(c)
                  \/ GuardClosesClient(c) \/ GuardClosesUp(c) \/ GuardLogs(c))
  /\ WF_vars(ClosesListener \/ CloseFails \/ Drained \/ TimesOut \/ Exits)
  /\ WF_vars(DrainDeadline)

FairSpec == Spec /\ Fairness

------------------------------------------------------------------------------
(* The limit holds over both listeners, and a slot is neither lost nor      *)
(* returned twice, although the handler and the idle guard both close the   *)
(* client: the slots taken are those of the open client connections.        *)
SlotPerClient ==
  /\ slots = IF Limit = 0 THEN 0 ELSE Cardinality({c \in Conns : open[c]})
  /\ Limit # 0 => slots <= Limit
  /\ \A c \in Conns : pc[c] = "gone" => ~open[c]

(* "One line per proxied connection" (debian/ssh-gate.1): however the       *)
(* handler and the idle guard race to close the upstream, its access line   *)
(* is written once.                                                         *)
OneAccessLine ==
  \A c \in Conns :
    /\ lines[c] <= 1
    /\ pc[c] = "gone" /\ guard[c] = "off" /\ up[c] # "none" => lines[c] = 1

(* The WaitGroups count exactly what Shutdown is to wait for, and so never  *)
(* go below zero, which panics: the handlers of the HTTP proxy, the relays  *)
(* of the SOCKS5 server that have not closed their upstream.                *)
CountsInFlight ==
  \A s \in Servers :
    count[s] = Cardinality({c \in Conns :
      /\ server[c] = s
      /\ IF Kind(c) = "http" THEN pc[c] \notin {"new", "queued", "taken", "gone"}
         ELSE up[c] = "open" /\ pc[c] # "opened"})

(* What the nil of the HTTP proxy's Shutdown does promise: of the clients   *)
(* it accepted one at most is still there, the one its accept loop had in   *)
(* hand, not counted yet, when the listener closed.                         *)
DrainLeavesOne ==
  \A s \in Servers : Kinds[s] = "http" /\ result[s] = "ok" =>
    \A c, d \in {x \in Conns : server[x] = s /\ pc[x] \notin {"new", "queued", "gone"}} :
      c = d

(* Shutdown is bounded by its context: after the signal the process exits,  *)
(* whatever the relays do.                                                  *)
ShutdownEnds == phase = "close" ~> phase = "exit"

(* The idle guard ends a stalled request: one that never ends keeps moving  *)
(* bytes.  It must close both sides, as the handler may be blocked on the   *)
(* client or on the SSH channel, which has no deadlines.                    *)
StalledRequestEnds ==
  \A c \in Conns :
    <>[](pc[c] \in {"send", "respond"} /\ phase # "exit") => []<>(~quiet[c])

(* "The only terminal state is closed" (resilientListener): a client in the *)
(* backlog is served or refused, or the server shuts down.                  *)
BacklogServed ==
  \A c \in Conns : pc[c] = "queued" ~> pc[c] # "queued" \/ phase = "exit"

(* Shutdown "can be retried to confirm the remaining relays have finished   *)
(* (nil)" (httpproxy.go): nil means that no connection is in flight.        *)
DrainedIsFinished ==
  \A c \in Conns :
    Kind(c) = "http" /\ result[server[c]] = "ok" => pc[c] \in {"new", "queued", "gone"}
==============================================================================
