# A TLA+ model of ssh-gate

ssh-gate is a local HTTP and SOCKS5 proxy. Each client connection goes to its
destination directly or through one SSH connection to a VPS (the tunnel). This
directory models the parts of it where goroutines, timers, the network and
restarts meet, checks them with TLC on small instances, and proves the safety
properties with TLAPS for every value of the constants.

Names in the modules are those of the Go code where TLA+ allows it. `PROJECT.json`
maps every definition to the lines it models.

## The system

| part | state | operations | code | module |
|---|---|---|---|---|
| SSH tunnel dialer | `d.client`, `d.rawConn`, `d.status`, `d.done`; the monitor's locals; `ssh_known_hosts` | monitor loop, keepalive loop, `stop`, start | dialer.go, status.go, utils.go | `SSHDialer`, `Tunnel` |
| connection tracker | active map, ring buffer | `Begin`, `Done`, `Fail`, `finish`, `List`, `ActiveByProto` | conntrack.go | `ConnTracker`, `History` |
| tunnel resolvers | `pausedUntil`, `probing` per resolver | `claim`, `lookup`, `upstreamAnswered`, `upstreamFailed`, `releaseProbes` | dns.go | `DNSUpstreams` |
| DNS cache | map, singleflight | `cachedLookup`, `store`, purge | dns.go | `DNSCache` |
| opener and rules | the list of rules | `Decide`, `candidates`, `Open` | opener.go, rules.go, routing.go | `Opener` |
| listeners and limit | slots, closed flags | `Accept`, `Close` | listener.go | `ProxyServers` |
| HTTP proxy, SOCKS5 server | WaitGroups, `logConn`, idle guard | accept loop, handlers, `Shutdown` | httpproxy.go, socks5.go | `ProxyServers` |
| SOCKS5 handshake deadlines | `handshakes` map | store, lift, delete | socks5.go | `Handshakes` |
| process lifecycle | `main`'s place, signal goroutine, the unit | start, signal, drain, exit | main.go, ssh-gate.service | `Process`, drain in `ProxyServers` |
| systemd status | last message, `stopping` | `set`, `ready`, `stop`, `send` | notify.go | `Process` |
| SSH key pair | two files, first-run marker | `EnsureSSHKeyPair`, `writeFileAtomic` | keys.go, utils.go, main.go | `Process` |
| health server, Web UI, configuration, logging | | | health.go, webui.go, ... | outcome in `Process`, or not modelled |

The proxies call the opener, which asks the rules and the cache and dials
directly or through the dialer. The cache looks names up with the tunnel
resolvers, which send their queries through the dialer and ask it whether it is
connected. The dialer reports every tunnel dial to the tracker and every change
of its state to the status line. `main` prepares the key files, starts the
servers, and on a signal shuts them down one by one under one deadline, then
stops the dialer.

What makes this code hard: one mutex protects `d.client` but the status, the
probe loop and `stop` work beside it; the tracker gives up on a dial that may
still report; lookups of different names share the state of a resolver, and
lookups of one name share one answer, while the tunnel comes and goes; the idle
guard and the handler close the same connections; `Shutdown` races with all of
it; host key, key pair and first-run marker must be on disk in the right order,
whenever the process or the power fails.

## Modules

**SSHDialer.** One step per critical section or blocking call of `monitor`, of
each client's `keepalive` goroutine and of `stop`. A client stands for an
`*ssh.Client` with its transport, which is live, stuck (TCP alive, no answers) or
dead. An address is reused only when nothing refers to it (`Fresh`), so a few
addresses model any number of reconnects. The file `ssh_known_hosts` survives a
crash; the operator may change it at any time. `reconnectDelay` keeps Go's shift
on a signed word, of `WordBits` bits; `Delays` is what the wait can be with the jitter
added. `attempt` saturates at `MaxAttempt`. `stopped` tells a `stop` that the monitor
can still see from one that ran after its last look at `done` ("late"). The three
failures of a connect other than a changed host key are one, `"failed"`.
`SSHDialerRetrust` adds one history variable: the file when an attempt began.

**Tunnel** is the abstract specification of the dialer: a link that goes down only
after it stopped working, and one host key per process, which is on disk before
its first use. `SSHDialer` maps its pinned fingerprint, the key it is about to
publish and the state of the published transport to it. **Links** holds the steps
such a link can take: `Tunnel` guarantees them, `DNSUpstreams` relies on them, so the
resolvers meet every tunnel the dialer can produce.

**ConnTracker.** `Begin`, `Done`, `Fail` and `finish` are a critical section each.
`List` and `ActiveByProto` hold the mutex while they sweep the active map for
stalled dials (`dropStalled`), one step per record in any order, with the clock
running: they stamp records with the time their call began. The ring is the
array with head and count of the code. `log` is a history variable.

**History** is the abstract specification of the tracker: a sequence of finished
connections, oldest first, that takes each connection once, drops its oldest record
when it is full, and loses nothing else that is younger than the age limit.
`ConnTracker` maps the live part of its ring, read from the head, to that sequence.

**DNSUpstreams.** Each lock of a resolver's mutex is a step, so the claims,
answers and releases of concurrent lookups interleave. The tunnel is up, dying
(it no longer works and `Connected()` is still true) or down. A call with a
deadline returns by it: the clock does not pass the deadline of a call that is
out. The claims of a lookup take at most `ClaimDelay`, before the tunnel step and its
deadline begin; other computation between two steps takes no time on this clock.

**DNSCache.** The map, with the keys of both policies: the host itself for the tunnel,
`LocalKey` ("local:" and the host) for the local one. The two may meet, as hosts are
what clients write, and a shared lookup is that of its first caller's policy. The look
at the cache, the join of a shared lookup and its hand-over are separate steps; there
are expiry, the purge, and `store` with its scan for a victim in any order, which
takes the empty name for "none so far" (`Victims`). The outcome of a lookup is any
outcome `lookup` or `lookupLocal` can have in the
tunnel's state. The callers are left open: `CacheNext` lets them ask anything.

**Opener** EXTENDS `DNSCache` and is its caller: `Decide` walks the rules, asking the
cache where an `ip:` rule needs addresses; the final lookup follows the policy of
the route; `candidates` drops and orders addresses; the dials go down the list.
Addresses are known by class (private, host-local, family), rules by what they
match, hosts by the client's spelling and by what `normalizeHost` makes of it, which
an `ip:` rule's lookup does a second time.

**ProxyServers.** Any sequence of servers (`Kinds`), each with its accept loop,
over one limit; a handler per connection from the kernel backlog to its end; the
`logConn` of its upstream, whose first `Close` retires the SOCKS5 relay and then
writes the access line, as two steps; the idle guard of an absolute-form HTTP
request, a goroutine that closes client and upstream; `Shutdown` with the
goroutine that waits for the WaitGroup, and `main`. Bytes, headers and the
SOCKS5 library's protocol are left out: a handshake, dial or copy goes on or
ends. The health server, the last in `main`'s list, is left out.

**Handshakes.** `serveConn`'s use of the map from client address to connection, a
step per map operation, with an address that is free again once its connection
is closed.

**Process.** `main` from `loadConfig` to its exit, one step per file operation, listener
or message; the signal goroutine; the monitor's reports to the status line, where
storing the state and sending it are two steps; the systemd unit with its
restarts and timeouts. `disk` is what processes see, `durable` the directories a
power failure may leave. A file whose data was not synced before its rename may
be torn. A key pair is a number; one that nobody remembers may be used again, so
`MaxKeys` bounds the pairs remembered at a time, not those made.

**SSHDialerProofs, ConnTrackerProofs, DNSUpstreamsProofs, DNSCacheProofs,
OpenerProofs, ProxyServersProofs, ProcessProofs, NatFacts** hold the proofs.
**MC...** modules add symmetry and values for TLC.

## Runs

| run | instance | distinct states | shows |
|---|---|---|---|
| dialer | 2 clients, 2 keys, 7 attempts, 10-bit words | 119,056 | no connection without an owner, the pinned key on disk, every published tunnel probed, status and client agree, no working tunnel cut, delays that grow to their cap; the dialer implements `Tunnel`; a stuck tunnel is closed, a lost one comes back |
| tracker | capacity 2, age 1, 4 connections, 3 ticks | 486,775 | each connection recorded once, no ghosts, the ring is the newest history, lists are fresh; the tracker implements `History` |
| resolvers | 2 lookups, 2 resolvers, times 4/2/5, claims up to 1, 7 ticks | 2,052,426 | one probe, no flag left behind, fair shares, time for the local resolver |
| opener | 2 opens, 5 hosts, a cache of 2, TTL 2 and 1, 1 tick | 935,247 | answers fresh and of the right policy, the cache bounded, live entries kept, addresses fit the route, direct names stay local, nothing goes direct once an outage is over |
| proxy | both servers, 2 connections, limit 1 | 1,947,115 | exact slots, one access line, exact WaitGroups, at most one connection outlives a finished HTTP drain |
| proxy_live | both servers, 1 connection | 53,296 | shutdown ends, a stalled request ends |
| proxy_backlog | SOCKS5, 2 connections, limit 1 | 14,888 | nobody waits in the backlog for ever |
| process | 3 keys, 2 faults, 1 edit | 311,429 | files whole and a pair, the key kept, the hint shown, the status line current, an active unit listens, starts and stops end |

Bounds. Two clients are one that is published or whose keepalive goroutine is yet to
retire, and one being dialed. Two keys tell the pinned one from another. The delays
are those of the code in units of 250 ms (1 s, 60 s and a jitter below 500 ms); a shift
by 7 overflows the word of 10 bits, and the cap is reached at attempt 6. A ring of two with four connections
wraps, overwrites and is pruned, and the clock passes the age twice. Two lookups
and two resolvers give a probe that races with a lookup from before the pause
and a claim that is never asked; the times keep the order of the code's
(tunnel step < lookup < pause). Two opens fill a cache of two and
evict, share a lookup, and meet a not-found that expires between them; the hosts are a
listed name with no, one and two trailing dots, the host name that is its local key,
and a private literal; the answers hold an address of each class. Two connections on a limit of one give refusal,
release and reuse of a slot over both listeners. Two faults are a crash or power
failure and a second one, or a lost message, in the recovery. The dialer's and the
process's runs stop nowhere: a process that is gone may start again; the proxies
stutter once the process has exited, and deadlock is checked in every run.

Fairness. Goroutines that can run do, and timers fire: weak fairness on their
steps. In `SSHDialer`, strong fairness on a successful handshake and on a
successful save: the VPS and the disk are not unavailable for ever; nothing is
assumed of the operator or the peer. In `ProxyServers`, strong fairness on
`Accept` returning a waiting connection: accept errors come in bursts that end.
Clients and destinations are not fair: a copy need not end. A request ends by
fairness only when both its sides are closed; for an upstream through the
tunnel this rests on the SSH peer answering the channel close, or on keepalive
closing the transport. In `Process`, `main` and the signal goroutine run, and systemd
restarts the unit and times out a start whose `READY=1` never came. Its killing of a
slow stop (`StopTimeout`) is not fair: `StopEnds` does not rest on it. That the drain
ends, which `Process` takes as one step, is `ShutdownEnds` of `ProxyServers`.

Assumed of the world in `Process`: the file system keeps the order of renames and
new files over a power failure; the operator does not delete the private key;
`TimeoutStartSec` is long enough for `main` to come to serve.

## Where code and text disagree

Four runs state what a comment or a document says and are violated.

* dialer_retrust: after `ssh_known_hosts` is deleted a running process still
  rejects the new key with the fingerprint in memory, against "a different key
  fails until the file is deleted" (README.md:163). A restart is needed.
* proxy_handoff: `wg.Add(1)` comes after `Accept` has returned, so `Shutdown` can
  report that all has finished while a connection is about to be served
  (httpproxy.go:97). `DrainLeavesOne`, which holds, is what is left of that promise:
  it is the one connection the accept loop had in its hands, never a second.
* handshakes: `serveConn` deletes its entry after its connection is closed. A new
  connection from the same address may have stored its own by then, which the
  `Delete` removes, and its relay keeps the handshake deadline, against "the relay
  that follows is unbounded" (socks5.go:66).
* dns_evict: the loop of `store` takes the key "" for "no entry seen yet", and the host
  "." is cached under that key. With such an entry a full cache can lose another entry
  than the oldest, or none and grow, against "evicting the oldest entry when full"
  (dns.go:238). `CacheBounded` and `LiveEntriesKept`, which hold, leave out the steps
  that find an entry under the empty name.

Others were met in the models and have no run of their own.

* `stop()` between the monitor's last look at `done` and its write of `d.client` finds no
  client to close and leaves the new one open, against "never publish a client that
  nothing will close" (dialer.go:331). `main` returns right after `stop()`, so the
  process's exit closes it. `NoAbandonedTransport` demands that every other connection
  is closed or about to be; this window is its one exception (`stopped = "late"`).
* The delay is capped before the jitter is added, so it may be up to 60.5 s, against
  "jittered backoff capped at 60 seconds" (debian/ssh-gate.1:26), and from the cap on
  it may be shorter than the one before. `BackoffHolds` is stated with the jitter.
* The key of a direct host is "local:" and its name, and a client can ask for a host that
  begins with "local:". Such a host and the direct one share entries and lookups,
  against "a separate key space so the two policies cannot shadow each other"
  (dns.go:169). `PoliciesApart` is about the keys in one space only.
* `normalizeHost` trims one trailing dot. A listed name written with two is not matched
  by its rule, and an `ip:` rule's lookup, which trims again, asks the tunnel resolver
  for the listed name, against "a name listed in DIRECT_RULES never reaches the tunnel
  resolver" (rules.go:86). `DirectNamesStayLocal` excepts the names so written.
* With the deadline spent, a server with nothing in flight can report a timeout,
  as the goroutine that waits for the WaitGroup need not have run, against "not a
  spurious timeout" (httpproxy.go:119, socks5.go:195).
* A SOCKS5 relay leaves the WaitGroup before its access line is written, and the
  process may exit between the two, against "One line per proxied connection"
  (debian/ssh-gate.1:205).
* "A failed send only loses the status line" (notify.go:74) leaves out the send of
  `READY=1`: when that is lost, systemd times out the start and restarts a service
  that works. `StartEnds` shows that the restart comes.

## Proofs

The constants are constrained only by the `ASSUME` of each module. Each proof has an
inductive invariant, a lemma per group of actions, and a theorem per property.

* **SSHDialer**, any clients and keys: `TypeOK`, `NoAbandonedTransport`,
  `TrustSurvivesRestart`, `ConnectedIsProbed`, `StatusTellsConnected`, and the action
  property `LiveTunnelKept`; and `BackoffHolds`, for any delays and word width such
  that the cap is at most the base delay shifted by 6, which fits a signed word, and the
  jitter is at most the base delay: the step doubles until the cap, which is more than
  the jitter adds (`PowersDouble`). The properties speak of `d.client`, which says nothing
  of what the monitor is about to do; `MonitorPlace` ties `d.client`, the status and
  the monitor's local to its place in the loop, and `HeldTrust` says that the key it
  is about to trust is the pinned one or was just saved. From the same invariant,
  `DialerIsTunnel`: every step of the dialer is a step of `Tunnel` or a stutter.
* **ConnTracker**, any capacity, age and number of connections: `TypeOK`,
  `RecordedOnce`, `ActiveHasOwner`, `HistoryIsRecent`, `ListedIsFresh`. `IdsFresh` makes
  ids unique; `LogSorted` says that records are pushed in the order of `closedAt`,
  although a sweep stamps them with an old time, because nothing else is pushed
  while it holds the mutex; `RingFresh` carries `List`'s pruning to its end. The
  arithmetic of the ring is in `PruneEffect` and `PushEffect`. On top of them,
  `TrackerIsHistory`: every step is a step of `History` or a stutter. A retirement
  drops the old records, or the oldest of a full history, and appends there;
  `DropThenAppend` says that this is what the ring holds, read from its head.
* **DNSUpstreams**, any number of lookups and resolvers: `TypeOK`, `OneProbe`,
  `ProbingEnds`, and the action properties `LocalGetsTheRest` and `EqualShare`. For the
  first, `StepEnds` says that the deadline of a tunnel step leaves the rest of its
  lookup's bound after it, however late the claims were.
  `releaseProbes` clears the flag of every
  resolver its lookup claimed, also one that another lookup now probes. That this
  never happens rests on `LookupTimeout < Pause` (5 s and 10 s): `PauseOutlives` says
  that a lookup which claimed a resolver before its pause ends before the pause
  does. `ShareFits` (NatFacts) bounds the share. For `EqualShare`, `SharesFit` says
  that what was left when a resolver was asked is enough for its share and for as
  much for each of those after it; a resolver that fails early leaves more.
* **DNSCache**, any callers, hosts, sizes and TTLs, and whatever the callers ask:
  `PoliciesApart`, `AnswersAreFresh`, `LiveEntriesKept` and
  `CacheBounded`. `CacheInv` says that a call has the key of its host and policy; that a
  lookup's key is one of its policy, and an answer being
  handed over is as old as the clock and came from a resolver of that policy
  (`FlightRight`); and that an entry expires its TTL after its answer
  (`EntriesTimed`). The bound rests on `store` finding a victim in any full cache
  without an entry under the empty name (`VictimIsOldest`).
* **Opener**, any rules and addresses: `OpensUseCache`, that opens implement
  `CacheSpec`, so all the above holds of the cache under them (`CachePromisesKept`);
  and `DirectOnlyWhileDown`. A shared answer may be from an outage before this open
  began: `OpenInv` follows the degraded answer from the lookup to every caller that
  waits for it. Also `TypeOK`, `AddressesFitRoute` and `DirectNamesStayLocal`.
  `RouteInv` says that every address still to be dialed fits the route and its reason,
  `AskInv` that an open whose host a name rule matches has a call of the local policy, and
  that no call, lookup or entry of the tunnel policy is for a listed name all of whose
  spellings are listed (`Protected`); it rests on the rules being ordered, name rules
  first. Both need what
  filtering keeps of a sequence, so `candidates` and the rule order are written with
  the recursive function `Pick`, whose lemmas are proved by least counterexample
  (`LeastNat`).
* **ProxyServers**, any servers, connections and limit: `SlotPerClient`,
  `OneAccessLine`, `CountsInFlight`, `TypeOK`, `DrainLeavesOne`. `Places` says which handler, guard and upstream
  states go together, and that a connection the accept loop holds is still at its
  start; the slots and the WaitGroups are cardinalities, which a step changes by the
  one connection it moves (`CountStep`). For `DrainLeavesOne`, `DrainInv` says that
  the waiter of a server runs with its listener closed, that an accepted connection
  not yet counted is the one in the accept loop's hands, and that once the waiter has
  seen zero no two connections are present.
* **Process**, any number of keys, faults and edits: `TypeOK`, `NoTornFile`,
  `PairMatches`, `MarkerMeansShown`, `KeyKept`, `LineIsCurrent`,
  `ActiveMeansListening`. `FilesInv` is about all directories a power failure may
  leave (`Sound`), not only the visible one, and about the key `main` works with;
  `ServiceInv` ties listeners, monitor, status line and unit to `main`'s place.

Model-checked only: the liveness properties (`StuckTunnelClosed`, `TunnelReturns`,
`ShutdownEnds`, `StalledRequestEnds`, `BacklogServed`, `StopEnds`, `StartEnds`), as
fairness and ENABLED are out of the prover's reach. Every safety invariant and action
property of a passing run has a theorem. The `TypeOK` of the modules are proved and not
run; the runs of `Handshakes` and `MCDNSCache` have one property each, which is violated.

## Not modelled

* The handlers of the health server and the Web UI change no state. Each reads
  what the dialer, the tracker and the resolvers own, in one critical section at a
  time; the reads that matter (`List`, `ActiveByProto`) are in `ConnTracker`.
  `readyHandler` reads `Connected()` and then `Status()` and may word a 503 oddly
  between the two.
* Parsing and validation of the configuration, the rules and prefixes are sequential
  functions of input text; `Process` and `Opener` have their outcomes.
* Formatting, wording, logging, byte counters, socket options, `tcpinfo`,
  header rewriting and body framing: data that no property tells apart.
* The SSH and SOCKS5 libraries, systemd and the file system are modelled by how the
  code uses them.

## Possible extensions

* One composition of `Opener` with `DNSUpstreams` in place of the open outcome of a
  lookup, and of `ProxyServers` with `Opener`. Each pair meets at an interface that the
  modules over-approximate today.
