# A verification of tunli-server

tunli-server publishes a local web server under a public URL: a *tunnel client* behind NAT keeps
socket.io connections to the server open, and the server forwards visitors' HTTP requests and
WebSocket upgrades over them. This directory holds TLA+ models of the server's own logic, the TLC
runs that check them on small instances, and proofs, checked by the TLA+ proof system, of what holds
for every instance. Paths below are relative to `src/src`.

Contents: [the system](#the-system) · [what makes it hard](#what-makes-it-hard) ·
[the modules](#the-modules) · [the runs](#the-runs) · [fairness](#fairness) · [the proofs](#the-proofs)
· [disagreements](#where-code-and-documentation-disagree) · [not modelled](#what-is-not-modelled) ·
[plan](#plan)

To repeat: `tlc -workers 2 -config MCTunnelRegistry.cfg MCTunnelRegistry` and so on for each line of
the table of runs; `tlapm TunnelRegistryProofs.tla` and so on for the eight modules whose names end in
`Proofs`.

## The system

Four processes (`server-router`, `server-proxy`, `server-socket`, `server-api`) run under a daemon.
Each is a single-threaded Node program: a handler runs to its end before the next one starts, and
what interleaves is what happens *between* handlers, at every `await`, event and timer.

    visitor --> router --> proxy --> relay (server-socket) ==socket.io==> tunnel client
                    \--> api --> storage (memory or Redis)
    share host/client ==socket.io==> relay, namespace /share
    command line --> daemon --IPC--> router, proxy, relay, api

| Component | State it keeps | Operations | Talks to | Correct when |
|---|---|---|---|---|
| Tunnel registry (`lib/TunnelSocketRegistry.ts`, `socket-server/TunnelSocketManager.ts`, `stats/ConnectedUsers.ts`) | pool and round-robin index per tunnel, CIDR rules, target hosts, token per connection | admit, connect, disconnect, resolve | the relay asks it for a socket; socket.io events | pools are the open connections, rules go with the pool, picks are even, figures are exact |
| Relay of requests and upgrades (`socket-server/TunnelForwardRouter.ts`, `socket-server/TunnelUpgradeMiddleware.ts`, `http/*`) | per request: visitor's side, head, listeners on the shared socket | reject, block, forward; the client's `response*` and `request-error` events; end, close, disconnect | registry, tunnel client, metrics | answers are not mixed up, every visitor is answered, gauges and listeners come down |
| Share relay (`socket-server/ShareNamespace.ts`) | host per public key, host and client per session, closures per connection | register, connect, session start, data, end, disconnect | two socket.io clients | sessions only between connected sockets, both ends learn of the end once |
| Subdomain API (`controller-api/RenewSubdomainController.ts`, `lib/RegisteredSubdomains.ts`, `lib/InMemoryStorage.ts`) | owner of a subdomain, links by target and by profile, all with expiry | renew, create | storage | a subdomain stays its owner's, links lead home (both but for the time a link may outlive its registration) |
| Redis client (`lib/Redis/*`) | connection, promise of the connection attempt | get, set, enforceConnection | Redis | every command is served or rejected, whatever the connection does |
| Daemon (`daemon/*`, `daemon-main.ts`, `stats/requestChildStats.ts`) | status, child and restart timer per process, pending statistics queries | listen, spawn, exit, restart, shutdown, collect | child processes over IPC, the command line over a socket | one child per name, restarts, no mixed-up statistics, nothing left after shutdown |
| Metrics (`stats/metrics.ts`, `stats/RateCounter.ts`) | two gauges, counters, ring of one-second buckets | count, hit, snapshot | relay, daemon | gauges come back to zero, the rate is that of the window |
| Proxy (`proxy-server/*`, `server-proxy.ts`) and router (`server-router.ts`) | none beyond the streams of a request | forward a request, forward an upgrade, by every way their connections can end | visitor, next hop | the answer is passed on whole, or has the text of an error in it; the end of an upgrade reaches both ends |
| URLs and headers (`proxy-server/utils.ts`, `utils/httpFunctions.ts`, `utils/*`) | none | tunnel id from the URL, header rewriting, CIDR lists | proxy, relay, front server | a tunnel's URL leads to it, also after a redirect |
| Stateless API (`controller-api/*` but Renew, `middleware/*`) | none | register, invite, connect info | token signing | each answer follows from its request |
| Log tail (`logs` in `cli.ts`) and logger (`lib/Logger.ts`) | offset up to which the file is printed | read what is new, poll | the log file, whoever rotates it | lines are printed once and in order, and none is lost to a read that is under way |
| Other commands, configuration, entry points | constants of a run | print, read | daemon, files | out of scope, see below |

## What makes it hard

`PROJECT.json` lists the hazards line by line. They come down to these:

* **One socket, many requests.** All requests over one socket hear all its events and compare ids; a
  disconnect, the visitor's departure, the client's answer and its error race, and each of them ends
  the response and takes listeners off.
* **Maps that are cleaned by closures.** Pools, rules, target hosts, share keys and sessions are
  removed only by `disconnect` handlers attached earlier, possibly several per connection.
* **Check, await, write.** The API reads an owner, awaits, and writes; with Redis two requests
  interleave, either may fail half way, and the process may restart in between.
* **Streams through two more processes.** A request and an upgrade pass router and proxy; every one of
  their connections may end, be cut or be reset before the head, after it, or after the answer. The
  headers are passed on, a `Content-Length` too: what a server writes behind a head counts towards it.
* **Buffers.** An answer waits in the tunnel response while the pipe to a slow visitor is paused, and a
  disconnect overtakes it. Uploads share one engine.io connection and are paced by its `drain`, which
  fires for anybody's packets and sometimes inside the emit.
* **Clocks.** Entries of the storage expire separately, each by the time at which it was written, and
  time passes within a request; the rate counter reuses its buckets; the
  daemon restarts a process after a second and gives up a statistics query after another.
* **Crash and restart.** A relay that crashes loses its registry, an API its in-memory storage, a
  daemon its children.

## The modules

Every module says in its head which source it models; `PROJECT.json` ("map") names the lines of each
definition.

### TunnelRegistry, PoolFairness

One action per handler of a tunnel connection: `Connect` is `authMiddleware` followed by the whole of
`onConnection` (add, track, setCidrRules, setTargetHost), `Refuse` the handshake the middleware
rejects, `Disconnect` the `disconnect` handler with `remove` and `untrack`, `Resolve` a `pick()`.

| Model | Code |
|---|---|
| `pools[t]`, `index[t]` | `#pools: Map<string, TunnelPool>`, the strategy's `#index`; `Undefined`: no entry |
| `cidrRules`, `targetHosts` | the two maps beside it |
| `bySocket` | `ConnectedUsers.#bySocket` |
| `conn`, `handshake` | what socket.io knows of a connection; a socket id is never used twice |

The two namespaces count their users in one `ConnectedUsers`; the registry's `userCount` is that of
the tunnel connections, `connectedUsers` of `ShareRelay` has the share's.

`PoolFairness` adds a history variable, the requests each socket was handed since its pool last
changed, to state what the round-robin strategy promises. It changes nothing in the registry.

### TunnelRelay

Extends the registry with the requests in progress. A request is *admitted* (`Reject`, `Block`,
`Forward`), hears the client's events (`ClientResponse`, `ClientPipe`, `ClientEnd`, `ClientPipeError`,
`ClientRequestError`), is piped to the visitor (`PipeFlows`, `PipeEnds`), and its visitor's side ends
(`Flushed`, `VisitorLeaves`, `UploadEnd`, `UpgradeTimeout`); sockets come and go (`ClientConnects`,
`ClientDies`, `SocketDisconnects`); the process may `Crash`.

`res[r]` is the visitor's side (`ServerResponse`, or the upgraded socket), `listens[r]` the listeners
`TunnelResponse` and the `disconnect` handler have on the socket, `status` and `body` what was written,
`buffer` what was pushed into the tunnel response and not yet taken by the pipe, `upload` what the
client was told of the upload. A visitor that reads slowly pauses the pipe, which is `PipeFlows` not
being taken; the end of an answer (`push(null)`) waits behind its chunks. An event is delivered to
**all** requests on its socket and `Hears` decides by id, as the handlers do; the model would notice a
missing comparison (and the mutant that drops it is found).

Facts about Node and engine.io the model takes as given, each needed for an action to be faithful:
`ServerResponse` emits `close` exactly once; a pipe does not end its destination when the source is
destroyed rather than ended; `aborted` carries no error; setting a status after the head went out
changes nothing on the wire (`HeadOnWire`), while a second `writeHead` throws; engine.io destroys an
upgraded connection nobody wrote to within a second (`destroyUpgrade`).

The tunnel client is another program; the model has it keep to its protocol (a head or a
`request-error`, then chunks, then an end or a `response-pipe-error`), stop at any point, or die.

Four behaviours of the code are visible in the model and are not properties the project checks:

* A disconnect after the client has ended its answer finds the response open while its pipe is paused:
  what waits is lost and "Tunnel disconnected" stands in its place. `BodyFaithful` says that such a body
  has the notice at its end, not that it cannot happen.
* After `response-pipe-error` the tunnel response is destroyed, its `_destroy` completes without the
  error, and the visitor's response stays open until the visitor leaves or the socket disconnects.
  `EveryVisitorAnswered` excepts exactly this case.
* An upload the visitor breaks off (`aborted`) is never reported to the client, which may wait for
  the rest; the listeners of that request stay until the socket disconnects. `ListenersGo` excepts
  exactly this case.
* An upgraded socket has no `error` listener, so a reset ends the relay process: one of the causes
  of `Crash`.

### SubdomainApi

A request is a little program: `pc[r]` is the storage call it awaits, one action per call
(`GetOwner`, `LookupProfile`, `LookupTarget`, `Register`, `LinkTarget`, `LinkProfile`). `Shared`
selects the storage. With `InMemoryStorage` the promises are resolved already and the whole request
runs in one turn of the event loop, so `Start` waits until no other request is under way; a
`Restart` empties it. With Redis requests interleave at every await and the store survives a
`Restart`. `Tick` is `Date.now()`; `Value` compares it with the entry's expiry.

Every `get` and `set` reads the clock for itself, so `Tick` may come between any two of them, in memory
too: `began` is the time at which the request under way began, `MaxRun` the bound on how long it takes.
The links are written after the registration and may outlive it by `MaxRun`. In that time another client
can renew the subdomain, and a create that follows the link then takes it away, because a create does not
look at the owner; from then on two clients have links to one subdomain and each one's create takes it
back. `taken` is the history of such subdomains, and the properties name the case: `OwnerKept` allows no
other way to lose a registered subdomain than this one, `LinksOwned` no link to another client's subdomain
but one that is about to expire or leads to a subdomain that was taken.

### RedisStorage

Extends the API with the connection its commands travel on. `link` is the client's connection,
`cmd[r]` where the command of request `r` is. `enforceConnection` is `Issued`: the first command opens
the connection, later ones wait for the shared promise, those that find it broken are queued by the
`redis` package. `Drops` loses the commands that were sent: Redis may still carry out a write
(`Slip`), and the package rejects the command (`Lose`); `Connects` sends what waits. The package
(external) retries without end and has no time limit for queued commands, its defaults.

### ProxyHops

One request through the router and the proxy, which have the same shape: `Visit` and `Forward` send it
on, `Pipe` passes the answer on piece by piece, and the rest are the ways it ends. `at[v][h]` says how
far hop `h` is, `wire[v][h]` what is on its way to it, and `wire[v]["visitor"]` keeps all that the
visitor got. An answer is `chunked`, with an end of its own, or has a `length` (`framing`), which both
hops copy: then its last chunk ends it, and so does whatever else makes up the count. What Node does
with a connection that ends is taken as given: before the head any end is an `error` of the forwarded
request; after it a quiet close is only `aborted`, a reset an `error`; an answer to a request whose
upload is still under way may be followed by a reset.

Four behaviours are visible here, each named in the property it concerns:

* A quiet close in the middle of an answer leaves the visitor waiting (`stalled`).
* An `error` after the head makes the router call `writeHead` again, which throws and ends the process
  (`ErrorThrows`).
* The proxy appends its "Tunnel unavailable", and the relay its "Tunnel disconnected", to a body that has
  begun (`ErrorAfterHead`, `RelayNotice`). `Noted` is what the next parser makes of it: with chunks, a
  text and an end; with a length that lacks more than the text has, more of the body and no end
  (`short`, until the idle connection is closed); with one that lacks less, a body that is complete
  with part of the text in it (`filled`).
* The surplus of such a text, or of a client's body that is longer than it announced (`RelaySpills`), is
  a parse error of the forwarded request, which in the router ends the process. `spilt` is the history of
  these answers.

### UpgradeHops

The same way for an upgraded connection: a chain of six sockets, `Twin` the other socket of a process
and `Peer` the other end of a connection. The router destroys the twin on an error, the proxy ends it
on error and on close; a pipe ends it on the end of its source, once it is attached. The ends of the
chain are the visitor, which answers an end in kind (`VisitorTold`), and the relay, which does not
(`RelayTold`): on the visitor's FIN its handler tells the client `request-pipe-end` and keeps its own side
open until the client ends or its socket disconnects, which nothing obliges a client to. A socket a server
accepted may stay half open (`allowHalfOpen` of Node's HTTP server), one that was opened ends itself.

### TunnelWriter

`TunnelRequest` is a `Writable` whose callback is the next `drain` of the tunnel connection. `conn` is
that connection, with engine.io's write buffer and everybody who waits, as *one* record, because an
emit, the drain inside it and the callbacks in that are one step (`Emitted`, `Flushed`, `Called`).
engine.io and socket.io are external and modelled at the level of packets and their buffer.

### VisitorUrl

A visitor's session as a small state machine: the URL composed from `urlTemplate` (`Composed`), what
a front server makes of it (`Headers`), the tunnel and path found in it (`Extracted`, `Resolve`), and the
target's redirect, rewritten (`Rewritten`) and followed. Host names are sequences of pieces and paths
sequences of segments, enough to tell prefix, id and suffix apart. `meant` is the history: tunnel and
path at the target that the URL stands for.

### LogTail

The `logs` command beside the logger and whoever rotates the file. `pos`, `reading` are those of the
code; `Look` is the body of `readNew`, called by `Start`, `Close` and `Poll`; `change` stands for the
file's times and size that `watchFile` compares. Lines are numbered, so `printed` shows what was lost,
repeated or reordered. A read delivers its range at once; what may happen between the choice of the
range and its delivery, and between that and `close`, are steps of the logger. Four history variables
name what a byte offset cannot see.

### ShareSessions, ShareRelay

`ShareSessions` is the abstract specification of one session as its two ends see it: both are greeted
first, payload crosses, and at most one end hears that it is over, as the last thing it hears.
`ShareRelay` is the namespace: one action per handler, and `Disconnect` stands for *all* closures of
the socket that go (one per key registered, one per session opened). Its refinement mapping

    ends <- parties,  over <- "was opened and is no longer in the map",
    atHost <- toHost,  atClient <- toClient

makes `SessionsKept == Promise!SessionsSpec`, a property that is checked and proved. `parties` and
`endedBy` are history variables: no guard reads them, except that a session id is fresh (randomUUID).

### Daemon

`daemon`, `status`, `child`, `timers` are the daemon's own view; `os`, `connected`, `seen` what the
system knows of a child, so that the child's death, its `exit` event and the closing of its channel
are three steps in any order the system allows. A statistics query is `CollectStats` (asks all
processes at once, keeps the *current* status) until `Write`; its answers come, come late, or do not
come. `@tunli/daemon` is external: the model has its handlers run when a command arrives.

### RateCounter

The ring of one-second buckets beside the history it stands for (`hits`, the events of every second
so far). `hit` and `count` are operators of the same names; the clock jumps forward by any amount. It is
assumed not to be set back: `Date.now()` follows the host's clock and gives no such promise, and after a
step back the buckets of seconds that are to come again are counted as if they lay within the window.

## The runs

| Run | Configuration | Expect | Size, time |
|---|---|---|---|
| registry | `MCTunnelRegistry.cfg`: 3 sockets, 2 tunnels, 3 tokens (one forged), 2 rules, index up to 5 | pass | 131 k states, 15 s |
| pool_limit | `MCTunnelPoolLimit.cfg`: the same | violation of `MCPoolWithinLimit` | seconds |
| relay | `MCTunnelRelay.cfg`: 1 HTTP request and 1 upgrade, 2 sockets in one pool, 2 chunks, addresses inside and outside the rules | pass | 1.4 M states, 80 s |
| relay_live | `MCTunnelRelayLive.cfg`: the same over 1 socket, fair | pass | 20 k states, 17 s |
| relay_filter | `MCTunnelRelayFilter.cfg`: a tunnel without rules | violation of `UnfilteredAdmitsAll` | seconds |
| subdomains_memory | `MCSubdomainMemory.cfg`: 3 requests, 2 clients and none, 2 subdomains, in memory | pass | 1.6 M states, 135 s |
| subdomains_redis | `MCRedisStorage.cfg`: 2 requests, Redis with its connection, fair | pass | 0.6 M states, 145 s |
| subdomains_race | `MCSubdomainRaceRenew.cfg`: 2 requests over Redis | violation of `OwnerKept` | seconds |
| share | `MCShareRelay.cfg`: 2 connections, 2 keys, 2 sessions, 2 messages a stream, fair | pass | 40 k states, 15 s |
| daemon | `MCDaemon.cfg`: 1 process, 2 children, 2 queries, fair | pass | 87 k states, 15 s |
| path | `MCPath.cfg`: 1 request over two hops, an answer of 3 chunks with a length or without, a notice of 2 units; 1 upgrade; 2 uploads of 3 chunks; 4 templates, 4 fronts, 2 redirects; fair | pass | 331 k states, 130 s |
| operator | `MCOperator.cfg`: a window of 3 seconds, 8 seconds, 2 hits in each; a log of 4 lines, cut twice; fair | pass | 80 k states, 12 s |

What they show:

* **registry** – In every order of connects, refusals, disconnects and requests `PoolsMatchConnections`
  (a pool is exactly its tunnel's open connections, once each, never empty), `RulesFollowPool` (rules
  and target host are one connection's, the newest unless it left, and go with the pool),
  `CountsAreExact` (`stats` shows the open connections and users), `RoundRobinFair` (while nobody
  joins or leaves no connection is two requests ahead of another, wherever the index stood).
* **relay** – `NoOrphan` (no visitor waits on a socket that is gone), `BodyFaithful` (own chunks only,
  in order; a body that is ended is whole, or its socket disconnected and an HTTP visitor has the notice),
  `HeadOnce` (an HTTP response that has a head, whoever wrote it, listens for no second one, which would
  throw), `GaugesExact`, `ListenersReleased`.
* **relay_live** – `EveryVisitorAnswered`, `DisconnectCloses`, `ListenersGo`.
* **subdomains_memory** – `OwnerKept` and `LinksOwned` (a link leads to a subdomain of its client, so
  the unconditional write of a create displaces nobody, but for links that outlive their registration
  by the time of one request), `CreateReuses`, `SuccessIsStored`, over expiry and restart and with the
  clock going on inside requests. **subdomains_redis** – what is left of this over Redis: `LinksRegistered`,
  because the registration is written before its links, also when a write's reply is lost; and
  `EveryRequestAnswered`: no request is left waiting for a connection that came back.
* **share** – `PartiesConnected`, `EndNotified`, `SessionsKept` (the refinement), `DeadLetGo`.
* **daemon** – `OneChildEach`, `StatsAreOwn`, `CrashedRestarts`, `EveryQueryAnswered`,
  `ShutdownLeavesNothing`.
* **path** – `AnswerIntact` (an answer that is complete at the visitor, by its end or by its length, is
  the relay's whole one, a hop's own, or has the text of an error in it, at its end or in the place of
  what lacks), `VisitorServed` (a visitor that stays gets an end or a
  closed connection), `RouterOutlivesRelay` (nothing the relay does ends
  the router, unless the proxy dies, an answer is over before its upload, or one gets more bytes than its
  length says); `UpgradeEndsBoth` (an end anywhere in the chain closes all of it, or has reached the relay,
  which waits for its client: no hop keeps half a connection for itself); `UploadBounded` (a visitor runs no
  further ahead of the client than one write, although drains fire early and for others),
  `UploadFlows`; `RedirectsReturn` (a URL leads to its tunnel and path, and a redirect of the target to
  itself comes back to the same tunnel, scheme and port).
* **operator** – `CountIsWindow` and `BucketsAreWindow`: the number shown is that of the events of the
  last seconds, whatever gaps the clock makes; `TailFaithful`, `TailComplete`: the tail prints lines
  once, in order, and every one that stays in the log, but for two: lines of a file that outgrew its old
  size unnoticed between two looks, and a line between the first read and `watchFile`'s first look.

`path` and `operator` hold specifications that share no state: a variable `part`, fixed in the
initial state, says which of them a behaviour is about while the others rest in their initial state.
Nothing is lost by that, and exploring their product would only repeat each one's states.

### Bounds, and why they are enough

* *Registry*: three sockets give a pool of three (removal at its front, middle and end), or a pool of
  two beside another; `MaxIndex` = 5 takes the index past the end of the largest pool and leaves it
  behind the end of a shrunken one. The proofs need none of these bounds.
* *Relay*: two requests are the smallest number that can be confused on a shared socket, and one of
  each kind takes both code paths; two sockets let one disconnect while the other serves. Two chunks
  distinguish order, gap and loss. More requests of one kind only repeat a pair.
* *SubdomainApi*: three requests are a writer, a competitor and a reader; `Ttl` = 2, `MaxRun` = 1 and
  `MaxClock` = 3 let an entry be in force, expire, and be replaced, and a link outlive its registration by
  one step of the clock, in which the others renew and create. One hash for targets and profiles makes the
  confusion of the two key spaces visible. With two subdomains a second fresh one is the last; a third
  would be used by nobody's link. `MaxRun` is a bound of the model, not of the code: a turn of the event
  loop takes what it takes, and the proofs hold for any bound up to `Ttl`.
* *Share*: with two connections each may be host, client or both, of itself or of the other; two keys
  make one host hold two, two sessions let one disconnect end both. `MaxStream` bounds payload only:
  greetings and ends are always sent.
* *Daemon*: two children are a process and its restart; two queries overlap. One name is enough because
  names share nothing but the round of questions; the properties are stated for any set.
* *Redis*: two requests are enough to share the connection's promise, to have one command sent and one
  queued when it drops, and to interleave their writes. `MaxClock` = `Ttl`, as nothing is promised for
  links beyond the expiry of a registration.
* *ProxyHops*: requests share nothing but the processes, so that another visitor shows itself in the
  death of a process it causes, which `Death` has at any time; one request and `MaxDeaths` = 1 for each
  process. Three chunks and a `NoticeLength` of two make a text that is shorter than what lacks, fits it,
  or is longer; one length stands for both servers' texts (19 and 18 bytes), and a unit for any number of
  bytes.
* *TunnelWriter*: two uploads are one and somebody else; three chunks make one that is being written,
  and two that are held and go out together (`_writev`).
* *VisitorUrl*: templates with and without something before and after the id; the target's paths
  contain the template's own pieces and another tunnel's id. Two redirects show that the first one's
  result is as good a URL as the first.
* *LogTail*: four lines and two cuts make a file that is cut under a read, outgrown unnoticed, removed
  and made again.
* *Deadlock* is not checked: sockets, requests, sessions and children are used once, and a run in
  which all are used up stops.
* *Symmetry* is used in the registry, relay and API runs only, on sets whose members no constant
  distinguishes, and never with a liveness property.

## Fairness

`RelayFairSpec`: a client that runs answers a request it has received in full (weak fairness of
`ClientStep` for HTTP requests); a dead client is missed by socket.io's heartbeat
(`SocketDisconnects` of a socket that is not `alive`); a visitor finishes its upload or is cut off
(Node's `requestTimeout`, 300 s by default); a visitor takes what it is sent, however slowly, or its
connection breaks, so that the pipe goes on (`PipeFlows`, `PipeEnds`) and what was ended is flushed.
Nothing is assumed about clients connecting, visitors leaving, or the client's use of an upgrade.

`ShareFairSpec`: only the heartbeat, for connections that are dead.

`DaemonFairSpec`: child events are delivered, timers fire (the restart and the one-second limit of a
query), a process obeys SIGTERM (none of the four installs a handler for it), and a finished query is
written. A child need neither answer nor stay alive.

`RedisFairness`: Redis comes back after each drop (the package retries without end), and replies to a
command, or the command is rejected, while the connection lasts.

`HopsFairness`: a hop that runs takes the next piece off its connections, the keep-alive timeout closes a
connection that is done with (`IdleCloses`), and the relay answers or cuts; whether a process is restarted,
an upload ends or a timeout strikes is left open. `UpgradeFairness`: event loops turn, a connect succeeds
or fails, and a visitor that is told of the other side's end gives up its own; nobody has to end first, and
the relay never has to end at all. `WriterFairness`: an open connection's transport writes, and the
heartbeat's packets come. `TailFairness`: reads end and `watchFile` polls; nobody logs or rotates.

The other runs assume nothing.

## The proofs

Every safety property that a run checks – invariants and action properties – is also proved, for every
value of the constants that satisfies the assumptions named in the modules. Liveness is not.

| Module | Inductive invariant | Properties proved from it |
|---|---|---|
| `TunnelRegistryProofs` | `RegistryInv`, `FairInv` | `RegistryTypeOK`, `PoolsMatchConnections`, `RulesFollowPool`, `RoundRobinFair` |
| `TunnelRelayProofs` | `RelayInv`, `GaugesInv` | `NoOrphan`, `ListenersReleased`, `HeadOnce`, `BodyFaithful`, `GaugesExact` |
| `SubdomainApiProofs` | `MemoryInv`; `ApiInv` with `LinksLead` | `LinksOwned`, `OwnerKept`, `SuccessIsStored`, `CreateReuses` in memory; `LinksRegistered` over any storage and over Redis |
| `ShareRelayProofs` | `ShareInv` | `ShareTypeOK`, `PartiesConnected`, `EndNotified`, the refinement `SessionsKept` |
| `DaemonProofs` | `DaemonInv` | `OneChildEach`, `StatsAreOwn`, and that a shutdown misses no child |
| `ProxyHopsProofs` | `HopsInv` | `AnswerIntact`, `RouterOutlivesRelay` |
| `VisitorProofs` | `UrlInv`; `WriterInv` | `RedirectsReturn`; `UploadBounded` |
| `OperatorProofs` | `UsersCounted`; `RingInv`; `TailInv` | `CountsAreExact`; `BucketsAreWindow`, `CountIsWindow`; `TailFaithful` |

The assumptions say that `undefined` and the like are no members of the sets they stand beside (no
tunnel, no status, no entry, no writer), that bounds are numbers, and of `VisitorUrl` that a template's
parts are sequences and that a target's path has at least one segment. The four properties of the API in
memory assume `~Shared`: that a storage call that is a resolved promise lets no other request in
between, while the clock may go on by `MaxRun` <= `Ttl` from a request's first step to its last. Each
inductive invariant was checked by TLC before its proof.

**TunnelRegistryProofs**, from `RegistryAssumption` (undefined is no tunnel, token, rule, host,
handshake or pool; valid tokens are tokens). `RegistryInvariant`:
`RegistrySpec => []RegistryInv`, where

    RegistryInv == RegistryTypeOK /\ HandshakesRecorded /\ PoolsMatchConnections

`PoolsMatchConnections` alone is not inductive: a socket that disconnects must be found in the pool of
the tunnel it *announced*, so `HandshakesRecorded` adds that an open socket's handshake was recorded
and admitted. The work is in `RemoveFromPool`: `RemoveFirst` on an injective sequence removes exactly
one element, keeps the others in order, and leaves the last element last unless it is the one that
goes. From the invariant follow `RegistryTypeCorrect`, `PoolsAreConnections` and `RulesAreThePools`
(whose own induction uses that the newest socket of a pool stays last when another leaves).

`RoundRobinFair` alone says nothing about *which* connection is ahead. `FairInv` adds that the
connections from the index's position to the pool's end have been picked equally often, and those
before it once more (`TurnsEven`), and that a connection that never joined was never picked.

**TunnelRelayProofs**, from `RelayAssumption`. `RelayInv` is the registry's invariant and, for every
request, `RequestInv`. `KeptUp`: while the visitor's side is open its socket is connected, and what the
client sent is, without a gap, in the body or in the buffer before the pipe. `NothingMore`: once it is
ended the answer is over or the socket gone. `ListenersFollow` and `OneHead`: the listeners are those of
what can still come. `Prefix`: the body is the beginning of the answer and at most the notice. The
registry's steps keep it because an open socket stays open until its own `Disconnect`, which reaches
every request over it in one step. The gauges are compared with cardinalities of sets of requests, finite
because each step adds one at most.

**SubdomainApiProofs**, from `ApiAssumption`. Over the in-memory storage, `Alone` – at most one request
is in flight – and `OnTime` – it takes no more than `MaxRun` – make what a request found still true when
it writes, or expired (`StillSo`), and have a link expire at most `MaxRun` after its registration.
`LinksBacked` says what is then under a link: its client's registration, or nothing and the link nearly
expired, or another client's registration made when the link had nearly expired. The first use of such a
link puts the subdomain into `taken`, about whose links nothing more is said. Without `Alone`, `OwnerKept`
is false (run `subdomains_race`). Over any storage, `LinksLead` needs only that a registration that is in
force is never removed and is written before its links; its steps are proved once for `Spec` and reused
for the steps of `RedisStorage`.

**ShareRelayProofs**, from `ShareAssumption`. `ShareInvariant`: `ShareSpec => []ShareInv`, where

    ShareInv == ShareTypeOK /\ PartiesConnected /\ SessionsRecorded

`SessionsRecorded` ties the map to the history: an open session is the one its id was opened for,
nobody has asked for its end, an unused id has no messages. `PartiesConnected` is part of the
induction, not only a goal: the closure of `share-register` ends a host's sessions only while the host
still has a key, so without "the host of a session holds a key" a disconnect could leave a session
behind. From it follow `PartiesStayConnected`, `EndsAreNotified` and, the main result,
`RelayKeepsSessions`: `ShareSpec => Promise!SessionsSpec`, step by step for every session.

**DaemonProofs**, from `DaemonAssumption`. `ChildrenKnown`: a name's latest child is replaced only
after its `exit` was handled, so every child whose `exit` is to come is the latest of its name.
`StatusFollows`: the status is what was seen of that child. `QueriesSound`: a query that read `crashed`
asked a child that was dead, and an answer belongs to the query that asked. `ShutdownMissesNone` is an
action property beside those of the runs: whoever is alive when the daemon exits has been sent a signal.

**ProxyHopsProofs**, from `HopsAssumption`. `HopsInv` says of everything on its way from the relay to a
visitor, hop by hop, that it is the relay's answer in order up to one piece that tells of a failure
(`AnswerOf`), for either framing: a text, a body it made up (`filled`), a cut. Without a fault – a death, an
answer over before its upload, a surplus – no hop is reset behind a head (`Unharmed`). A single wire's
contents would not be inductive: the pieces move, so the invariant is about their concatenation (`Flow`).

**VisitorProofs**. `UrlInv`: after any number of redirects that the server follows up, the visitor's URL
is the one that the template makes of some id and path. The lemmas `FoundInHost` and `FoundInPath` show
that what lies around the id in a template leaves exactly the id between its prefix and suffix.
`WriterInv`: a writer with packets in the write buffer or a `drain` listener is busy, and it listens
once. Listening once is what makes it inductive: a flush calls all who wait, and one that becomes idle
must not be called after another call of its own has written. The callbacks are a fold over the
listeners (below).

**OperatorProofs**. `UsersCounted`: a connection is counted under its token exactly while it is open,
and only finitely many are. `RingInv`: every bucket holds the hits of the second written beside it, that
second falls on that bucket, and no second within the window has been pushed out. `TailInv`: what the
tail reads next lies behind all it printed (`TailFollows`), unless the file was cut since it looked.

*Sums and folds.* The theorems of induction take an operator as a parameter and cannot be used, so
what a fold computes is proved by a smallest counterexample: the subsets of a finite set are well
founded, and among those where a claim fails there would be a smallest. In this way a sum over a set
is the number of its *places*, pairs of an element and one of its units (`SumIsCount`), which makes
`CountsAreExact` and `CountIsWindow` questions of a bijection; and the callbacks of a flush keep
`WriterInv` (`FoldExists`, `AllCalled`).

Only model-checked: all liveness (`EveryVisitorAnswered`, `DisconnectCloses`, `ListenersGo`,
`EveryRequestAnswered`, `DeadLetGo`, `VisitorServed`, `UpgradeEndsBoth`, `UploadFlows`, `TailComplete`,
`CrashedRestarts`, `EveryQueryAnswered`, `ShutdownLeavesNothing`), which rests on fairness and ENABLED,
out of the prover's reach; and with `UpgradeEndsBoth` everything the runs say of `UpgradeHops`.

## Where code and documentation disagree

* **Pool limit.** The changelog says "multiple connections are accepted up to the pool limit" and calls
  `connectionPoolSize` "config option to control the pool size per tunnel"; the registry accepts every
  connection. Run `pool_limit`. (The value is announced to clients, who may honour it.)
* **Addresses that are not IPv4.** The changelog says requests "from IPs not matching the rules are
  blocked". `onConnection` stores a rules object for every tunnel, so the check always runs, and it
  blocks any address that does not parse as IPv4, also when there are no rules. Run `relay_filter`.
* **Two renewals over Redis.** "renewSubdomainController rejects wrong token", says a test; two
  renewals of a free subdomain both read that it has no owner, both succeed, and the second takes it
  from the first, which was told it owns it. Run `subdomains_race`. In memory no two requests interleave, and a
  renewal never displaces an owner (`OwnerKept` of run `subdomains_memory`); there only a create can, whose
  link has outlived its registration, or which takes back what such a create has taken.

## What is not modelled

* **The choice of the target by the router** (`api.` and `relay.` hosts) – a constant of a request; the
  modelled hop leads to the proxy.
* **Validation of `urlTemplate`** (`parseTunnelIdSource`) – happens once at the start; the model's
  templates are those that pass. `checkconf` accepts a template without `{{id}}`, which the proxy then
  refuses at its start.
* **Cookies, CORS origins, forwarded headers** (`utils/httpFunctions.ts`) – one value is replaced by
  another, without state or case. **CIDR parsing** – the relay model treats a network as the set of its
  addresses.
* **Redirects with the id in the path** – `rewriteLocation` replaces host and protocol only, so the
  redirect loses the id. **A Host header that is not the visitor's** – the tunnel is found by
  `X-Forwarded-Host`, but redirects are rewritten to `Host`. `RedirectsReturn` excludes both; the
  example's nginx configuration sets both headers alike. **A list in `X-Forwarded-Proto`** (two front
  servers that append) is understood by the redirect's rewriting and not by `buildFullUrl`; the model's
  front servers set one value.
* **Other commands of the Redis client** – no code calls them; they await the same promise.
* **Frames of two share sessions over one connection** – they carry no session id; the model's streams
  are kept by session, and its clients have one session per connection.
* **A daemon whose child cannot be spawned** – `SpawnError` is modelled; nothing is promised for it.
* **Registration, invitation, tokens, information controllers** – stateless; a token either verifies or
  does not.
* **Other commands, configuration, formatting, entry points** – terminal output, values read once at
  the start. Of the logger there is the order of its lines, not their text.
* **Connections that are used again** – a request's connections are its own in the models. In the code
  router and proxy keep them alive, and surplus bytes behind an answer that nobody reads for the request
  they belong to may be read for the next one over the same connection. Data still queued in the relay
  when it writes its notice goes out before it; the model has the notice behind what was sent.
* **A connection promise of Redis that is rejected** – the `redis` package retries without end by
  default, and the model has no other strategy.
* **A clock that is set back** – the storage and the rate counter read `Date.now()`; the models' clocks
  only advance.
* **Security** of any kind (signatures, TLS) – outside the project: the models speak of correctness.

## Plan

1. *(done)* Registry with proofs; relay; subdomain API over both storages; share relay with its
   abstract specification and refinement proof; daemon; rate counter with proof.
2. *(done)* Router and proxy: requests and upgrades; the connection to Redis; back-pressure of uploads;
   URLs and redirects; the log tail.
3. *(done)* Proofs of the safety properties of every module, for every value of the constants.
4. An abstract specification of a forwarded request (asked, answered whole or failed) that both
   `TunnelRelay` and `ProxyHops` implement.
5. Bounds: a second HTTP request in the relay's run, as far as its time allows.
