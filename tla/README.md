# ZoTunnel in TLA+

ZoTunnel publishes local HTTP services under `<name>.<domain>`. A *tunnel client*
keeps one TCP control connection to the *server*; the server multiplexes it with
yamux and opens one stream through it for every public HTTP request of that name.
This directory holds TLA+ models of that system, the TLC runs that check them on
small instances, and TLAPS proofs of what must hold for every instance.

Paths below are relative to the repository; `server/`, `client/`, `protocol/`
stand for `crates/zo-tunnel-{server,client,protocol}/src/`.

## 1. Inventory

| Component | Source | State | Operations |
|---|---|---|---|
| Control channel | `server/server.rs` (`accept_clients`, `handle_client`) | one task per TCP connection | accept, authenticate (10 s timeout), spawn driver, register, write router, await driver, unregister |
| Registry | `server/registry.rs` | `clients: DashMap<name, entry>`, `next_session` | `register` (last writer wins), `unregister` (same session only), `get`, `list`, `is_alive` |
| Yamux driver | `server/server.rs` (`spawn_yamux_driver`, `YamuxHandle`) | command channel, `pending_open`, heartbeat flags, `missed_heartbeats`, `last_activity` | the `select!` loop, `open_stream`, `abort`, probe tasks |
| Public proxy | `server/proxy.rs`, `serve_http` in `server/server.rs` | one task per request, gauges | route, rate-limit, look up, open stream, forward, settle |
| Limiter, metrics | `server/metrics.rs` | window per name, gauges and counters | `check`, `snapshot` |
| Traefik routers | `server/traefik.rs` | a base file and one YAML file per name, on disk | `write_static_routes`, `add_client` (read, compare, write) |
| Dashboard API | `server/dashboard.rs` | login sessions | login, logout, validate (lazy expiry), JSON views, downloads |
| Dashboard page | `web/app.js` | which screen is shown, refresh timer | check, login, logout, refresh |
| Tunnel client | `client/client.rs`, `run_with_reconnect` in `client/main.rs` | connection status, backoff | connect, authenticate, accept streams, answer probes, proxy, reconnect |
| Background tunnels | `client/main.rs` | pid and log files | start, status, stop |
| Server configuration | `server/main.rs`, `server/config.rs`, `Server::run` | `server.yaml`, the environment | first start, load, override, `--force`, come up, stop |
| Client configuration | `client/config.rs` | one YAML file | load, save |
| Wire protocol | `protocol/lib.rs` | what is written and not yet read | `write_message`, `read_message` |
| Streams of a session | `server/proxy.rs`, `client/client.rs` | one task at each end of a stream | marker, probe, echo, forward, copy |
| Self update | `protocol/self_update.rs` | the installed binary | upgrade, uninstall |

How they interact. A handler owns its connection until the driver task takes it
over; from then on the handler only awaits the driver. The registry entry holds a
`YamuxHandle`: the proxy sends it `OpenStream` commands, a takeover calls `abort`
on it. The driver and the entry share `missed_heartbeats` and `last_activity`,
which `is_alive` turns into the dashboard's *healthy* flag. Traefik reads the
router files; the server never deletes one. The client answers probes, forwards
proxied streams to a local port, and reconnects for ever with a growing delay.

What is hard here: handlers, drivers, probes and requests are separate tasks on a
multi-threaded runtime and share the registry and counters; stopping a task is
asynchronous; a request's future may be dropped at any await; a peer may fall
silent without its TCP connection ending; heartbeats compete with requests for
yamux's limits; the same name may be claimed by several connections at once; a
server restart loses the registry but not the files. `PROJECT.json` lists each
such hazard at its line.

What makes each component correct:

* control channel and registry: a name has one session at a time, the newest to
  register; a displaced session stops and never disturbs its replacement; no
  name stays occupied by a dead session; no handler gets stuck.
* driver: one probe at a time and its result counted once; no `open_stream` call
  is forgotten; a silent client is flagged after about 40 s and evicted by 90 s,
  as long as yamux has room for a heartbeat; a healthy client is not.
* proxy: every exit gives the gauges back exactly once; the limiter refuses only
  names that really were busy.
* client: once faults stop and no rival is left it serves its name for good; gone,
  it leaves the name; displaced, it learns so.
* background tunnels: start, stop and status agree about which process is the
  tunnel of a name, also after commands were cut short, and every command ends.
* wire protocol and streams: the handshake and yamux share a connection and take
  nothing from each other; the local service gets the request and no marker, from
  any pair of versions; what hangs in the local service holds up nothing else.
* routers and configuration: whoever is served has its router, whatever earlier
  starts and crashes left; settings an operator was shown hold for later starts.
* self update: the binary is lost only in the middle of its replacement; upgrades,
  also those that overtake one another, never go below the version first installed.
* dashboard: a page polls with one timer exactly while it shows the dashboard, and
  a dashboard without a valid session does not stay on the screen.

## 2. Modules

| Module | Models | Checked by |
|---|---|---|
| `NameLease` | abstract: a name is leased to at most one session, the last claim wins, spent sessions never return | refined by `ControlPlane`, environment of `PublicProxy` and `TunnelClient` |
| `ControlPlane` | handlers, registry and drivers as boxes, server restart | `MCControlPlane`, three runs |
| `ControlPlaneProofs` | TLAPS proofs about `ControlPlane` | `tlapm` |
| `YamuxDriver` | the inside of one driver box, with time | `MCYamuxDriver`, two runs |
| `PublicProxy` | requests, limiter and gauges over the abstract registry | `MCPublicProxy`, one run |
| `TunnelClient` | clients that connect, are displaced and reconnect, over the abstract registry | `MCTunnelClient`, one run |
| `BackgroundTunnel` | start, stop and status commands, pid and log files, tunnel processes | `MCBackgroundTunnel`, one run |
| `Dashboard` | login sessions, the browser's cookie, pages with requests in flight | `MCDashboard`, one run |
| `FrameCodec` | frames, the length field, what `read_message` takes and leaves | used by `TunnelLink` |
| `TunnelLink` | one connection from `AuthReq` to the local service | `MCTunnelLink`, one run |
| `TraefikRoutes` | router files and the handlers that write them | used by `ServerHost` |
| `ServerHost` | starts of a server over one configuration file and directory | `MCServerHost`, one run |
| `SelfUpdate` | upgrades and uninstalls of one installed binary | `MCSelfUpdate`, one run |
| `YamuxDriverProofs`, `PublicProxyProofs`, `ClientProofs`, `DashboardProofs`, `ServerHostProofs`, `SelfUpdateProofs`, `TunnelLinkProofs` | proofs about the module they name; `ClientProofs` about `BackgroundTunnel` and `TunnelClient` | `tlapm` |

### ControlPlane

`pc[n]` follows `handle_client` for connection `n`; the locations are the points
between which another task can see or change shared state:

| Action | Code |
|---|---|
| `Accept` | `accept_clients` spawns the handler |
| `AuthFails` | auth timeout, unreadable or other message, bad token, reply not written |
| `AuthSucceeds` | `AuthRes{success}` written, driver spawned |
| `RefuseReserved` | `register` bails out, the handler aborts its driver and returns |
| `DrawSession` | `next_session.fetch_add` |
| `Insert` | `clients.entry(..)`: take the slot, abort the displaced driver |
| `AddRoute` | `add_client`, whose failure is only logged |
| `Unregister` | `driver_task.await` returned; `remove_if` with the session number |
| `HeartbeatOk`, `HeartbeatMissed`, `ConnectionLost`, `DriverCancelled` | what can happen to a driver task |
| `ServerRestarts` | ctrl-c or crash, new process; router files stay |

Drawing the number and inserting are two steps because the counter is bumped
before the shard lock is taken; a reserved name is refused before a number is
drawn. `aborted` is set by `abort()`, and only `DriverCancelled` (or another end)
stops the task. Token comparison, statistics counters and log lines are left out.
The branches of the driver for "all handles dropped" and "result channel closed"
cannot be taken (the handler and the driver itself hold the other ends).

### YamuxDriver

One session. Each branch of the `select!` is an action; branches are chosen
freely, as `select!` does. A stream goes to the waiting command before the
heartbeat; `OpenFails` handles a refused stream for both in one step, as the code
does. `Tick` passes five seconds, and only when nothing is ready to run, so a
ready task never waits for a whole unit: intervals and timeouts are 3 and 2
units, and the eviction mark is 11 with the three misses of the run `driver` and 18 with
the code's five. Clocks stop counting at `StaleAfter + 1`, after which
no guard can tell times apart. The interval is modelled with
`MissedTickBehavior::Delay`: the next tick is due one interval after the last was
taken. yamux is external and modelled from the poll functions the loop calls:
`TooManyStreams` at `MaxStreams` open streams, pending at `AckBacklog` streams
without a frame from the peer. `FitsControlPlane` states that every step of this
module is a driver step of `ControlPlane`, a takeover's abort, or invisible there:
it is what justifies the box.

### PublicProxy

`Waiting` requests are at one of the awaits of `handle_proxy_request`;
`ClientLeaves` is hyper dropping the future there. The registry is `NameLease`, so
sessions die and names pass on between lookup and answer. The limiter's clock
reading (`ReadClock`) and its locked update (`CheckRate`) are separate steps, and
`Elapsed` saturates as `Instant::duration_since` does. Header rewriting, bodies
and status codes are reduced to the outcome of the request.

### TunnelClient

`pc[p]` follows `run_with_reconnect` and the attempt it is in: `idle` (head of the
loop), `connecting` (TCP and TLS), `waiting` (for `AuthRes`), `serving`
(`poll_next_inbound`), `asleep`. Dropping the future closes the connection
(`HangUp`). The server is `NameLease` with, for each connection, how far its handler
is (`stage`): the reply leaves before the driver starts and before the name is
claimed, and none of these steps looks whether the client is still there, which is
how an old attempt can displace a newer one. `down` holds connections that ended;
each side notices in its own time. `Forget` only renames: a connection both sides
are done with gives its identity to a later one, so that the clients can reconnect
for ever in a finite model. `calm` is the point after which connects succeed,
nothing is cut, no heartbeat fails, the token is right and the server stays up. The
doubling of the delay (it never starts again at one second) is left out; the
per-stream tasks are `TunnelLink`'s.

### BackgroundTunnel

One action for each access to the file system or to a process. `read`, `probe`,
`clean` are `read_pid`; then a start goes through `truncate`, `spawn`, `write`, `fill`,
`wait`, a stop through `kill`, `unlink`. `write_pid` is two steps, for it empties the
file before it fills it. `CutShort` ends a command at any step: by Ctrl-C, by a kill or
because the access that was next failed; a failed `remove_file`, which the code ignores,
is the second choice of `Remove`. `Kill` only marks the process (`signalled`): it dies by
`Crash` in its own time, and until then it may still print, or leave and remove the pid
file. A pid names whatever process has it: `Foreign` uses free pids, and a child that
exited is a `zombie` until the command that spawned it returns. `Printer` prints its
line once, whenever the client is connected, or never. A foreground tunnel shares one
thing with the others: on return it removes the pid file of its name
(`ForegroundReturns`). A pid file is filled in one write of a few bytes.

Any number of shells run commands at once, and the code locks nothing, so there are
things no property of a name survives. `unsettled` is history and says which names they
have happened to: a start that overlaps another command about the name, a start that
ends between `spawn` and the end of `fill` (the tunnel stays, and no file names it), a
foreground tunnel of the name that returns, a signalled process that still writes. The
properties are about the other names. An unsettled name is settled again as soon as a
command begins while no other one is about it and no tunnel process of it is left: from
then on everything has to be right again, whatever the files hold by then.

### Dashboard

`store` says what became of each session id: `valid`, `expired` (still in the map),
`removed`. A request in a slot carries the cookie of the moment it was sent; `Serve`
is the handler, which runs without an await between its reads and writes; `Arrive` is
the browser taking the cookie of the reply and the page going on after its `await`.
One `view` stands for the three fetches of a refresh. The login form is on the page
before the first check is answered, as in `index.html`. A closed page's requests
still set cookies, as another tab's would. Ids nobody can present are used again
(`Forget`). Drawing, the TLS warning, the install script and downloads are left out.

### FrameCodec and TunnelLink

`FrameCodec` cuts a connection into units: a header, the pieces of a payload, and
what is not the codec's. `payload_len` keeps the width of the field (`Wrap` for
2^32), because `write_message` casts the length before it compares it with the
limit: a payload of `Wrap` and a bit passes as a short one. `Decided`, `Decoded` and
`Remaining` say when `read_message` returns, what, and what it leaves, which is all
`read_exact` was not asked for.

| Action of `TunnelLink` | Code |
|---|---|
| `SendAuthReq`, `ReadAuthRes` | `run_session_with_status` up to `yamux::Connection::new` |
| `ReadAuthReq`, `AuthTimeout` | `handle_client` up to the driver |
| `OpenStream`, `SendProbe` | the driver's streams and its probe task |
| `MarkRequest`, `SendRequest`, `DropStream` | `handle_proxy_request` on its stream |
| `Receive`, `Deliver` | the two loops that poll yamux |
| `ReadMarker`, `MarkerTimeout` | the task of an inbound stream |
| `ConnectLocal`, `CopyUp`, `LocalEnds` | `handle_tunnel_stream` |

The peer is this repository's client, a legacy one without a version, or a stranger
that has no token: it sends any units (`Noise`), also a whole `AuthReq` with a wrong
token, but no piece of one with the right token (`LinkAssumption`). A stream's response is one unit, and it is not half-closed: `copy_bidirectional`
ends with its first end here. A stream once used is not used again, as yamux ids are
not. Clients write a frame in one go; a frame that arrives in parts is the stranger's
case. How many probes run at once is `YamuxDriver`'s subject. `ClientEnds` also ends
the tasks of its streams, which in the code fail at their next read or write.

### TraefikRoutes and ServerHost

`add_client` is `CompareRoute`, `OpenRoute` (truncation) and `FillRoute`, each able
to fail, run by handlers at the same time; `sanitize_id` maps names to files, and two
names can share one. `RoutesDie` is the end of the process: what is on disk stays, a
truncated file too. `ServerHost` adds a start: `LoadConfig` or `BuildConfig` and
`SaveConfig` (`run_server`), `BindControl`, `OpenBase`, `FillBase`, `BindPublic`
(`Server::run`), with `Stop` possible anywhere and the environment changed only while
the server is down. `shown` and `untouched` are history: what the operator read in
the last log and whether anything was changed since. A generated token is named after
the start that generated it. Left out: Traefik disabled, ports and log level, the
dashboard token, which is treated like the client token. Characters are one byte wide.
`remove_client`, `cleanup_legacy_routes`, `cleanup_clients` and `ServerConfig::save`
have no caller.

### SelfUpdate

A command is `fetching`, `downloading`, `extracting`, `replacing`, `opening`,
`copying`; an uninstall is `removing`, `clearing`. Each step can fail and each command
can be killed (`Abandon`). `bin` is the file at `install_path`; a copy keeps the file it
opened, so `linked` says whether that is still the one at the path, and `mixed` whether
two copies have it open. A failed removal of the old file is ignored, as in the code.
A version is the sequence of its parts, and `parse` drops those that are no number,
which shifts the others. The systemd functions and the server's branch of uninstall
have no caller; `sudo` and permissions only decide which steps fail. `baseline` is
history: the version that was last put in place by hand (`Reinstall`).

## 3. Runs

| Run | Instance | Shows |
|---|---|---|
| `control_safety` | 3 connections, 1 usable and 1 reserved name, `MaxMissed` 2, 1 restart, symmetric | `SoleServer`, `AttendedSlot`, refinement of `NameLease` |
| `control_liveness` | 2 connections, same names, 1 restart, fairness | displaced drivers stop, dead slots are freed, handlers settle |
| `control_reserved` | 2 connections | **violated**: success is reported for a reserved name that is then refused |
| `driver` | 2 requests, channel of 1, ACK backlog of 1, stream table of 2, `MaxMissed` 3 | probe accounting, no lost command, fit with `ControlPlane`; with room in the backlog eviction and zombie mark in time, and `open_stream` returns |
| `driver_wedged` | 2 requests, ACK backlog of 2, stream table of 4, `MaxMissed` 5 | **violated**: heartbeats wait behind unanswered requests, a silent session is kept |
| `proxy` | 3 requests, 2 sessions, 1 name, 2 per second in half-second units | refusals are justified, gauges balance |
| `client` | 2 clients of one name, 2 connections at a time, fairness | `ServedForGood`, `LeavesItsName`, `NoLastingSplit` |
| `background` | 2 shells, 1 name, 2 pids, 1 poll | pid file and log belong to the one running tunnel of a settled name, commands end |
| `dashboard` | 1 page loaded any number of times, 2 ids, 2 requests in flight | `TimersMatchScreen`, `StaleDashboardLeaves` |
| `link` | 1 connection, 2 streams, payloads up to 2, lengths modulo 6, fairness | `HandoverExact`, `OnlyTheRequest`, `ProbeEchoed`, `RequestDelivered` |
| `host` | 3 starts, 2 handlers, 3 names (2 share a file), 2 domains, 1 token | `ServedIsRouted`, `SettingsSurviveRestart` |
| `update` | 2 commands, 4 releases, one with a part that is no number | `LostOnlyInReplacement`, `NotBelowBaseline` |

Why the bounds are enough. Three connections are needed for a takeover of a
takeover and for a late unregister while two others race; one connection is used
once, so a longer history of one name only repeats the pattern. Liveness is per
connection and involves at most the connection that displaces it. In `driver`,
two requests fill a channel of one with one command in hand, and a stream table
of two lets refusals occur while probes and requests compete. An ACK backlog of one
under a table of two keeps the proportion of yamux's 256 and 512: it fills, drains and
can stay full. The bounds in time and `OpenStreamReturns` state what room they need, and
`driver_wedged` shows what happens without it. Three misses are the fewest that tell the
zombie mark (two) from the eviction; the proofs cover the code's numbers. `proxy` needs three requests for one
to be refused at a limit of two, and three instants for a window to pass. `client`
has two connections at a time: an old and a new one of one client, or one of each
rival; identities are used again, so histories are unbounded. In `background` two
shells are enough for every overlap of two commands, and two pids for a stopped or
orphaned tunnel beside its successor and for a stale file whose pid another tunnel or
program took. Names meet only in the pids, and another name's tunnel looks like a
foreign process to `read_pid` (`Foreign`); several names are the proofs' case. In `dashboard` two requests in flight are a check and a
login, or a late view and whatever overtakes it; the second id is the session of a
newer login. In `link` sizes 1 and 2 fit, the answer to 2 and the request of 3 are
too large, and 7 looks like 1 to the length field; two streams are a probe beside a
request that hangs, or two requests. In `host` the third start is the first after one
that itself found files of another; two handlers are enough for two writers of a
file. In `update` two commands can overtake each other at every step, and the
releases tell numbers from text and a dropped part from none.

Deadlock is not checked where the system may really stop: all connections used
up and closed (`control_*`), all requests settled and the clock at its bound
(`proxy`), all clients stopped (`client`), both ends of the connection closed
(`link`), no start left (`host`); in `background`, `dashboard` and `update` the
system may also stay idle. In `driver` time always passes.

Fairness. `control_liveness`: the runtime polls a runnable handler, the wait for
`AuthReq` ends by its timeout, an aborted task is dropped. `driver`: the loop and
the probe tasks are polled, time passes, and a sender that finds room goes on.
`OpenStreamReturns` has its premise in the property: the backlog has room again and again.
There no step of a client, a network or a heartbeat is assumed to happen. `client`:
each client's task and each handler go on, which includes that a peer's silence is
noticed (keepalive on the client, heartbeats on the server: `EvictedWithRoom` of the
driver, so a server whose backlog a silent peer keeps full is outside it) and an `AuthReq` is answered or given up (`HandlerSettles`); no fault has to
happen or to end. `background`: a command goes on; tunnels need not do anything.
`dashboard`: intervals fire, and a request sent again and again is some time
answered and its refusal delivered (strong fairness, for each can be lost). `link`:
the loops and the tasks of streams run, and each side notices that the other one is
over; no timeout is relied upon, nor that the local service ever answers.

Faults. Each property of a passing run has a mutant (operators named
`<Definition>_<Fault>`, each beside the definition it would replace) under which
TLC finds it violated; `PROJECT.json` pairs them.

## 4. Proofs

`ControlPlaneProofs` proves for every set of connections and names, every
`MaxMissed` and any bound on restarts, from the named assumptions of
`ControlPlane` only:

* `InductiveInvariant`: `Spec => []IInv`;
* `TypeCorrect`, `NoOrphanedTunnel` (`SoleServer`), `NoWedgedName` (`AttendedSlot`);
* `ImplementsNameLease`: `Spec => KeepsLeases`, the refinement of `NameLease`;
* `DisplacedNeverReturns`: `Spec => Lease!NeverAgain`, a session once spent holds no
  name ever after, however late the steps its handler has left come. It is proved of
  `NameLease` alone (a name has one session and a session one name, spent ones have
  none, `spent` only grows) and holds of `ControlPlane` by the refinement.

Neither `SoleServer` nor `AttendedSlot` is inductive. `unregister` compares
session numbers, so removing the right entry needs that numbers in use differ
(`DistinctSessions`), which needs that they stay below the counter
(`HandlerShape`), and the counter may start again at one after a restart only
because no number is in use then. `AttendedSlot` and `SoleServer` support each
other: the holder of a slot is attending and unaborted, and an attending,
unaborted handler holds its slot, so `Insert` aborts exactly the one it
displaces. There is one lemma per action; `UnregisterComparesRight` is the fact
the teardown rests on: the comparison succeeds iff this very entry is in the slot,
iff the session was not displaced. The refinement maps a slot's holder to the
lease, running drivers to live sessions, and aborted or returned handlers to
spent ones.

`YamuxDriverProofs`, for any callers, capacities and times: `TypeCorrect`,
`OneProbeAtATime`, `CommandsAreKept` and `DriverFits`. `OneProbe` needs that the
loop's two flags account for the probes and results there are, that a driver that
still runs has not counted its last miss, and that one that is over holds nothing.
`NoCommandLost` counts a command over the channel, the hand of the loop and its
caller, so its step lemmas are about appending to and taking from a sequence without
repetition. `DriverFits` follows from the same invariant: a miss steps the count by
one below `MaxMissed`, or ends the driver.

The two bounds in seconds, `SilentSessionEnds` (`EvictedWithRoom`) and `ZombieSeen`
(`ZombieWithRoom`), have a premise, `[]RoomInSilence`: whenever the client is silent,
fewer than `AckBacklog` streams wait for a first frame of it. Before that the backlog may
have been full and have held heartbeats up. Without the premise the bounds are false,
which is what `driver_wedged` shows; `FewRequestsLeaveRoom` proves it where callers and
one heartbeat together stay below the backlog. The invariant `OnTime` ties three clocks: while a probe runs, the interval
and the probe's timeout were started in the same instant, and the silence so far plus
the time to the next tick is at most one interval for each miss counted, for one
heartbeat under way and for one to come. Time passes only when nothing is ready, so a
wanted stream is open before the next unit passes, which is where `Room` is needed.
From there 90 s follow by arithmetic: `EvictionAssumption` says that `MaxMissed`
intervals and one timeout fit (5 * 15 + 10 in the code).

`PromptClientIsKept` is the other half: a peer that answers in less than a unit of time
has no miss counted, and its driver ends by a takeover or not at all. Its premise is
`[]TableRoom`: fewer than `MaxStreams` streams are open, without which it is false
(section 5). `FewRequestsFitTheTable` proves that premise where callers and one
heartbeat stay below `MaxStreams`. The bounds of the run `driver` are narrower than
that on purpose, for there the refusals of yamux must happen.

`PublicProxyProofs`, for any finite set of requests and any limit: `TypeCorrect`,
`GaugesAreBalanced`, `RefusalsAreDue`. The gauges equal the number of requests at
an await or dropped there; giving one back is taking one element from a finite set.
A window never counts more than the requests it let through since it started, and it
is not younger than a second when it refuses; an early clock reading only makes the
elapsed time saturate at zero.

`ClientProofs`, first about `BackgroundTunnel`, for any number of shells, names and
pids: `TypeCorrect`, `StartsOnce`, `RunningIsListed` and `ShownLineIsOwn`. A command acts
on what it read steps ago. The invariant says why that is still true of a settled name:
the commands about it are one start alone or any number of stops and lists (`Alone`), so
from the probe on the process a start or stop found or spawned is the only unsignalled
tunnel of the name, and there is none once it found so (`KnowsTunnel`); a pid cannot be
used again while the start that spawned it runs, for its child stays a zombie
(`KnowsChild`); the log is empty or the child's own (`KnowsLog`). A name that is settled
again satisfies all of it at once, since a command about it has only begun.

Then about `TunnelClient`, which is what runs inside such a process: the module
declares its variables and takes it as `Client`, and what `TunnelClient` assumes of
its constants is the theorems' hypothesis `ClientPremise`. For any clients, names and
connections, `ClientTypeCorrect`: types, including that the place of a connection both
ends have forgotten is free. Types alone do not carry that over a step: `Forget` frees
the place of a dead handler, so a dead handler must hold no name, and a displaced one
must not have held a second (`Leased`). `ServedOverItsOwnConnection`: a name leads
only to a connection whose client asked for that name, and of the clients that want
one name at most one is served, through takeovers, hang-ups and restarts.
`ServerIsNameLease`: every step of the server is a step of `NameLease`, or `Forget`
freeing a place (`PlaceFreed`), which only bounds the identifiers. Since
`ImplementsNameLease` shows that the handlers of `ControlPlane` keep to `NameLease`
too, the server these clients meet is the one modelled in detail.

`DashboardProofs`: `TypeCorrect` and `OneIntervalPerDashboard`, for any pages and
requests in flight. `showDashboard` and `showLogin` look at the interval's handle and
not at the screen, so the invariant ties the three together.

`ServerHostProofs`: `TypeCorrect`, `ClientsAreRouted`, `SettingsSurvive`. For the
routers the property is inductive with the types and the stages of a start; for the
settings, what was shown can be had again from the file under the environment of that
time, and nothing was shown before it was on disk.

`SelfUpdateProofs`, for any number of commands and any releases: `TypeCorrect` and
`BinaryLostOnlyInReplacement`; a command past the comparison knows its tag.
`NeverBelowBaseline`: an upgrade compares with its own process, which may be older than
the file it replaces, so that the file only moves upwards is false; but every process was
started from an installed file, and every release fetched is newer than the process that
fetched it. So nothing of this is below the version put in place by hand (`Above`), for
the comparison is transitive; among versions of three numbers it is their order.

`TunnelLinkProofs`, first about the codec: `FrameRoundTrip` and `NothingEarly`, for
every message of 1 to `MaxPayload` units and whatever follows its frame. That a payload
tells its message (`PayloadTells`) stands for JSON, of which no empty text parses;
a payload the length field cannot tell is left to the run. On these rest, for any
messages, any noise without the token and any number of streams, `InductiveInvariant`,
`TypeCorrect`, `ServiceGetsRequest` (`OnlyTheRequest`) and `Handover`
(`HandoverExact`).

The invariant tells the story of a stream (`Stream`): the words the server has written
to it follow from where its handler or probe stands, up to a reset; the first of them
have arrived, and the rest are on the connection in that order, each once (`Carries`),
also between frames of other streams and behind an `AuthRes` not yet read. How many of
them the client's task has read follows from where the task stands, so a request is
copied only after its marker, and the task of a heartbeat is never `connecting`. The
handshake (`Answer`, `ServerSide`, `ClientSide`) says what may come before those
frames: until the server serves, the connection holds at most one whole `AuthReq` or
what a stranger sends; and the server answers with one `AuthRes`, so the client, which
reads exactly one frame, leaves yamux's units untouched. `HandoverExact` speaks of
`Sent` and `Reached`, which are read off the state; that these are the story and its
first part (`SentIsStory`, `ReachedOfSent`) is the last step.

Only model-checked: all liveness, which rests on fairness and ENABLED and is out of
these provers' reach: `DisplacedSessionStops`, `DeadSlotFreed`, `HandlerSettles`,
`OpenStreamReturns`, `ServedForGood`, `LeavesItsName`, `NoLastingSplit`, `CommandsEnd`,
`StaleDashboardLeaves`, `ProbeEchoed` and `RequestDelivered`.

## 5. Disagreements noticed

The violated runs are listed in `PROJECT.json` under findings. Noticed while
reading and not given a run: `protocol/lib.rs:36` still says a reconnect may take
over only after consecutive missed heartbeats, while `registry.rs:31` says
registration no longer gates on it; `registry.rs:145` speaks of a "newer" session
although the later insert may carry the smaller number; `metrics.rs:61` calls
fixed windows sliding; `max_connections_per_client`
(`configs/server.example.yaml`) is never enforced; `README.md:113`
says the router file is removed on disconnect, while `server.rs:567` keeps it on
purpose; a refused check or view that arrives after a newer login succeeded shows the
login form although the session is valid (`web/app.js:36` and `:81`; `Dashboard`
contains these behaviours); two names that `sanitize_id` maps to one router file
overwrite each other's router (`server/traefik.rs:203`); a foreground tunnel removes the
pid file of a background tunnel of the same name when it returns
(`client/main.rs:411`), after which `stop` says it is not running; `http -d` is
documented as "exits when connected" (`README.md:137`) and also exits after 15 s
without a connection; the limiter's map and the
dashboard's session map are never pruned, and the limiter is asked for any `Host`
before the registry is.

More of the same kind. While yamux's stream table is full, heartbeats of a healthy
client count as missed (`server/server.rs:188`), so five ticks evict it;
`protocol/lib.rs:37` takes each miss for ten seconds without an answer. The gauges are not given back
when hyper drops a request whose public client left (`server/proxy.rs:144`), so
"Active Connections" (`web/index.html:62`) stays too high; `GaugesBalanced` counts
those requests. A background tunnel that exits at once is a zombie to the start that
spawned it, so its "exited early" branch (`client/main.rs:314`) is never taken and it
reports "still connecting". The reconnect delay is never reset after a long session
(`client/main.rs:420`), and the client waits for `AuthRes` without a timeout
(`client/client.rs:166`). `ZO_DOMAIN` counts only until `server.yaml` exists,
while the table at `README.md:125` does not say so; an empty `ZO_DOMAIN` is saved by a
first start (`server/main.rs:79`) and then refused by every `Server::run`
(`server/server.rs:282`). A crash while `server.yaml` is written leaves a file that
is refused until `--force` is given (`server/main.rs:88`). `uninstall` removes
`~/.zotunnel` with the pid files of tunnels that go on running
(`protocol/self_update.rs:311`). Parts of a version that do not parse are dropped, so
`1.0.0-rc.10` counts as 1.0.10 (`protocol/self_update.rs:111`). An upgrade that another
one overtook puts its older release in place of the newer one
(`protocol/self_update.rs:135`).

In the state of `driver_wedged` not only heartbeats wait: `open_stream` has no timeout
(`server/proxy.rs:147`), so while a silent peer keeps the backlog full the command in
hand, and every caller behind it, waits until the connection ends or the public client
gives up.

Background tunnels, all in `client/main.rs`. Two starts of one name that overlap both
pass the check at line 270, and leave two tunnels of which the file names one. If
`write_pid` fails (line 307), or the start is killed after line 305, the tunnel it
spawned runs on without a pid file, is not listed, cannot be stopped by name, and a
second one can be started beside it. `stop` sends SIGTERM and removes the file without
waiting (lines 256 to 260): until that process is dead a start can put a second tunnel
beside it, and if it is leaving by itself just then it removes its successor's file.
`BackgroundTunnel` contains all of these; they are what `unsettled` and `signalled` set
apart.

## 6. Plan

Done: every component above that keeps state between two steps, except the client's
configuration, and proofs about each of their modules. Left: when the client's
configuration, or statistics, come to decide anything, a module of their own.

## Not modelled

The client's configuration (`client/config.rs`): one file, read or rewritten within
one short command, which no other process writes. Of the dashboard: what the views
draw, the install script and downloads it serves. Monotone counters and the metrics
snapshot, which nothing decides upon. Of the server's settings: ports and log level,
and YAML syntax. The systemd functions and the server's uninstall, which nothing
calls. `scripts/install.sh` and the deployment files: shell and descriptions, run
once. Command-line parsing, log output, TLS, HTTP header rewriting and bodies.
