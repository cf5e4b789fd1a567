------------------------------ MODULE PublicProxy ------------------------------
(***************************************************************************)
(* The public HTTP side of the server: a request is routed by its Host     *)
(* header, passes the rate limiter of its name, picks the session that     *)
(* holds the name and is forwarded over a stream of that session           *)
(* (serve_http, handle_proxy_request, RateLimiter::check).                 *)
(*                                                                         *)
(* The registry it reads is the abstract NameLease, which ControlPlane     *)
(* implements: between the lookup and the answer the name may pass to      *)
(* another session and the session looked up may die.  A step is what a    *)
(* request's task does between two awaits, or between two accesses to      *)
(* state it shares; the limiter reads the clock before it locks its entry. *)
(***************************************************************************)
EXTENDS Naturals, FiniteSets

CONSTANTS
  Requests,      \* public requests
  Sessions,      \* tunnel sessions
  Names,         \* public names
  None,          \* no session, no name, no instant
  Limit,         \* rate_limit.requests_per_second; 0 switches the limiter off
  Second,        \* clock units in a second
  LastInstant    \* bound: the clock stops here

ASSUME ProxyAssumption ==
  /\ IsFiniteSet(Requests)
  /\ None \notin Requests \cup Sessions \cup Names \cup Nat
  /\ {Limit, LastInstant} \subseteq Nat /\ Second \in Nat \ {0}

VARIABLES
  clients, live, spent,   \* the registry, as NameLease describes it
  clock,                  \* time, in fractions of a second
  pc,                     \* where each request is in handle_proxy_request
  name,                   \* the name it is for
  stamp,                  \* the limiter's `now` for it
  passed_at,              \* when the limiter let it through
  via,                    \* the ClientEntry it looked up
  counters,               \* RateLimiter.counters
  active_connections,     \* Metrics.active_connections
  active_streams          \* ClientMetrics.active_streams

registryVars == <<clients, live, spent>>
gaugeVars    == <<active_connections, active_streams>>
requestVars  == <<pc, name, stamp, passed_at, via>>
vars == <<registryVars, clock, requestVars, counters, gaugeVars>>

Registry == INSTANCE NameLease WITH owner <- clients

(***************************************************************************)
(* A request waits for the tunnel while "opening" a stream, "preparing" it *)
(* (type marker and HTTP handshake) and "sending" (until the response      *)
(* head).  The other locations after "allowed" are its outcomes.           *)
(***************************************************************************)
Waiting  == {"opening", "preparing", "sending"}
Outcomes == {"dashboard", "hint", "limited", "offline", "failed", "answered", "dropped"}
Instants == 0 .. LastInstant

In(states) == {q \in Requests : pc[q] \in states}

TypeOK ==
  /\ Registry!LeaseTypeOK
  /\ clock \in Instants
  /\ pc \in [Requests -> {"idle", "routed", "stamped", "allowed"} \cup Waiting \cup Outcomes]
  /\ name \in [Requests -> Names \cup {None}]
  /\ stamp \in [Requests -> Instants \cup {None}]
  /\ passed_at \in [Requests -> Instants \cup {None}]
  /\ via \in [Requests -> Sessions \cup {None}]
  /\ counters \in [Names -> [start : Instants, count : 0 .. Limit] \cup {None}]
  /\ active_connections \in Nat
  /\ active_streams \in [Sessions -> Nat]

Init ==
  /\ Registry!LeaseInit
  /\ clock = 0
  /\ pc = [q \in Requests |-> "idle"]
  /\ name = [q \in Requests |-> None]
  /\ stamp = [q \in Requests |-> None]
  /\ passed_at = [q \in Requests |-> None]
  /\ via = [q \in Requests |-> None]
  /\ counters = [c \in Names |-> None]
  /\ active_connections = 0
  /\ active_streams = [s \in Sessions |-> 0]

-----------------------------------------------------------------------------
(* Routing and rate limiting.                                              *)

GoTo(q, l) == pc' = [pc EXCEPT ![q] = l]

(* serve_http: requests for the dashboard's or the bare domain's host never *)
(* reach the proxy.                                                        *)
ToDashboard(q) ==
  /\ pc[q] = "idle"
  /\ GoTo(q, "dashboard")
  /\ UNCHANGED <<registryVars, clock, name, stamp, passed_at, via, counters, gaugeVars>>

(* extract_routing: the name in the Host header, or a hint to the caller.  *)
Route(q) ==
  /\ pc[q] = "idle"
  /\ \/ /\ GoTo(q, "routed")
        /\ \E c \in Names : name' = [name EXCEPT ![q] = c]
     \/ /\ GoTo(q, "hint")
        /\ UNCHANGED name
  /\ UNCHANGED <<registryVars, clock, stamp, passed_at, via, counters, gaugeVars>>

(* Instant::now(), taken before the entry of the name is locked. *)
ReadClock(q) ==
  /\ pc[q] = "routed"
  /\ GoTo(q, "stamped")
  /\ stamp' = [stamp EXCEPT ![q] = clock]
  /\ UNCHANGED <<registryVars, clock, name, passed_at, via, counters, gaugeVars>>

(* entry(key).or_insert((now, 0)) *)
EntryFor(q) ==
  IF counters[name[q]] = None THEN [start |-> stamp[q], count |-> 0] ELSE counters[name[q]]

(* duration_since saturates to zero when another request's later reading   *)
(* already started the window.                                             *)
Elapsed(from, to) == IF to >= from THEN to - from ELSE 0

(* Fault: the window is restarted but goes on counting from the old one. *)
Counted_KeepsCount(q) ==
  LET e == EntryFor(q) IN
  IF Elapsed(e.start, stamp[q]) >= Second
  THEN [start |-> stamp[q], count |-> e.count + 1]
  ELSE [e EXCEPT !.count = @ + 1]

(* The entry after one more request: a window of its own if the old one is *)
(* over, else one more in the window.                                      *)
Counted(q) ==
  LET e == EntryFor(q) IN
  IF Elapsed(e.start, stamp[q]) >= Second
  THEN [start |-> stamp[q], count |-> 1]
  ELSE [e EXCEPT !.count = @ + 1]

(* Fault: the limit is compared after counting. *)
Allows_OffByOne(q) == Limit = 0 \/ Counted(q).count <= Limit + 1

(* RateLimiter::check answers true. *)
Allows(q) == Limit = 0 \/ Counted(q).count <= Limit

CheckRate(q) ==
  /\ pc[q] = "stamped"
  /\ IF Allows(q)
     THEN /\ GoTo(q, "allowed")
          /\ passed_at' = [passed_at EXCEPT ![q] = clock]
          /\ counters' = IF Limit = 0 THEN counters
                         ELSE [counters EXCEPT ![name[q]] = Counted(q)]
     ELSE /\ GoTo(q, "limited")
          /\ UNCHANGED <<passed_at, counters>>
  /\ UNCHANGED <<registryVars, clock, name, stamp, via, gaugeVars>>

-----------------------------------------------------------------------------
(* Forwarding.                                                             *)

(* registry.get, and the gauges once there is an entry. *)
Lookup(q) ==
  LET s == clients[name[q]] IN
  /\ pc[q] = "allowed"
  /\ IF s = None
     THEN /\ GoTo(q, "offline")
          /\ UNCHANGED <<via, gaugeVars>>
     ELSE /\ GoTo(q, "opening")
          /\ via' = [via EXCEPT ![q] = s]
          /\ active_connections' = active_connections + 1
          /\ active_streams' = [active_streams EXCEPT ![s] = @ + 1]
  /\ UNCHANGED <<registryVars, clock, name, stamp, passed_at, counters>>

(* The session's driver granted a stream; then marker and handshake went   *)
(* through.  Only a driver that still runs can do that.                    *)
Advance(q) ==
  /\ via[q] \in live
  /\ \/ pc[q] = "opening" /\ GoTo(q, "preparing")
     \/ pc[q] = "preparing" /\ GoTo(q, "sending")
  /\ UNCHANGED <<registryVars, clock, name, stamp, passed_at, via, counters, gaugeVars>>

(* One decrement of each gauge, on every way out of the handler. *)
Settle(q, outcome) ==
  /\ GoTo(q, outcome)
  /\ active_connections' = active_connections - 1
  /\ active_streams' = [active_streams EXCEPT ![via[q]] = @ - 1]
  /\ UNCHANGED <<registryVars, clock, name, stamp, passed_at, via, counters>>

(* The response head arrived. *)
Respond(q) ==
  /\ pc[q] = "sending"
  /\ via[q] \in live
  /\ Settle(q, "answered")

(* Fault: an early return that forgets the gauges. *)
TunnelFails_NoDecrement(q) ==
  /\ pc[q] \in Waiting
  /\ GoTo(q, "failed")
  /\ UNCHANGED <<registryVars, clock, name, stamp, passed_at, via, counters, gaugeVars>>

(* open_stream, the marker, the handshake, building the request or sending *)
(* it failed.                                                              *)
TunnelFails(q) ==
  /\ pc[q] \in Waiting
  /\ Settle(q, "failed")

(* The public client disconnects: hyper drops the handler's future at the  *)
(* await it is in, and nothing after that await runs.                      *)
ClientLeaves(q) ==
  /\ pc[q] \in Waiting
  /\ GoTo(q, "dropped")
  /\ UNCHANGED <<registryVars, clock, name, stamp, passed_at, via, counters, gaugeVars>>

-----------------------------------------------------------------------------
Tick ==
  /\ clock < LastInstant
  /\ clock' = clock + 1
  /\ UNCHANGED <<registryVars, requestVars, counters, gaugeVars>>

(* Sessions come, go and take names over as the lease allows. *)
RegistryStep ==
  /\ Registry!LeaseNext
  /\ UNCHANGED <<clock, requestVars, counters, gaugeVars>>

Request(q) ==
  \/ ToDashboard(q) \/ Route(q) \/ ReadClock(q) \/ CheckRate(q) \/ Lookup(q)
  \/ Advance(q) \/ Respond(q) \/ TunnelFails(q) \/ ClientLeaves(q)

Next == (\E q \in Requests : Request(q)) \/ RegistryStep \/ Tick

Spec == Init /\ [][Next]_vars

-----------------------------------------------------------------------------
(* Properties.                                                             *)

(* The limiter refuses a request only when its name really had as many     *)
(* requests let through since one second before the refused one read the   *)
(* clock: a slow reading of the clock never locks a name out.              *)
RefusedOnlyWhenBusy ==
  \A q \in In({"limited"}) :
    Limit <= Cardinality({p \in Requests :
                            /\ name[p] = name[q]
                            /\ passed_at[p] # None
                            /\ passed_at[p] + Second > stamp[q]})

(* Every way out of the handler gives the gauges back exactly once; they   *)
(* differ from the requests in flight only by the futures dropped at an    *)
(* await.  So no gauge ever wraps below zero.                              *)
GaugesBalanced ==
  LET held == In(Waiting \cup {"dropped"}) IN
  /\ active_connections = Cardinality(held)
  /\ \A s \in Sessions : active_streams[s] = Cardinality({q \in held : via[q] = s})
=============================================================================
