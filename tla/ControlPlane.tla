----------------------------- MODULE ControlPlane -----------------------------
(***************************************************************************)
(* The control channel of the tunnel server: one handler task per accepted *)
(* TCP connection (Server::handle_client), one yamux driver task per       *)
(* authenticated connection, and the registry that maps a public name to   *)
(* the session serving it.                                                 *)
(*                                                                         *)
(* Handlers run concurrently on a multi-threaded runtime.  A step of the   *)
(* model is what a handler does between two points where another task can  *)
(* see or change shared state; drawing a session number and inserting into *)
(* the map are two steps, because the counter is bumped before the map's   *)
(* shard is locked.  Stopping a displaced driver is asynchronous: abort()  *)
(* only marks the task, which ends at its next await.                      *)
(***************************************************************************)
EXTENDS Naturals

CONSTANTS
  Conns,          \* control connections; each is one TCP connection, used once
  Names,          \* client ids a client may ask for
  ReservedNames,  \* RESERVED_SUBDOMAINS
  None,           \* no connection, no name
  MaxMissed,      \* MAX_MISSED: missed heartbeats after which a driver gives up
  MaxRestarts     \* bound on server restarts

ASSUME ConnsAssumption == None \notin Conns
ASSUME NamesAssumption == None \notin Names /\ ReservedNames \subseteq Names
ASSUME MissedAssumption == MaxMissed \in Nat \ {0}
ASSUME RestartsAssumption == MaxRestarts \in Nat

VARIABLES
  pc,                  \* where each handler is in handle_client
  told,                \* the AuthRes each connection was sent
  client_id,           \* the name each authenticated connection asked for
  supports_heartbeat,  \* whether its client answers heartbeat probes
  session_id,          \* ClientEntry.session_id, once drawn
  next_session,        \* Registry.next_session
  clients,             \* Registry.clients: name -> connection registered for it
  driver,              \* the yamux driver task of each connection
  aborted,             \* abort() was called on that task
  missed_heartbeats,   \* its consecutive missed heartbeats
  routers,             \* names with a Traefik router file on disk
  restarts             \* server restarts so far

handlerVars  == <<pc, told, client_id, supports_heartbeat, session_id>>
registryVars == <<next_session, clients>>
driverVars   == <<driver, aborted, missed_heartbeats>>
vars == <<handlerVars, registryVars, driverVars, routers, restarts>>

(***************************************************************************)
(* "idle": not accepted yet.  "auth": waiting for AuthReq.  "spawned": the *)
(* client was told it is accepted and the driver runs.  "drawn": register  *)
(* has taken a session number.  "registered": in the map.  "serving":      *)
(* router written, awaiting the driver task.  "done": handler returned.    *)
(***************************************************************************)
Locations == {"idle", "auth", "spawned", "drawn", "registered", "serving", "done"}
Replies   == {"nothing", "accepted", "refused"}
Attending == {"registered", "serving"}

TypeOK ==
  /\ pc \in [Conns -> Locations]
  /\ told \in [Conns -> Replies]
  /\ client_id \in [Conns -> Names \cup {None}]
  /\ supports_heartbeat \in [Conns -> BOOLEAN]
  /\ session_id \in [Conns -> Nat]
  /\ next_session \in Nat \ {0}
  /\ clients \in [Names -> Conns \cup {None}]
  /\ driver \in [Conns -> {"none", "running", "ended"}]
  /\ aborted \in [Conns -> BOOLEAN]
  /\ missed_heartbeats \in [Conns -> 0 .. MaxMissed]
  /\ routers \subseteq Names
  /\ restarts \in 0 .. MaxRestarts

Init ==
  /\ pc = [n \in Conns |-> "idle"]
  /\ told = [n \in Conns |-> "nothing"]
  /\ client_id = [n \in Conns |-> None]
  /\ supports_heartbeat = [n \in Conns |-> FALSE]
  /\ session_id = [n \in Conns |-> 0]
  /\ next_session = 1
  /\ clients = [c \in Names |-> None]
  /\ driver = [n \in Conns |-> "none"]
  /\ aborted = [n \in Conns |-> FALSE]
  /\ missed_heartbeats = [n \in Conns |-> 0]
  /\ routers = {}
  /\ restarts = 0

-----------------------------------------------------------------------------
(* The handler task of connection n.                                       *)

(* accept_clients spawns handle_client for a new connection. *)
Accept(n) ==
  /\ pc[n] = "idle"
  /\ pc' = [pc EXCEPT ![n] = "auth"]
  /\ UNCHANGED <<told, client_id, supports_heartbeat, session_id,
                 registryVars, driverVars, routers, restarts>>

(* No AuthReq within ten seconds, an unreadable or a different message, a  *)
(* bad token (answered or not), or a reply that could not be written.      *)
AuthFails(n) ==
  /\ pc[n] = "auth"
  /\ pc' = [pc EXCEPT ![n] = "done"]
  /\ \E reply \in {"nothing", "refused"} : told' = [told EXCEPT ![n] = reply]
  /\ UNCHANGED <<client_id, supports_heartbeat, session_id,
                 registryVars, driverVars, routers, restarts>>

(* A valid token: the success reply goes out before anything is registered, *)
(* then the driver is spawned.                                             *)
AuthSucceeds(n, c, hb) ==
  /\ pc[n] = "auth"
  /\ pc' = [pc EXCEPT ![n] = "spawned"]
  /\ told' = [told EXCEPT ![n] = "accepted"]
  /\ client_id' = [client_id EXCEPT ![n] = c]
  /\ supports_heartbeat' = [supports_heartbeat EXCEPT ![n] = hb]
  /\ driver' = [driver EXCEPT ![n] = "running"]
  /\ UNCHANGED <<session_id, aborted, missed_heartbeats,
                 registryVars, routers, restarts>>

(* Fault: the refused handler forgets to stop the driver it spawned. *)
RefuseReserved_NoAbort(n) ==
  /\ pc[n] = "spawned"
  /\ client_id[n] \in ReservedNames
  /\ pc' = [pc EXCEPT ![n] = "done"]
  /\ UNCHANGED <<told, client_id, supports_heartbeat, session_id,
                 driverVars, registryVars, routers, restarts>>

(* register bails out on a reserved name; the handler aborts its driver. *)
RefuseReserved(n) ==
  /\ pc[n] = "spawned"
  /\ client_id[n] \in ReservedNames
  /\ pc' = [pc EXCEPT ![n] = "done"]
  /\ aborted' = [aborted EXCEPT ![n] = TRUE]
  /\ UNCHANGED <<told, client_id, supports_heartbeat, session_id,
                 driver, missed_heartbeats, registryVars, routers, restarts>>

(* next_session.fetch_add(1), outside any lock of the map. *)
DrawSession(n) ==
  /\ pc[n] = "spawned"
  /\ client_id[n] \notin ReservedNames
  /\ pc' = [pc EXCEPT ![n] = "drawn"]
  /\ session_id' = [session_id EXCEPT ![n] = next_session]
  /\ next_session' = next_session + 1
  /\ UNCHANGED <<told, client_id, supports_heartbeat, clients,
                 driverVars, routers, restarts>>

(* Fault: the displaced driver is left running. *)
Insert_NoAbort(n) ==
  /\ pc[n] = "drawn"
  /\ pc' = [pc EXCEPT ![n] = "registered"]
  /\ clients' = [clients EXCEPT ![client_id[n]] = n]
  /\ UNCHANGED <<told, client_id, supports_heartbeat, session_id, next_session,
                 driverVars, routers, restarts>>

(* Fault: a name is taken over only once its session is dead. *)
Insert_WaitsForHolder(n) ==
  /\ pc[n] = "drawn"
  /\ clients[client_id[n]] # None => driver[clients[client_id[n]]] # "running"
  /\ pc' = [pc EXCEPT ![n] = "registered"]
  /\ clients' = [clients EXCEPT ![client_id[n]] = n]
  /\ aborted' = [m \in Conns |-> aborted[m] \/ m = clients[client_id[n]]]
  /\ UNCHANGED <<told, client_id, supports_heartbeat, session_id, next_session,
                 driver, missed_heartbeats, routers, restarts>>

(* clients.entry(name) under the shard lock: take the slot, whoever had it, *)
(* and abort the driver of the entry that was displaced.                   *)
Insert(n) ==
  /\ pc[n] = "drawn"
  /\ pc' = [pc EXCEPT ![n] = "registered"]
  /\ clients' = [clients EXCEPT ![client_id[n]] = n]
  /\ aborted' = [m \in Conns |-> aborted[m] \/ m = clients[client_id[n]]]
  /\ UNCHANGED <<told, client_id, supports_heartbeat, session_id, next_session,
                 driver, missed_heartbeats, routers, restarts>>

(* Fault: a failed router write makes the handler return at once. *)
AddRoute_FailureReturns(n) ==
  /\ pc[n] = "registered"
  /\ \/ /\ pc' = [pc EXCEPT ![n] = "serving"]
        /\ routers' = routers \cup {client_id[n]}
     \/ /\ pc' = [pc EXCEPT ![n] = "done"]
        /\ UNCHANGED routers
  /\ UNCHANGED <<told, client_id, supports_heartbeat, session_id,
                 registryVars, driverVars, restarts>>

(* add_client rewrites the router file; its failure is only logged, and    *)
(* without Traefik there is no file.                                       *)
AddRoute(n) ==
  /\ pc[n] = "registered"
  /\ pc' = [pc EXCEPT ![n] = "serving"]
  /\ routers' \in {routers, routers \cup {client_id[n]}}
  /\ UNCHANGED <<told, client_id, supports_heartbeat, session_id,
                 registryVars, driverVars, restarts>>

(* Fault: the slot is removed whoever holds it. *)
HoldsSlot_AnySession(n) == clients[client_id[n]] # None

(* Fault: the slot is removed only from an older session. *)
HoldsSlot_OlderOnly(n) ==
  /\ clients[client_id[n]] # None
  /\ session_id[clients[client_id[n]]] < session_id[n]

(* unregister removes the slot only while it holds this very session. *)
HoldsSlot(n) ==
  /\ clients[client_id[n]] # None
  /\ session_id[clients[client_id[n]]] = session_id[n]

(* driver_task.await returned: the handler gives its slot back and ends.   *)
(* The router file stays.                                                  *)
Unregister(n) ==
  /\ pc[n] = "serving"
  /\ driver[n] = "ended"
  /\ pc' = [pc EXCEPT ![n] = "done"]
  /\ clients' = IF HoldsSlot(n)
                THEN [clients EXCEPT ![client_id[n]] = None]
                ELSE clients
  /\ UNCHANGED <<told, client_id, supports_heartbeat, session_id, next_session,
                 driverVars, routers, restarts>>

-----------------------------------------------------------------------------
(* The driver task of connection n.  Module YamuxDriver opens this box.    *)

EndDriver(n) == driver' = [driver EXCEPT ![n] = "ended"]

(* A probe was answered. *)
HeartbeatOk(n) ==
  /\ driver[n] = "running"
  /\ supports_heartbeat[n]
  /\ missed_heartbeats' = [missed_heartbeats EXCEPT ![n] = 0]
  /\ UNCHANGED <<handlerVars, registryVars, driver, aborted, routers, restarts>>

(* Fault: the driver gives up one miss too late. *)
HeartbeatMissed_OneLate(n) ==
  /\ driver[n] = "running"
  /\ supports_heartbeat[n]
  /\ missed_heartbeats' = [missed_heartbeats EXCEPT ![n] = @ + 1]
  /\ IF missed_heartbeats[n] >= MaxMissed THEN EndDriver(n) ELSE UNCHANGED driver
  /\ UNCHANGED <<handlerVars, registryVars, aborted, routers, restarts>>

(* A probe failed or timed out; at MAX_MISSED the driver leaves its loop. *)
HeartbeatMissed(n) ==
  /\ driver[n] = "running"
  /\ supports_heartbeat[n]
  /\ missed_heartbeats' = [missed_heartbeats EXCEPT ![n] = @ + 1]
  /\ IF missed_heartbeats[n] + 1 >= MaxMissed THEN EndDriver(n)
                                              ELSE UNCHANGED driver
  /\ UNCHANGED <<handlerVars, registryVars, aborted, routers, restarts>>

(* The peer closed, TCP keepalive gave up, or yamux reported an error. *)
ConnectionLost(n) ==
  /\ driver[n] = "running"
  /\ EndDriver(n)
  /\ UNCHANGED <<handlerVars, registryVars, aborted, missed_heartbeats,
                 routers, restarts>>

(* The runtime drops an aborted task at its next await. *)
DriverCancelled(n) ==
  /\ driver[n] = "running"
  /\ aborted[n]
  /\ EndDriver(n)
  /\ UNCHANGED <<handlerVars, registryVars, aborted, missed_heartbeats,
                 routers, restarts>>

-----------------------------------------------------------------------------
(* The process stops, by ctrl-c or a crash, and a new one starts: every    *)
(* task is gone, the registry is new, the router files are still there.    *)
ServerRestarts ==
  /\ restarts < MaxRestarts
  /\ restarts' = restarts + 1
  /\ pc' = [n \in Conns |-> IF pc[n] = "idle" THEN "idle" ELSE "done"]
  /\ driver' = [n \in Conns |-> IF driver[n] = "running" THEN "ended" ELSE driver[n]]
  /\ clients' = [c \in Names |-> None]
  /\ next_session' = 1
  /\ UNCHANGED <<told, client_id, supports_heartbeat, session_id,
                 aborted, missed_heartbeats, routers>>

(* What the handler of n does next once it need not wait for the client. *)
Proceed(n) ==
  RefuseReserved(n) \/ DrawSession(n) \/ Insert(n) \/ AddRoute(n) \/ Unregister(n)

Authenticate(n) ==
  AuthFails(n) \/ \E c \in Names, hb \in BOOLEAN : AuthSucceeds(n, c, hb)

Handler(n) == Accept(n) \/ Authenticate(n) \/ Proceed(n)

Driver(n) ==
  HeartbeatOk(n) \/ HeartbeatMissed(n) \/ ConnectionLost(n) \/ DriverCancelled(n)

Next == (\E n \in Conns : Handler(n) \/ Driver(n)) \/ ServerRestarts

Spec == Init /\ [][Next]_vars

(***************************************************************************)
(* Fairness.  A runnable task is eventually polled, the wait for AuthReq   *)
(* is cut short by a ten-second timeout, and an aborted task is dropped.   *)
(* No client, network or heartbeat step is assumed to happen.              *)
(***************************************************************************)
Fairness ==
  \A n \in Conns :
    /\ WF_vars(Authenticate(n))
    /\ WF_vars(Proceed(n))
    /\ WF_vars(DriverCancelled(n))

FairSpec == Spec /\ Fairness

-----------------------------------------------------------------------------
(* Properties.                                                             *)

(* A handler past registration that was not told to stop holds the name it *)
(* asked for: no tunnel is orphaned, neither by a takeover nor by the late *)
(* unregister of the session it replaced.                                  *)
SoleServer ==
  \A n \in Conns :
    pc[n] \in Attending /\ ~aborted[n] => clients[client_id[n]] = n

(* Every slot has a handler that asked for that name and is still there to *)
(* give it back: no name is wedged by an entry nobody will remove.         *)
AttendedSlot ==
  \A c \in Names :
    clients[c] # None =>
      /\ pc[clients[c]] \in Attending
      /\ client_id[clients[c]] = c
      /\ ~aborted[clients[c]]

(* Session numbers tell the sessions of one server process apart, which is *)
(* all that unregister relies on.                                          *)
Numbered == {"drawn"} \cup Attending

DistinctSessions ==
  \A m, n \in Conns :
    /\ pc[m] \in Numbered
    /\ pc[n] \in Numbered
    /\ session_id[m] = session_id[n]
    => m = n

(* What is true of a handler and its driver at each location. *)
HandlerShape ==
  \A n \in Conns :
    /\ pc[n] \in {"idle", "auth"} => driver[n] = "none"
    /\ pc[n] \in {"idle", "auth", "spawned", "drawn"} => ~aborted[n]
    /\ pc[n] \notin {"idle", "auth", "done"} => client_id[n] \in Names
    /\ pc[n] \in Numbered => session_id[n] < next_session
    /\ driver[n] # "ended" => missed_heartbeats[n] < MaxMissed

(* The inductive invariant behind SoleServer, AttendedSlot and the         *)
(* refinement: unregister compares numbers, so the slot's holder, the      *)
(* number it was drawn and its place in handle_client must agree.          *)
IInv ==
  /\ TypeOK
  /\ HandlerShape
  /\ DistinctSessions
  /\ AttendedSlot
  /\ SoleServer

-----------------------------------------------------------------------------
(* The registry keeps the promises of NameLease: a slot's holder is the    *)
(* lease, a running driver is a live session, and a session that was       *)
(* displaced or whose handler returned is spent.                           *)
LiveSessions  == {n \in Conns : driver[n] = "running"}
SpentSessions == {n \in Conns : aborted[n] \/ pc[n] = "done"}

Lease == INSTANCE NameLease
           WITH Sessions <- Conns, owner <- clients,
                live <- LiveSessions, spent <- SpentSessions

KeepsLeases == Lease!LeaseSpec

(* A displaced session's driver really stops, although abort only marks it. *)
DisplacedSessionStops == Lease!SpentStops

(* A slot whose driver died is given back or taken over. *)
DeadSlotFreed == Lease!DeadHolderLosesName

(* A handler never gets stuck half-way: once its connection is accepted it *)
(* ends up serving or returns, and an accepted displaced one returns.      *)
HandlerSettles ==
  \A n \in Conns :
    /\ (pc[n] \notin {"idle", "serving", "done"}) ~> (pc[n] \in {"serving", "done"})
    /\ (pc[n] = "serving" /\ aborted[n]) ~> (pc[n] = "done")
-----------------------------------------------------------------------------
(* What the repository's comments say and the code does not do; a run of   *)
(* its own refutes it.                                                     *)

(* config.rs: reserved subdomains "cannot be used as client IDs", and      *)
(* AuthRes carries the "Assigned subdomain route".  A client that asks for *)
(* a reserved name is told success and that route, and is then dropped     *)
(* without ever having been registered.                                    *)
AcceptedIsRegistered ==
  [][\A n \in Conns :
       told[n] = "accepted" /\ pc[n] # "done" /\ pc'[n] = "done"
         => pc[n] \in Attending]_vars
=============================================================================
