----------------------------- MODULE TunnelClient -----------------------------
(***************************************************************************)
(* Clients that keep a public name served: run_with_reconnect, one         *)
(* connection attempt (run_cancellable, run_session_with_status).          *)
(*                                                                         *)
(* The server is the abstract NameLease with what a client sees of a       *)
(* handler: the reply, and the end of the connection.  A handler that read *)
(* an AuthReq goes on to register even if its client hung up meanwhile, so *)
(* an old attempt can take the name from a newer one.  Sleeping between    *)
(* attempts takes some time that ends; how long is abstracted, and the     *)
(* status each step reports is BackgroundTunnel's.                         *)
(***************************************************************************)
EXTENDS Naturals

CONSTANTS
  Clients,       \* client processes
  Names,         \* public names
  client_id,     \* client_id[p] is the name client p asks for
  Sessions,      \* connections that can exist at a time
  None           \* no session, no client

ASSUME ClientAssumption ==
  /\ client_id \in [Clients -> Names]
  /\ None \notin Sessions \cup Clients

VARIABLES
  owner, live, spent,   \* the registry, as NameLease describes it
  stage,                \* how far the server's handler of a connection is
  from,                 \* the client that opened it
  down,                 \* connections closed by a side or cut by the network
  pc,                   \* where each client is in run_with_reconnect
  conn,                 \* its connection
  cancelled,            \* its CancellationToken (Ctrl-C)
  calm                  \* from here on network and server behave

registryVars == <<owner, live, spent>>
serverVars   == <<registryVars, stage, from>>
clientVars   == <<pc, conn, cancelled>>
vars == <<serverVars, down, clientVars, calm>>

Lease == INSTANCE NameLease

InUse == {s \in Sessions : stage[s] # "free"}

(* The success reply left the server. *)
Granted(s) == stage[s] \in {"granted", "opened", "registered"}

TypeOK ==
  /\ Lease!LeaseTypeOK
  /\ stage \in [Sessions -> {"free", "asked", "refused", "granted", "opened", "registered"}]
  /\ from \in [Sessions -> Clients \cup {None}]
  /\ \A s \in Sessions : s \in InUse <=> from[s] # None
  /\ down \cup live \cup spent \cup Lease!Owners \subseteq InUse
  /\ pc \in [Clients -> {"idle", "connecting", "waiting", "serving", "asleep", "exited"}]
  /\ conn \in [Clients -> InUse \cup {None}]
  /\ \A p \in Clients : conn[p] # None <=> pc[p] \in {"waiting", "serving"}
  /\ cancelled \in [Clients -> BOOLEAN]
  /\ calm \in BOOLEAN

Init ==
  /\ Lease!LeaseInit
  /\ stage = [s \in Sessions |-> "free"]
  /\ from = [s \in Sessions |-> None]
  /\ down = {}
  /\ pc = [p \in Clients |-> "idle"]
  /\ conn = [p \in Clients |-> None]
  /\ cancelled = [p \in Clients |-> FALSE]
  /\ calm = FALSE

-----------------------------------------------------------------------------
(* The client's connection loop.                                           *)

GoTo(p, l) == pc' = [pc EXCEPT ![p] = l]

(* The connection is dropped, whatever it was doing. *)
HangUp(p) ==
  /\ conn' = [conn EXCEPT ![p] = None]
  /\ down' = down \cup ({conn[p]} \ {None})

(* The next round of the loop, unless the user stopped it. *)
Attempt(p) ==
  /\ pc[p] = "idle"
  /\ ~cancelled[p]
  /\ GoTo(p, "connecting")
  /\ UNCHANGED <<serverVars, down, conn, cancelled, calm>>

(* TCP and TLS are up and the AuthReq is written. *)
Connect(p) ==
  /\ pc[p] = "connecting"
  /\ \E s \in Sessions \ InUse :
       /\ stage' = [stage EXCEPT ![s] = "asked"]
       /\ from' = [from EXCEPT ![s] = p]
       /\ conn' = [conn EXCEPT ![p] = s]
  /\ GoTo(p, "waiting")
  /\ UNCHANGED <<registryVars, down, cancelled, calm>>

(* Fault: the connection of a failed attempt is kept. *)
Fail_KeepsConnection(p) ==
  /\ GoTo(p, "asleep")
  /\ UNCHANGED <<serverVars, down, conn, cancelled, calm>>

(* An attempt ends with an error and the client sleeps before the next. *)
Fail(p) ==
  /\ GoTo(p, "asleep")
  /\ HangUp(p)
  /\ UNCHANGED <<serverVars, cancelled, calm>>

(* No connection, or the AuthReq could not be written. *)
ConnectFails(p) ==
  /\ pc[p] = "connecting"
  /\ ~calm
  /\ Fail(p)

(* AuthRes with success, perhaps the last thing the connection delivered. *)
Accepted(p) ==
  /\ pc[p] = "waiting"
  /\ Granted(conn[p])
  /\ GoTo(p, "serving")
  /\ UNCHANGED <<serverVars, down, conn, cancelled, calm>>

(* AuthRes without success, or the connection ended instead of a reply. *)
NotAccepted(p) ==
  /\ pc[p] = "waiting"
  /\ stage[conn[p]] = "refused" \/ conn[p] \in down
  /\ Fail(p)

(* Fault: the end of the session is taken for a pause. *)
SessionEnds_Ignored(p) ==
  /\ pc[p] = "serving"
  /\ conn[p] \in down
  /\ UNCHANGED vars

(* poll_next_inbound yields an error or nothing: the session is over, which *)
(* is no error.                                                            *)
SessionEnds(p) ==
  /\ pc[p] = "serving"
  /\ conn[p] \in down
  /\ GoTo(p, "asleep")
  /\ HangUp(p)
  /\ UNCHANGED <<serverVars, cancelled, calm>>

(* The sleep is over. *)
Wake(p) ==
  /\ pc[p] = "asleep"
  /\ GoTo(p, "idle")
  /\ UNCHANGED <<serverVars, down, conn, cancelled, calm>>

(* The cancelled branch of run_cancellable's select, or of the sleep, or   *)
(* the test at the head of the loop; then the command returns.             *)
Quit(p) ==
  /\ cancelled[p]
  /\ pc[p] # "exited"
  /\ GoTo(p, "exited")
  /\ HangUp(p)
  /\ UNCHANGED <<serverVars, cancelled, calm>>

Run(p) ==
  \/ Attempt(p) \/ Connect(p) \/ Accepted(p) \/ NotAccepted(p)
  \/ SessionEnds(p) \/ Wake(p) \/ Quit(p)

-----------------------------------------------------------------------------
(* The user.                                                               *)

(* Ctrl-C: a task of its own cancels the token. *)
Interrupt(p) ==
  /\ pc[p] # "exited"
  /\ ~cancelled[p]
  /\ cancelled' = [cancelled EXCEPT ![p] = TRUE]
  /\ UNCHANGED <<serverVars, down, pc, conn, calm>>

(* SIGTERM, for which there is no handler: the process is gone. *)
Terminate(p) ==
  /\ pc[p] # "exited"
  /\ GoTo(p, "exited")
  /\ HangUp(p)
  /\ UNCHANGED <<serverVars, cancelled, calm>>

-----------------------------------------------------------------------------
(* The server's handler of a connection, seen from outside.                *)

Stage(s, l) == stage' = [stage EXCEPT ![s] = l]

(* The AuthReq is read and answered.  Before calm the server may hold      *)
(* another token; the handler of a refused client returns.                 *)
Answer(s) ==
  /\ stage[s] = "asked"
  /\ s \notin spent
  /\ \/ /\ Stage(s, "granted")
        /\ UNCHANGED <<registryVars, down>>
     \/ /\ ~calm
        /\ Stage(s, "refused")
        /\ Lease!Discard(s)
        /\ down' = down \cup {s}
  /\ UNCHANGED <<from, clientVars, calm>>

(* The driver of the session starts. *)
StartDriver(s) ==
  /\ stage[s] = "granted"
  /\ Lease!Open(s)
  /\ Stage(s, "opened")
  /\ UNCHANGED <<from, down, clientVars, calm>>

(* registry.register: the last one wins. *)
Register(s) ==
  /\ stage[s] = "opened"
  /\ Lease!Claim(client_id[from[s]], s)
  /\ Stage(s, "registered")
  /\ UNCHANGED <<from, down, clientVars, calm>>

(* Reading the AuthReq or writing the reply failed. *)
GiveUp(s) ==
  /\ stage[s] = "asked"
  /\ s \in down
  /\ Lease!Discard(s)
  /\ UNCHANGED <<stage, from, down, clientVars, calm>>

EndDriver(s) ==
  /\ Lease!Close(s)
  /\ down' = down \cup {s}
  /\ UNCHANGED <<stage, from, clientVars, calm>>

(* Fault: a displaced driver is not aborted. *)
DriverEnds_HangUpOnly(s) ==
  /\ s \in down
  /\ EndDriver(s)

(* Fault: only an abort ends the driver, no hang-up and no heartbeat. *)
DriverEnds_AbortOnly(s) ==
  /\ s \in spent
  /\ EndDriver(s)

(* The driver was aborted for another session, or notices that the client  *)
(* is gone.                                                                *)
DriverEnds(s) ==
  /\ s \in spent \cup down
  /\ EndDriver(s)

(* The handler awaited its driver and frees the name it still holds. *)
Unregister(s) ==
  /\ \E c \in Names : owner[c] = s /\ Lease!Release(c)
  /\ UNCHANGED <<stage, from, down, clientVars, calm>>

(* Both ends are done with the connection and its place is used again. *)
Forget(s) ==
  /\ s \in (spent \cap down) \ live
  /\ \A p \in Clients : conn[p] # s
  /\ Stage(s, "free")
  /\ from' = [from EXCEPT ![s] = None]
  /\ spent' = spent \ {s}
  /\ down' = down \ {s}
  /\ UNCHANGED <<owner, live, clientVars, calm>>

Handle(s) ==
  \/ Answer(s) \/ StartDriver(s) \/ Register(s) \/ GiveUp(s)
  \/ DriverEnds(s) \/ Unregister(s) \/ Forget(s)

-----------------------------------------------------------------------------
(* Faults, until calm.                                                     *)

(* The network cuts a connection; each side learns of it in its own time. *)
Cut(s) ==
  /\ ~calm
  /\ s \in InUse \ down
  /\ down' = down \cup {s}
  /\ UNCHANGED <<serverVars, clientVars, calm>>

(* The server ends a session of its own accord: missed heartbeats. *)
Evict(s) ==
  /\ ~calm
  /\ EndDriver(s)

(* The server restarts and knows none of its connections any more. *)
Restart ==
  /\ ~calm
  /\ Lease!Reset
  /\ spent' = InUse
  /\ down' = InUse
  /\ UNCHANGED <<stage, from, clientVars, calm>>

CalmDown ==
  /\ ~calm
  /\ calm' = TRUE
  /\ UNCHANGED <<serverVars, down, clientVars>>

Next ==
  \/ \E p \in Clients :
       Run(p) \/ ConnectFails(p) \/ Interrupt(p) \/ Terminate(p)
  \/ \E s \in Sessions : Handle(s) \/ Cut(s) \/ Evict(s)
  \/ Restart \/ CalmDown

(* Every client and every handler goes on; nobody has to press Ctrl-C, and *)
(* no fault has to happen or to end.                                       *)
Fairness ==
  /\ \A p \in Clients : WF_vars(Run(p))
  /\ \A s \in Sessions : WF_vars(Handle(s))

Spec == Init /\ [][Next]_vars /\ Fairness

-----------------------------------------------------------------------------
(* Properties.                                                             *)

Served(p) == pc[p] = "serving" /\ owner[client_id[p]] = conn[p] /\ conn[p] \in live

HasRival(p) ==
  \E q \in Clients \ {p} : client_id[q] = client_id[p] /\ pc[q] # "exited"

(* Once faults have stopped, a running client that is alone in asking for  *)
(* its name ends up serving it for good: no old attempt of its own keeps   *)
(* displacing it and no stale session keeps the name.                      *)
ServedForGood ==
  <>calm => \A p \in Clients : <>[](Served(p) \/ pc[p] = "exited" \/ HasRival(p))

(* A client that is gone leaves its name for good, even if its handler     *)
(* registers it only after it hung up.                                     *)
LeavesItsName ==
  \A p \in Clients :
    <>[](pc[p] = "exited" => \A s \in Lease!Owners : from[s] # p)

(* Two clients of one name never both go on believing that they serve it:  *)
(* the displaced one learns that its session is over.                      *)
NoLastingSplit ==
  \A p, q \in Clients :
    (p # q /\ client_id[p] = client_id[q]) => []<>~(pc[p] = "serving" /\ pc[q] = "serving")
=============================================================================
