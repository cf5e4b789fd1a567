----------------------------- MODULE TraefikRoutes -----------------------------
(***************************************************************************)
(* The router files the server keeps in Traefik's dynamic directory        *)
(* (TraefikManager): one shared base file, and one file per client whose   *)
(* name is the client's with every other character replaced.  Each client  *)
(* handler calls add_client for itself, on its own thread: it reads the    *)
(* file, compares it with what it should hold, and writes it if it         *)
(* differs.  std::fs::write truncates the file before it fills it, either  *)
(* can fail, and the process can die in between.                           *)
(***************************************************************************)
EXTENDS Naturals, Sequences

CONSTANTS
  Handlers,    \* tasks running handle_client
  Names,       \* client ids, as sequences of one-byte characters
  SafeChars,   \* letters, digits, '-' and '_'
  Domains,     \* base domains
  None,        \* no file, no name, no domain
  Torn         \* what a file holds once truncated, until it is filled

VARIABLES
  domain,      \* TraefikManager.domain
  base,        \* _zo-tunnel-base.yml: the domain it was written for
  files,       \* the client router files
  route_pc,    \* where each handler is around add_client
  client_id,   \* the name each handler serves
  cut_short    \* files of which a write failed since the server started

routeVars == <<domain, base, files, route_pc, client_id, cut_short>>

sanitize_id(id) == [i \in DOMAIN id |-> IF id[i] \in SafeChars THEN id[i] ELSE "_"]

client_file(h) == sanitize_id(client_id[h])
Files == {sanitize_id(c) : c \in Names}

(* What add_client writes: the host is spelled with the name as it is. *)
Router(c, d) == [host |-> c, domain |-> d]
Routers == [host : Names, domain : Domains]

(* A handler reads and compares, is about to write, has truncated the file, *)
(* and then serves its client, whether or not add_client succeeded.        *)
Serving == {"routed", "unrouted"}

RoutesTypeOK ==
  /\ domain \in Domains \cup {None}
  /\ base \in Domains \cup {None, Torn}
  /\ files \in [Files -> Routers \cup {None, Torn}]
  /\ route_pc \in [Handlers -> {"idle", "reading", "writing", "filling"} \cup Serving]
  /\ client_id \in [Handlers -> Names \cup {None}]
  /\ \A h \in Handlers : client_id[h] = None <=> route_pc[h] = "idle"
  /\ cut_short \subseteq Files

RoutesInit ==
  /\ domain = None
  /\ base = None
  /\ files = [f \in Files |-> None]
  /\ route_pc = [h \in Handlers |-> "idle"]
  /\ client_id = [h \in Handlers |-> None]
  /\ cut_short = {}

-----------------------------------------------------------------------------
RouteGoTo(h, l) == route_pc' = [route_pc EXCEPT ![h] = l]

(* A session was registered: its handler calls add_client. *)
StartRoute(h, c) ==
  /\ route_pc[h] = "idle"
  /\ RouteGoTo(h, "reading")
  /\ client_id' = [client_id EXCEPT ![h] = c]
  /\ UNCHANGED <<domain, base, files, cut_short>>

(* Fault: a file that exists is taken to be right. *)
CompareRoute_AnyFile(h) ==
  /\ route_pc[h] = "reading"
  /\ RouteGoTo(h, IF files[client_file(h)] # None THEN "routed" ELSE "writing")
  /\ UNCHANGED <<domain, base, files, client_id, cut_short>>

(* An identical file is left alone; a missing or different one is written. *)
CompareRoute(h) ==
  /\ route_pc[h] = "reading"
  /\ RouteGoTo(h, IF files[client_file(h)] = Router(client_id[h], domain)
                  THEN "routed" ELSE "writing")
  /\ UNCHANGED <<domain, base, files, client_id, cut_short>>

(* The file is opened with truncation, or cannot be opened. *)
OpenRoute(h) ==
  /\ route_pc[h] = "writing"
  /\ \/ /\ RouteGoTo(h, "filling")
        /\ files' = [files EXCEPT ![client_file(h)] = Torn]
     \/ /\ RouteGoTo(h, "unrouted")
        /\ UNCHANGED files
  /\ UNCHANGED <<domain, base, client_id, cut_short>>

(* Its content is written, or that fails and the handler goes on without.  *)
FillRoute(h) ==
  /\ route_pc[h] = "filling"
  /\ \/ /\ RouteGoTo(h, "routed")
        /\ files' = [files EXCEPT ![client_file(h)] = Router(client_id[h], domain)]
        /\ UNCHANGED cut_short
     \/ /\ RouteGoTo(h, "unrouted")
        /\ cut_short' = cut_short \cup {client_file(h)}
        /\ UNCHANGED files
  /\ UNCHANGED <<domain, base, client_id>>

(* The session ended and the handler returns; the file stays. *)
EndRoute(h) ==
  /\ route_pc[h] \in Serving
  /\ RouteGoTo(h, "idle")
  /\ client_id' = [client_id EXCEPT ![h] = None]
  /\ UNCHANGED <<domain, base, files, cut_short>>

(* The handlers end with the process; what is on disk stays as it is. *)
RoutesDie ==
  /\ domain' = None
  /\ route_pc' = [h \in Handlers |-> "idle"]
  /\ client_id' = [h \in Handlers |-> None]
  /\ cut_short' = {}
  /\ UNCHANGED <<base, files>>

RouteStep(h) == CompareRoute(h) \/ OpenRoute(h) \/ FillRoute(h) \/ EndRoute(h)
=============================================================================
