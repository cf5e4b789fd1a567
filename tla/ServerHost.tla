------------------------------ MODULE ServerHost ------------------------------
(***************************************************************************)
(* One server machine over many starts of zo-tunnel-server: the config     *)
(* file it writes on its first start and loads on every later one          *)
(* (run_server, build_config, apply_env_overrides, ServerConfig), the      *)
(* order in which a start comes up (Server::run), and, through             *)
(* TraefikRoutes, the router files that outlive it.                        *)
(*                                                                         *)
(* The operator may change the environment between starts and may pass     *)
(* --force.  A start can fail at a port, and the process can die at any    *)
(* step; whoever supervises it starts it again.                            *)
(***************************************************************************)
EXTENDS TraefikRoutes

CONSTANTS
  Tokens,      \* client tokens an operator may set in ZO_TOKEN
  Empty,       \* a ZO_DOMAIN that is set to nothing
  MaxStarts    \* bound on starts

ASSUME HostAssumption ==
  /\ Names \subseteq Seq(STRING) /\ "_" \in SafeChars
  /\ None \notin Names \cup Domains \cup Tokens \cup Nat \cup {Torn, Empty}
  /\ {Torn, Empty} \cap Domains = {}
  /\ {None, Torn} \cap [domain : Domains \cup {Empty}, token : Tokens \cup 1 .. MaxStarts] = {}
  /\ Tokens \cap Nat = {}
  /\ MaxStarts \in Nat

VARIABLES
  server,       \* how far the current start has come
  env,          \* ZO_DOMAIN and ZO_TOKEN
  config_file,  \* server.yaml
  cfg,          \* the configuration in memory
  starts,       \* starts so far
  shown,        \* the configuration the last start logged
  untouched     \* since then: no change of the environment, no --force

hostVars == <<server, env, config_file, cfg, starts, shown, untouched>>
vars == <<hostVars, routeVars>>

(***************************************************************************)
(* "saving": the file is truncated, not filled.  "loaded": the settings    *)
(* are logged, nothing is bound.  "bound": the control port is.  "basing": *)
(* the base file is truncated.  "accepting": clients are served, the       *)
(* public port is not bound yet.  "ready": it is.                          *)
(***************************************************************************)
Stages  == {"down", "saving", "loaded", "bound", "basing", "accepting", "ready"}
Accepts == {"accepting", "ready"}

(* generate_token: a token never seen before, named after the start. *)
Settings == [domain : Domains \cup {Empty}, token : Tokens \cup 1 .. MaxStarts]
Environments == [domain : Domains \cup {None, Empty}, token : Tokens \cup {None}]

TypeOK ==
  /\ RoutesTypeOK
  /\ server \in Stages
  /\ env \in Environments
  /\ config_file \in Settings \cup {None, Torn}
  /\ cfg \in Settings \cup {None}
  /\ starts \in 0 .. MaxStarts
  /\ shown \in Settings \cup {None}
  /\ untouched \in BOOLEAN

Init ==
  /\ RoutesInit
  /\ server = "down"
  /\ env \in Environments
  /\ config_file = None
  /\ cfg = None
  /\ starts = 0
  /\ shown = None
  /\ untouched = FALSE

-----------------------------------------------------------------------------
(* Configuration.                                                          *)

(* The operator edits the environment of the next start. *)
ChangeEnv ==
  /\ server = "down"
  /\ env' \in Environments
  /\ env' # env
  /\ untouched' = FALSE
  /\ UNCHANGED <<server, config_file, cfg, starts, shown, routeVars>>

(* Fault: without a token in the environment there is none. *)
build_config_NoToken == [domain |-> env.domain, token |-> env.token]

(* build_config: the token of the environment, or a new one. *)
build_config ==
  [domain |-> env.domain, token |-> IF env.token # None THEN env.token ELSE starts']

(* Fault: the token of the environment counts on a first start only. *)
apply_env_overrides_FileWins(c) == c

(* A token in the environment replaces the one of the file, in memory. *)
apply_env_overrides(c) == IF env.token # None THEN [c EXCEPT !.token = env.token] ELSE c

(* The settings are logged and handed to Server::run. *)
UseConfig(c) ==
  /\ server' = "loaded"
  /\ cfg' = c
  /\ shown' = c
  /\ untouched' = TRUE

(* The file is there and --force is not given: it is loaded, and a torn    *)
(* one ends the start.                                                     *)
LoadConfig ==
  /\ server = "down"
  /\ starts < MaxStarts
  /\ starts' = starts + 1
  /\ config_file # None
  /\ IF config_file = Torn
     THEN UNCHANGED <<server, cfg, shown, untouched>>
     ELSE UseConfig(apply_env_overrides(config_file))
  /\ UNCHANGED <<env, config_file, routeVars>>

(* First start, or --force: a configuration is built and the file opened   *)
(* for writing, which truncates it.  Without a domain the start ends, but  *)
(* an empty one is a domain here.                                          *)
BuildConfig(force) ==
  /\ server = "down"
  /\ starts < MaxStarts
  /\ starts' = starts + 1
  /\ force \/ config_file = None
  /\ untouched' = IF force THEN FALSE ELSE untouched
  /\ IF env.domain = None
     THEN UNCHANGED <<server, config_file, cfg>>
     ELSE /\ server' = "saving"
          /\ config_file' = Torn
          /\ cfg' = build_config
  /\ UNCHANGED <<env, shown, routeVars>>

(* Fault: the start goes on with a configuration it failed to write. *)
SaveConfig_Unsaved ==
  /\ server = "saving"
  /\ config_file' = None
  /\ UseConfig(apply_env_overrides(cfg))
  /\ UNCHANGED <<env, starts, routeVars>>

(* The file is filled, and only then are the settings used. *)
SaveConfig ==
  /\ server = "saving"
  /\ config_file' = cfg
  /\ UseConfig(apply_env_overrides(cfg))
  /\ UNCHANGED <<env, starts, routeVars>>

-----------------------------------------------------------------------------
(* Coming up.                                                              *)

(* run ends at once if the domain is empty. *)
BindControl ==
  /\ server = "loaded"
  /\ cfg.domain # Empty
  /\ server' = "bound"
  /\ domain' = cfg.domain
  /\ UNCHANGED <<env, config_file, cfg, starts, shown, untouched,
                 base, files, route_pc, client_id, cut_short>>

(* write_static_routes truncates the base file; if it cannot, the start    *)
(* goes on with what is there.                                             *)
OpenBase ==
  /\ server = "bound"
  /\ \/ server' = "basing" /\ base' = Torn
     \/ server' = "accepting" /\ UNCHANGED base
  /\ UNCHANGED <<env, config_file, cfg, starts, shown, untouched,
                 domain, files, route_pc, client_id, cut_short>>

(* It fills the file, or fails to; either way clients are accepted next.   *)
FillBase ==
  /\ server = "basing"
  /\ server' = "accepting"
  /\ base' \in {domain, base}
  /\ UNCHANGED <<env, config_file, cfg, starts, shown, untouched,
                 domain, files, route_pc, client_id, cut_short>>

BindPublic ==
  /\ server = "accepting"
  /\ server' = "ready"
  /\ UNCHANGED <<env, config_file, cfg, starts, shown, untouched, routeVars>>

(* A port that cannot be bound, Ctrl-C, or a crash: nothing is cleaned up. *)
Stop ==
  /\ server # "down"
  /\ server' = "down"
  /\ cfg' = None
  /\ RoutesDie
  /\ UNCHANGED <<env, config_file, starts, shown, untouched>>

-----------------------------------------------------------------------------
(* A client connects and is registered. *)
Connect(h, c) ==
  /\ server \in Accepts
  /\ StartRoute(h, c)
  /\ UNCHANGED hostVars

ServeClient(h) == RouteStep(h) /\ UNCHANGED hostVars

Next ==
  \/ ChangeEnv \/ LoadConfig \/ (\E force \in BOOLEAN : BuildConfig(force)) \/ SaveConfig
  \/ BindControl \/ OpenBase \/ FillBase \/ BindPublic \/ Stop
  \/ \E h \in Handlers : ServeClient(h) \/ \E c \in Names : Connect(h, c)

Spec == Init /\ [][Next]_vars

-----------------------------------------------------------------------------
(* Properties.                                                             *)

(* A client whose add_client succeeded has its router for the domain of    *)
(* this start, whatever earlier starts, other domains and crashes left     *)
(* behind.  Only three things can take it away: another name that maps to  *)
(* the same file, another handler of the file in the middle of its write,  *)
(* and a write that failed.                                                *)
ServedIsRouted ==
  \A h \in Handlers : route_pc[h] = "routed" =>
    LET f == client_file(h) IN
    \/ files[f] = Router(client_id[h], domain)
    \/ \E c \in Names \ {client_id[h]} :
         sanitize_id(c) = f /\ files[f] = Router(c, domain)
    \/ /\ files[f] = Torn
       /\ \/ f \in cut_short
          \/ \E g \in Handlers : route_pc[g] = "filling" /\ client_file(g) = f

(* What a start shows to the operator, who hands the token to clients and  *)
(* points the domain here, holds for every later start as long as the      *)
(* operator neither changes the environment nor passes --force: generated  *)
(* tokens are on disk before they are shown.  A token in the environment   *)
(* always wins.                                                            *)
SettingsSurviveRestart ==
  [][ (server' = "loaded" /\ server # "loaded") =>
        /\ untouched => cfg' = shown
        /\ env.token # None => cfg'.token = env.token ]_vars
=============================================================================
