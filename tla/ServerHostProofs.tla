---------------------------- MODULE ServerHostProofs ----------------------------
(***************************************************************************)
(* Proofs about ServerHost, for any set of handlers, names, domains and    *)
(* tokens and any number of starts: types, the routers of the clients that *)
(* are served, and the settings that survive a restart.                    *)
(***************************************************************************)
EXTENDS ServerHost, TLAPS

(* What a stage of the start implies. *)
Staged ==
  /\ server # "down" => cfg \in Settings
  /\ server \in {"bound", "basing"} \cup Accepts => domain \in Domains
  /\ server \notin Accepts => \A h \in Handlers : route_pc[h] = "idle"
  /\ server = "saving" => ~untouched

(* What was shown can be had again from the file. *)
Kept == untouched => config_file \in Settings /\ shown = apply_env_overrides(config_file)

HostInv == TypeOK /\ Staged /\ Kept
IInv    == HostInv /\ ServedIsRouted

(* The facts about the constants that the steps need. *)
LEMMA Constants ==
  /\ None \notin Names /\ None \notin Domains /\ MaxStarts \in Nat
  /\ None \notin Settings /\ Torn \notin Settings
BY HostAssumption DEF Settings

(* A setting keeps its shape under the environment. *)
LEMMA OverridesTyped ==
  ASSUME NEW c \in Settings, env \in Environments
  PROVE  /\ apply_env_overrides(c) \in Settings
         /\ env.token # None => apply_env_overrides(c).token = env.token
BY DEF Settings, Environments, apply_env_overrides

LEMMA BuiltTyped ==
  ASSUME env \in Environments, env.domain # None, starts' \in 1 .. MaxStarts
  PROVE  build_config \in Settings
BY DEF Settings, Environments, build_config

(* The first start finds neither configuration nor routers. *)
LEMMA InitIInv == Init => IInv
<1> SUFFICES ASSUME Init PROVE IInv
  OBVIOUS
<1>1. RoutesTypeOK BY DEF Init, RoutesInit, RoutesTypeOK
<1>2. TypeOK
  <2>1. starts \in 0 .. MaxStarts BY Constants DEF Init
  <2> QED BY <1>1, <2>1 DEF Init, TypeOK, Stages
<1>3. Staged /\ ServedIsRouted BY DEF Init, RoutesInit, Staged, ServedIsRouted, Accepts
<1>4. Kept BY DEF Init, Kept
<1> QED BY <1>2, <1>3, <1>4 DEF IInv, HostInv

-----------------------------------------------------------------------------
(* Steps of a start: no handler runs yet, so there is nothing to route.    *)
LEMMA NobodyServed ==
  ASSUME Staged', TypeOK', server' \notin Accepts
  PROVE  ServedIsRouted'
BY DEF Staged, ServedIsRouted

LEMMA LoadStep ==
  ASSUME HostInv, LoadConfig
  PROVE  HostInv' /\ server' \notin Accepts
<1> USE Constants DEF HostInv, LoadConfig
<1>1. CASE config_file = Torn
  BY <1>1 DEF routeVars, TypeOK, RoutesTypeOK, Staged, Kept, Stages, Accepts,
              apply_env_overrides, client_file
<1>2. CASE config_file # Torn
  <2>1. config_file \in Settings BY <1>2 DEF TypeOK
  <2>2. apply_env_overrides(config_file) \in Settings BY <2>1, OverridesTyped DEF TypeOK
  <2>3. TypeOK' BY <1>2, <2>2 DEF UseConfig, routeVars, TypeOK, RoutesTypeOK, Stages
  <2>4. Staged' BY <1>2, <2>2 DEF UseConfig, routeVars, TypeOK, Staged, Accepts
  <2>5. Kept' BY <1>2, <2>1 DEF UseConfig, Kept, apply_env_overrides
  <2> QED BY <1>2, <2>3, <2>4, <2>5 DEF UseConfig, Accepts
<1> QED BY <1>1, <1>2

LEMMA BuildStep ==
  ASSUME HostInv, NEW force \in BOOLEAN, BuildConfig(force)
  PROVE  HostInv' /\ server' \notin Accepts
<1> USE Constants DEF HostInv, BuildConfig
<1>0. starts \in 0 .. MaxStarts /\ starts' = starts + 1 /\ starts < MaxStarts BY DEF TypeOK
<1>1. starts' \in 1 .. MaxStarts /\ starts' \in 0 .. MaxStarts BY <1>0
<1>2. env.domain # None => build_config \in Settings BY <1>1, BuiltTyped DEF TypeOK
<1>3. ~untouched' BY DEF TypeOK, Kept, Settings
<1>4. TypeOK'
  <2>1. RoutesTypeOK' BY DEF TypeOK, RoutesTypeOK, routeVars
  <2> QED BY <1>1, <1>2, <1>3, <2>1 DEF TypeOK, Stages
<1>5. Staged' BY <1>2, <1>3 DEF TypeOK, Staged, Accepts, routeVars
<1>6. Kept' BY <1>3 DEF Kept
<1> QED BY <1>4, <1>5, <1>6 DEF Accepts

LEMMA SaveStep ==
  ASSUME HostInv, SaveConfig
  PROVE  HostInv' /\ server' \notin Accepts
<1> USE Constants DEF HostInv, SaveConfig, UseConfig
<1>1. cfg \in Settings BY DEF Staged
<1>2. apply_env_overrides(cfg) \in Settings BY <1>1, OverridesTyped DEF TypeOK
<1>3. TypeOK' BY <1>1, <1>2 DEF routeVars, TypeOK, RoutesTypeOK, Stages
<1>4. Staged' BY <1>2 DEF routeVars, TypeOK, Staged, Accepts
<1>5. Kept' BY <1>1 DEF Kept, apply_env_overrides
<1> QED BY <1>3, <1>4, <1>5 DEF Accepts

LEMMA ComingUpSteps ==
  ASSUME HostInv, ChangeEnv \/ BindControl \/ OpenBase \/ FillBase \/ BindPublic \/ Stop
  PROVE  HostInv'
<1> USE Constants DEF HostInv, ChangeEnv, BindControl, OpenBase, FillBase, BindPublic, Stop,
                           routeVars, Stages, Accepts
<1>1. BindControl => domain' \in Domains BY DEF TypeOK, Staged, Settings
<1>2. TypeOK'
  <2>1. RoutesTypeOK' BY <1>1 DEF TypeOK, RoutesTypeOK, RoutesDie
  <2> QED BY <2>1 DEF TypeOK
<1>3. Staged' BY <1>1 DEF TypeOK, Staged, RoutesDie
<1>4. Kept' BY DEF TypeOK, Kept, apply_env_overrides
<1> QED BY <1>2, <1>3, <1>4

(* Until clients are accepted nobody is served; when they are, and while   *)
(* the public port is bound, nothing about the routers changes.            *)
LEMMA HostSteps ==
  ASSUME IInv,
         \/ ChangeEnv \/ LoadConfig \/ (\E force \in BOOLEAN : BuildConfig(force))
         \/ SaveConfig \/ BindControl \/ OpenBase \/ FillBase \/ BindPublic \/ Stop
  PROVE  IInv'
<1>1. HostInv' BY LoadStep, BuildStep, SaveStep, ComingUpSteps DEF IInv
<1>2. \A h \in Handlers : server \notin Accepts => route_pc[h] = "idle"
  BY DEF IInv, HostInv, Staged
<1>3. CASE BindPublic
  <2>1. routeVars' = routeVars BY <1>3 DEF BindPublic
  <2>2. ServedIsRouted BY DEF IInv
  <2>3. ServedIsRouted' BY <2>1, <2>2 DEF routeVars, ServedIsRouted, client_file
  <2> QED BY <1>1, <2>3 DEF IInv
<1>4. CASE OpenBase \/ FillBase
  <2>1. \A h \in Handlers : route_pc'[h] = "idle"
    BY <1>2, <1>4 DEF OpenBase, FillBase, Accepts
  <2>2. ServedIsRouted' BY <2>1 DEF ServedIsRouted
  <2> QED BY <1>1, <2>2 DEF IInv
<1>5. CASE server' \notin Accepts
  <2>1. Staged' /\ TypeOK' BY <1>1 DEF HostInv
  <2> QED BY <1>1, <1>5, <2>1, NobodyServed DEF IInv
<1>6. ChangeEnv \/ LoadConfig \/ (\E force \in BOOLEAN : BuildConfig(force))
        \/ SaveConfig \/ BindControl \/ Stop => server' \notin Accepts
  BY LoadStep, BuildStep, SaveStep DEF IInv, ChangeEnv, BindControl, Stop, Accepts
<1> QED BY <1>3, <1>4, <1>5, <1>6

-----------------------------------------------------------------------------
(* Steps of a handler.                                                     *)
LEMMA RouteKeepsHost ==
  ASSUME HostInv, UNCHANGED hostVars, NEW h \in Handlers,
         RouteStep(h) \/ \E c \in Names : server \in Accepts /\ StartRoute(h, c)
  PROVE  HostInv'
<1> USE Constants
    DEF HostInv, hostVars, RouteStep, CompareRoute, OpenRoute, FillRoute, EndRoute, StartRoute,
        RouteGoTo, Serving
<1>1. route_pc[h] # "idle" => server \in Accepts /\ domain \in Domains /\ client_id[h] \in Names
  BY DEF TypeOK, RoutesTypeOK, Staged
<1>2. RoutesTypeOK'
  <2> USE <1>1 DEF TypeOK, RoutesTypeOK
  <2>1. CASE CompareRoute(h) BY <2>1 DEF CompareRoute
  <2>2. CASE OpenRoute(h) BY <2>2 DEF OpenRoute
  <2>3. CASE FillRoute(h)
    <3>1. Router(client_id[h], domain) \in Routers BY <2>3 DEF FillRoute, Router, Routers
    <3>2. client_file(h) \in Files BY <2>3 DEF FillRoute, client_file, Files
    <3>3. files' \in [Files -> Routers \cup {None, Torn}] /\ cut_short' \subseteq Files
      BY <2>3, <3>1, <3>2 DEF FillRoute
    <3> QED BY <2>3, <3>3 DEF FillRoute
  <2>4. CASE EndRoute(h) BY <2>4 DEF EndRoute
  <2>5. CASE \E c \in Names : StartRoute(h, c) BY <2>5 DEF StartRoute
  <2> QED BY <2>1, <2>2, <2>3, <2>4, <2>5
<1>3. TypeOK' BY <1>2 DEF TypeOK
<1>4. Staged' BY <1>1 DEF TypeOK, RoutesTypeOK, Staged
<1>5. Kept' BY DEF Kept, apply_env_overrides
<1> QED BY <1>3, <1>4, <1>5

(* The file of another handler's client is another file, or is torn and    *)
(* being filled, or holds one of the routers that share it.                *)
LEMMA RouteStepRouted ==
  ASSUME IInv, NEW h \in Handlers,
         RouteStep(h) \/ \E c \in Names : StartRoute(h, c)
  PROVE  ServedIsRouted'
<1> SUFFICES ASSUME NEW k \in Handlers, route_pc'[k] = "routed"
             PROVE  LET f == client_file(k)' IN
                    \/ files'[f] = Router(client_id'[k], domain')
                    \/ \E c \in Names \ {client_id'[k]} :
                         sanitize_id(c) = f /\ files'[f] = Router(c, domain')
                    \/ /\ files'[f] = Torn
                       /\ \/ f \in cut_short'
                          \/ \E g \in Handlers : route_pc'[g] = "filling" /\ client_file(g)' = f
  BY DEF ServedIsRouted
<1> DEFINE f == client_file(k)
<1> USE DEF IInv, HostInv, TypeOK, RoutesTypeOK, RouteGoTo, Serving
<1>1. domain' = domain /\ client_id'[k] = client_id[k] /\ client_file(k)' = f
  BY DEF RouteStep, CompareRoute, OpenRoute, FillRoute, EndRoute, StartRoute, client_file
<1>2. \A g \in Handlers : route_pc'[g] = "filling" => client_file(g)' = client_file(g)
  BY DEF RouteStep, CompareRoute, OpenRoute, FillRoute, EndRoute, StartRoute, client_file
<1>3. CASE FillRoute(h)
  <2>1. client_id[h] \in Names /\ sanitize_id(client_id[h]) = client_file(h)
    BY <1>3, Constants DEF FillRoute, client_file
  <2>2. client_file(h) \in Files BY <2>1 DEF Files
  <2>3. \A g \in Handlers \ {h} : route_pc'[g] = route_pc[g] BY <1>3 DEF FillRoute
  <2>4. CASE /\ files' = [files EXCEPT ![client_file(h)] = Router(client_id[h], domain)]
             /\ UNCHANGED cut_short
    <3>1. CASE f = client_file(h)
      BY <1>1, <2>1, <2>2, <2>4, <3>1
    <3>2. CASE f # client_file(h)
      <4>1. k # h /\ route_pc[k] = "routed" BY <2>3, <3>2
      <4>2. files'[f] = files[f] BY <2>4, <3>2
      <4> QED BY <1>1, <1>2, <2>3, <2>4, <3>2, <4>1, <4>2 DEF ServedIsRouted, client_file
    <3> QED BY <3>1, <3>2
  <2>5. CASE route_pc'[h] = "unrouted" /\ cut_short' = cut_short \cup {client_file(h)}
             /\ UNCHANGED files
    <3>1. k # h /\ route_pc[k] = "routed" BY <2>3, <2>5
    <3> QED BY <1>1, <1>2, <2>3, <2>5, <3>1 DEF ServedIsRouted
  <2> QED BY <1>3, <2>4, <2>5 DEF FillRoute
<1>4. CASE OpenRoute(h)
  <2>1. k # h /\ route_pc[k] = "routed" /\ \A g \in Handlers \ {h} : route_pc'[g] = route_pc[g]
    BY <1>4 DEF OpenRoute
  <2>2. route_pc[h] = "writing" /\ cut_short' = cut_short BY <1>4 DEF OpenRoute
  <2>3. CASE route_pc'[h] = "filling" /\ files' = [files EXCEPT ![client_file(h)] = Torn]
    <3>1. CASE f = client_file(h)
      <4>1. client_id[h] \in Names BY <2>2
      <4>2. client_file(h) \in Files BY <4>1 DEF Files, client_file
      <4> QED BY <1>1, <1>2, <2>3, <3>1, <4>2
    <3>2. CASE f # client_file(h)
      <4>1. files'[f] = files[f] BY <2>3, <3>2
      <4> QED BY <1>1, <1>2, <2>1, <2>2, <2>3, <4>1 DEF ServedIsRouted
    <3> QED BY <3>1, <3>2
  <2>4. CASE UNCHANGED files
    BY <1>1, <1>2, <2>1, <2>2, <2>4 DEF ServedIsRouted
  <2> QED BY <1>4, <2>3, <2>4 DEF OpenRoute
<1>5. CASE CompareRoute(h) \/ EndRoute(h) \/ \E c \in Names : StartRoute(h, c)
  <2>1. files' = files /\ cut_short' = cut_short
        /\ \A g \in Handlers : route_pc[g] = "filling" => route_pc'[g] = "filling"
    BY <1>5 DEF CompareRoute, EndRoute, StartRoute
  <2>2. CASE route_pc[k] = "routed"
    BY <1>1, <1>2, <2>1, <2>2 DEF ServedIsRouted
  <2>3. CASE route_pc[k] # "routed"
    <3>1. files[f] = Router(client_id[k], domain)
      BY <1>5, <2>3 DEF CompareRoute, EndRoute, StartRoute
    <3> QED BY <1>1, <2>1, <3>1
  <2> QED BY <2>2, <2>3
<1> QED BY <1>3, <1>4, <1>5 DEF RouteStep

-----------------------------------------------------------------------------
(* Every step keeps the invariant. *)
LEMMA NextIInv == IInv /\ [Next]_vars => IInv'
<1> SUFFICES ASSUME IInv, [Next]_vars PROVE IInv'
  OBVIOUS
<1>1. ASSUME NEW h \in Handlers, ServeClient(h) PROVE IInv'
  BY <1>1, RouteKeepsHost, RouteStepRouted DEF ServeClient, IInv
<1>2. ASSUME NEW h \in Handlers, NEW c \in Names, Connect(h, c) PROVE IInv'
  BY <1>2, RouteKeepsHost, RouteStepRouted DEF Connect, IInv
<1>3. CASE UNCHANGED vars
  BY <1>3 DEF vars, hostVars, routeVars, IInv, HostInv, TypeOK, RoutesTypeOK, Staged, Kept,
              ServedIsRouted, apply_env_overrides, client_file
<1> QED BY <1>1, <1>2, <1>3, HostSteps DEF Next

(* The inductive invariant holds in every reachable state. *)
THEOREM InductiveInvariant == Spec => []IInv
BY InitIInv, NextIInv, PTL DEF Spec

(* Configuration, base file and router files hold what they may hold; a    *)
(* handler has a name exactly while it serves.                             *)
THEOREM TypeCorrect == Spec => []TypeOK
<1>1. IInv => TypeOK BY DEF IInv, HostInv
<1> QED BY <1>1, InductiveInvariant, PTL

(* Whatever earlier starts left in the directory, a client whose add_client *)
(* succeeded has its router, up to names that share a file and writes that *)
(* failed.                                                                 *)
THEOREM ClientsAreRouted == Spec => []ServedIsRouted
<1>1. IInv => ServedIsRouted BY DEF IInv
<1> QED BY <1>1, InductiveInvariant, PTL

(* No crash and no restart takes back settings an operator has seen, and a *)
(* token in the environment always wins.                                   *)
THEOREM SettingsSurvive == Spec => SettingsSurviveRestart
<1> DEFINE Survives == (server' = "loaded" /\ server # "loaded") =>
                         /\ untouched => cfg' = shown
                         /\ env.token # None => cfg'.token = env.token
<1>1. IInv /\ [Next]_vars => [Survives]_vars
  <2> SUFFICES ASSUME IInv, Next, server' = "loaded", server # "loaded"
               PROVE  /\ untouched => cfg' = shown
                      /\ env.token # None => cfg'.token = env.token
    BY DEF vars, hostVars
  <2>1. CASE LoadConfig
    <3>1. config_file \in Settings /\ cfg' = apply_env_overrides(config_file)
      BY <2>1 DEF LoadConfig, UseConfig, IInv, HostInv, TypeOK
    <3> QED BY <3>1, OverridesTyped DEF IInv, HostInv, Kept, TypeOK
  <2>2. CASE SaveConfig
    <3>1. cfg \in Settings /\ cfg' = apply_env_overrides(cfg)
      BY <2>2 DEF SaveConfig, UseConfig, IInv, HostInv, Staged
    <3>2. ~untouched
      BY <2>2 DEF SaveConfig, IInv, HostInv, Staged
    <3> QED BY <3>1, <3>2, OverridesTyped DEF IInv, HostInv, TypeOK
  <2>3. LoadConfig \/ SaveConfig
    BY DEF Next, ChangeEnv, BuildConfig, BindControl, OpenBase, FillBase, BindPublic, Stop,
           ServeClient, Connect, hostVars
  <2> QED BY <2>1, <2>2, <2>3
<1> QED BY <1>1, InductiveInvariant, PTL DEF Spec, SettingsSurviveRestart
=============================================================================
