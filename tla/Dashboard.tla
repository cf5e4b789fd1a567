------------------------------- MODULE Dashboard -------------------------------
(***************************************************************************)
(* The dashboard's login sessions (SessionStore, api_login, api_logout,    *)
(* is_authenticated) and the pages of one browser that poll it (app.js).   *)
(*                                                                         *)
(* The pages share one cookie.  A request carries the cookie of the moment *)
(* it is sent; it is answered and its answer is applied later, in any      *)
(* order, and it may be lost on the way there or back.  dashboard_auth is  *)
(* enabled.  What the views show is left out.                              *)
(***************************************************************************)
EXTENDS Naturals, FiniteSets

CONSTANTS
  Pages,         \* open or closed pages of one browser
  Ids,           \* session ids; one that nobody can present is used again
  Slots,         \* bound: requests in flight at a time
  None           \* no cookie, no request, no page

ASSUME DashboardAssumption == None \notin Pages \cup Ids

VARIABLES
  store,         \* SessionStore.sessions: what became of each id
  cookie,        \* the browser's zo-session cookie
  screen,        \* what each page shows
  refreshInterval, \* whether a page holds an interval's handle
  timers,        \* how many intervals run in it
  flight         \* the request in each slot

pageVars  == <<screen, refreshInterval, timers>>
vars == <<store, cookie, pageVars, flight>>

Request == [page : Pages \cup {None}, kind : {"check", "login", "bad login", "logout", "view"},
            carries : Ids \cup {None}, reply : {"pending", "ok", "refused", "lost"},
            sets : Ids \cup {None, "keep"}]

TypeOK ==
  /\ store \in [Ids -> {"unused", "valid", "expired", "removed"}]
  /\ cookie \in Ids \cup {None}
  /\ screen \in [Pages -> {"closed", "login", "dashboard"}]
  /\ refreshInterval \in [Pages -> BOOLEAN]
  /\ timers \in [Pages -> Nat]
  /\ flight \in [Slots -> Request \cup {None}]

Init ==
  /\ store = [s \in Ids |-> "unused"]
  /\ cookie = None
  /\ screen = [p \in Pages |-> "closed"]
  /\ refreshInterval = [p \in Pages |-> FALSE]
  /\ timers = [p \in Pages |-> 0]
  /\ flight = [f \in Slots |-> None]

-----------------------------------------------------------------------------
(* The server.                                                             *)

(* SessionStore::validate answers true. *)
validate(s) == s # None /\ store[s] = "valid"

(* validate drops the session it finds too old. *)
Validated(s) == [i \in Ids |-> IF i = s /\ store[i] = "expired" THEN "removed" ELSE store[i]]

(* What the cookie was no longer matters once the request is answered. *)
Reply(f, answer, sets) ==
  flight' = [flight EXCEPT ![f].reply = answer, ![f].sets = sets, ![f].carries = None]

(* api_status, api_clients, api_metrics and api_auth_check. *)
ServeView(f) ==
  LET s == flight[f].carries IN
  /\ flight[f].kind \in {"view", "check"}
  /\ store' = Validated(s)
  /\ Reply(f, IF validate(s) THEN "ok" ELSE "refused", "keep")

(* A uuid that was never given out, or that nobody can present any more.   *)
fresh == CHOOSE s \in Ids : store[s] = "unused"

(* api_login: whoever is logged in stays so, else the token decides. *)
ServeLogin(f) ==
  LET s == flight[f].carries IN
  /\ flight[f].kind \in {"login", "bad login"}
  /\ IF validate(s) \/ flight[f].kind = "bad login"
     THEN /\ store' = Validated(s)
          /\ Reply(f, IF validate(s) THEN "ok" ELSE "refused", "keep")
     ELSE /\ \E i \in Ids : store[i] = "unused"
          /\ store' = [Validated(s) EXCEPT ![fresh] = "valid"]
          /\ Reply(f, "ok", fresh)

(* api_logout *)
ServeLogout(f) ==
  /\ flight[f].kind = "logout"
  /\ store' = [i \in Ids |-> IF i = flight[f].carries THEN "removed" ELSE store[i]]
  /\ Reply(f, "ok", None)

Serve(f) ==
  /\ flight[f] # None
  /\ flight[f].reply = "pending"
  /\ ServeView(f) \/ ServeLogin(f) \/ ServeLogout(f)
  /\ UNCHANGED <<cookie, pageVars>>

(* ttl_secs have passed since the session was created. *)
Expire(s) ==
  /\ store[s] = "valid"
  /\ store' = [store EXCEPT ![s] = "expired"]
  /\ UNCHANGED <<cookie, pageVars, flight>>

(* The store lives in memory. *)
Restart ==
  /\ store' = [s \in Ids |-> IF store[s] = "unused" THEN "unused" ELSE "removed"]
  /\ UNCHANGED <<cookie, pageVars, flight>>

(* The name of a session that nobody can present any more is used again.   *)
Forget(s) ==
  /\ store[s] # "unused"
  /\ s # cookie
  /\ \A f \in Slots : flight[f] # None => s \notin {flight[f].carries, flight[f].sets}
  /\ store' = [store EXCEPT ![s] = "unused"]
  /\ UNCHANGED <<cookie, pageVars, flight>>

-----------------------------------------------------------------------------
(* A page.                                                                 *)

Fetch(p, kind) == [page |-> p, kind |-> kind, carries |-> cookie, reply |-> "pending", sets |-> "keep"]

Send(p, kind) ==
  LET free == {f \in Slots : flight[f] = None} IN
  /\ free # {}
  /\ flight' = [flight EXCEPT ![CHOOSE f \in free : TRUE] = Fetch(p, kind)]

(* The page loads with the login form on it and asks whether it is needed. *)
Load(p) ==
  /\ screen[p] = "closed"
  /\ screen' = [screen EXCEPT ![p] = "login"]
  /\ Send(p, "check")
  /\ UNCHANGED <<store, cookie, refreshInterval, timers>>

(* handleLogin; the button is disabled until the answer is there. *)
HandleLogin(p) ==
  /\ screen[p] = "login"
  /\ \A f \in Slots : flight[f] # None =>
       ~(flight[f].page = p /\ flight[f].kind \in {"login", "bad login"})
  /\ \E kind \in {"login", "bad login"} : Send(p, kind)
  /\ UNCHANGED <<store, cookie, pageVars>>

HandleLogout(p) ==
  /\ screen[p] = "dashboard"
  /\ Send(p, "logout")
  /\ UNCHANGED <<store, cookie, pageVars>>

(* An interval fires; the earlier refresh need not have been answered.  Of *)
(* its three requests one stands for all: any of them can be refused.      *)
Refresh(p) ==
  /\ timers[p] > 0
  /\ Send(p, "view")
  /\ UNCHANGED <<store, cookie, pageVars>>

(* Fault: the interval is cleared whether or not there is one. *)
ShowLogin_AlwaysClears(p) ==
  /\ screen' = [screen EXCEPT ![p] = "login"]
  /\ timers' = [timers EXCEPT ![p] = @ - 1]
  /\ refreshInterval' = [refreshInterval EXCEPT ![p] = FALSE]

ShowLogin(p) ==
  /\ screen' = [screen EXCEPT ![p] = "login"]
  /\ timers' = [timers EXCEPT ![p] = IF refreshInterval[p] THEN @ - 1 ELSE @]
  /\ refreshInterval' = [refreshInterval EXCEPT ![p] = FALSE]

(* Fault: a new interval is started without clearing the old one. *)
ShowDashboard_NoClear(p) ==
  /\ screen' = [screen EXCEPT ![p] = "dashboard"]
  /\ timers' = [timers EXCEPT ![p] = @ + 1]
  /\ refreshInterval' = [refreshInterval EXCEPT ![p] = TRUE]

ShowDashboard(p) ==
  /\ screen' = [screen EXCEPT ![p] = "dashboard"]
  /\ timers' = [timers EXCEPT ![p] = IF refreshInterval[p] THEN @ ELSE @ + 1]
  /\ refreshInterval' = [refreshInterval EXCEPT ![p] = TRUE]

(* Fault: a refused view is an error like any other. *)
ToLogin_NotOn401(r) ==
  \/ r.kind = "logout"
  \/ r.kind = "check" /\ r.reply # "ok"

(* The answers that bring the login form and the dashboard. *)
ToLogin(r) ==
  \/ r.kind = "logout"
  \/ r.kind = "check" /\ r.reply # "ok"
  \/ r.kind = "view" /\ r.reply = "refused"

ToDashboard(r) == r.kind \in {"check", "login", "bad login"} /\ r.reply = "ok"

(* The browser takes the cookie, then the page goes on after its await;    *)
(* showDashboard sends its first refresh at once.                          *)
Arrive(f) ==
  LET r == flight[f] IN
  /\ r # None
  /\ r.reply # "pending"
  /\ cookie' = IF r.sets = "keep" THEN cookie ELSE r.sets
  /\ flight' = [flight EXCEPT ![f] =
       IF r.page # None /\ ToDashboard(r)
       THEN [Fetch(r.page, "view") EXCEPT !.carries = cookie'] ELSE None]
  /\ CASE r.page = None -> UNCHANGED pageVars
       [] r.page # None /\ ToLogin(r) -> ShowLogin(r.page)
       [] r.page # None /\ ToDashboard(r) -> ShowDashboard(r.page)
       [] OTHER -> UNCHANGED pageVars
  /\ UNCHANGED store

(* The page is closed, or left to be loaded again; nobody reads what its   *)
(* requests bring, but the browser still takes their cookies.              *)
Close(p) ==
  /\ screen[p] # "closed"
  /\ screen' = [screen EXCEPT ![p] = "closed"]
  /\ timers' = [timers EXCEPT ![p] = 0]
  /\ refreshInterval' = [refreshInterval EXCEPT ![p] = FALSE]
  /\ flight' = [f \in Slots |->
       IF flight[f] # None /\ flight[f].page = p THEN [flight[f] EXCEPT !.page = None] ELSE flight[f]]
  /\ UNCHANGED <<store, cookie>>

(* The request or its answer is lost. *)
Lose(f) ==
  /\ flight[f] # None
  /\ flight[f].reply # "lost"
  /\ Reply(f, "lost", "keep")
  /\ UNCHANGED <<store, cookie, pageVars>>

(* Max-Age is the server's ttl_secs, counted from the arrival: the session *)
(* is too old by then, or gone.                                            *)
CookieExpires ==
  /\ cookie # None
  /\ store[cookie] # "valid"
  /\ cookie' = None
  /\ UNCHANGED <<store, pageVars, flight>>

Next ==
  \/ \E p \in Pages : Load(p) \/ HandleLogin(p) \/ HandleLogout(p) \/ Refresh(p) \/ Close(p)
  \/ \E f \in Slots : Serve(f) \/ Arrive(f) \/ Lose(f)
  \/ \E s \in Ids : Expire(s) \/ Forget(s)
  \/ Restart \/ CookieExpires

(* Intervals fire, and a request that is sent again and again gets through *)
(* at some time; users do as they like.                                    *)
Fairness ==
  /\ \A p \in Pages : SF_vars(Refresh(p))
  /\ \A f \in Slots : SF_vars(Serve(f)) /\ WF_vars(Arrive(f))
  /\ \A p \in Pages :
       SF_vars(\E f \in Slots : Arrive(f) /\ flight[f].page = p /\ flight[f].reply = "refused")

Spec == Init /\ [][Next]_vars /\ Fairness

-----------------------------------------------------------------------------
(* Properties.                                                             *)

(* A page polls with exactly one interval while it shows the dashboard and *)
(* with none otherwise, also when a check and a login both succeed.        *)
TimersMatchScreen ==
  \A p \in Pages : timers[p] = IF screen[p] = "dashboard" THEN 1 ELSE 0

(* A dashboard without a valid session does not stay on the screen. *)
StaleDashboardLeaves ==
  \A p \in Pages :
    (screen[p] = "dashboard" /\ ~validate(cookie)) ~> (screen[p] # "dashboard" \/ validate(cookie))
=============================================================================
