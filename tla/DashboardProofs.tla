---------------------------- MODULE DashboardProofs ----------------------------
(***************************************************************************)
(* Proofs about Dashboard, for any pages, session ids and requests.        *)
(***************************************************************************)
EXTENDS Dashboard, TLAPS

Marks  == {"unused", "valid", "expired", "removed"}
Kinds  == {"check", "login", "bad login", "logout", "view"}

StoreTypes == store \in [Ids -> Marks] /\ cookie \in Ids \cup {None}
FlightTypes == flight \in [Slots -> Request \cup {None}]

(* Why the timers match: a handle is held exactly while the dashboard is   *)
(* on the screen, so that ShowDashboard and ShowLogin, which look at the   *)
(* handle only, start and clear the right number of intervals.             *)
PageShape ==
  /\ screen \in [Pages -> {"closed", "login", "dashboard"}]
  /\ refreshInterval \in [Pages -> BOOLEAN]
  /\ timers \in [Pages -> Nat]
  /\ \A p \in Pages : /\ screen[p] = "dashboard" => refreshInterval[p] = TRUE
                      /\ screen[p] # "dashboard" => refreshInterval[p] = FALSE
  /\ \A p \in Pages : timers[p] = IF screen[p] = "dashboard" THEN 1 ELSE 0

IInv == StoreTypes /\ FlightTypes /\ PageShape

LEMMA Initially == Init => IInv
BY DEF Init, IInv, StoreTypes, FlightTypes, PageShape, Marks

(* Requests stay requests. *)
LEMMA ReplyTypes ==
  ASSUME FlightTypes, NEW f \in Slots, flight[f] # None,
         NEW answer \in {"ok", "refused", "lost"}, NEW sets \in Ids \cup {None, "keep"},
         Reply(f, answer, sets)
  PROVE  FlightTypes'
<1>1. flight[f] \in Request BY DEF FlightTypes
<1>2. [[[flight[f] EXCEPT !.reply = answer] EXCEPT !.sets = sets] EXCEPT !.carries = None] \in Request
  BY <1>1 DEF Request
<1>3. flight' = [flight EXCEPT ![f] =
        [[[flight[f] EXCEPT !.reply = answer] EXCEPT !.sets = sets] EXCEPT !.carries = None]]
  BY DEF Reply, FlightTypes
<1> QED BY <1>2, <1>3 DEF FlightTypes

LEMMA FetchTypes ==
  ASSUME StoreTypes, NEW p \in Pages, NEW k \in Kinds
  PROVE  Fetch(p, k) \in Request
BY DEF StoreTypes, Fetch, Request, Kinds

LEMMA SendTypes ==
  ASSUME StoreTypes, FlightTypes, NEW p \in Pages, NEW k \in Kinds, Send(p, k)
  PROVE  FlightTypes'
<1>1. PICK f \in Slots : flight' = [flight EXCEPT ![f] = Fetch(p, k)]
  BY DEF Send
<1> QED BY <1>1, FetchTypes DEF FlightTypes

(* What a page shows decides its intervals. *)
LEMMA ShowShape ==
  ASSUME PageShape, NEW p \in Pages, ShowLogin(p) \/ ShowDashboard(p)
  PROVE  PageShape'
<1> DEFINE other == Pages \ {p}
<1>1. /\ screen \in [Pages -> {"closed", "login", "dashboard"}]
      /\ timers[p] = (IF refreshInterval[p] THEN 1 ELSE 0)
      /\ refreshInterval \in [Pages -> BOOLEAN] /\ timers \in [Pages -> Nat]
  BY DEF PageShape
<1>2. CASE ShowLogin(p)
  <2>1. screen'[p] = "login" /\ timers'[p] = 0 /\ refreshInterval'[p] = FALSE
    BY <1>1, <1>2 DEF ShowLogin
  <2>2. /\ \A q \in other : /\ screen'[q] = screen[q]
                            /\ timers'[q] = timers[q]
                            /\ refreshInterval'[q] = refreshInterval[q]
        /\ screen' \in [Pages -> {"closed", "login", "dashboard"}]
        /\ refreshInterval' \in [Pages -> BOOLEAN]
    BY <1>1, <1>2 DEF ShowLogin
  <2>3. timers' \in [Pages -> Nat] BY <1>1, <1>2, <2>1 DEF ShowLogin
  <2> QED BY <2>1, <2>2, <2>3 DEF PageShape
<1>3. CASE ShowDashboard(p)
  <2>1. screen'[p] = "dashboard" /\ timers'[p] = 1 /\ refreshInterval'[p] = TRUE
    BY <1>1, <1>3 DEF ShowDashboard
  <2>2. /\ \A q \in other : /\ screen'[q] = screen[q]
                            /\ timers'[q] = timers[q]
                            /\ refreshInterval'[q] = refreshInterval[q]
        /\ screen' \in [Pages -> {"closed", "login", "dashboard"}]
        /\ refreshInterval' \in [Pages -> BOOLEAN]
    BY <1>1, <1>3 DEF ShowDashboard
  <2>3. timers' \in [Pages -> Nat] BY <1>1, <1>3, <2>1 DEF ShowDashboard
  <2> QED BY <2>1, <2>2, <2>3 DEF PageShape
<1> QED BY <1>2, <1>3

LEMMA PageStep ==
  ASSUME IInv, NEW p \in Pages,
         Load(p) \/ HandleLogin(p) \/ HandleLogout(p) \/ Refresh(p) \/ Close(p)
  PROVE  IInv'
<1> USE DEF IInv
<1>1. CASE Load(p)
  <2>1. PageShape' BY <1>1 DEF Load, PageShape
  <2>2. FlightTypes' BY <1>1, SendTypes DEF Load, Kinds
  <2> QED BY <1>1, <2>1, <2>2 DEF Load, StoreTypes
<1>2. CASE HandleLogin(p) \/ HandleLogout(p) \/ Refresh(p)
  <2>1. \E k \in Kinds : Send(p, k)
    BY <1>2 DEF HandleLogin, HandleLogout, Refresh, Kinds
  <2>2. UNCHANGED <<store, cookie, pageVars>> BY <1>2 DEF HandleLogin, HandleLogout, Refresh
  <2> QED BY <2>1, <2>2, SendTypes DEF StoreTypes, PageShape, pageVars
<1>3. CASE Close(p)
  <2>1. PageShape' BY <1>3 DEF Close, PageShape
  <2>2. ASSUME NEW f \in Slots, flight[f] # None PROVE [flight[f] EXCEPT !.page = None] \in Request
    BY <2>2 DEF FlightTypes, Request
  <2>3. FlightTypes' BY <1>3, <2>2 DEF Close, FlightTypes
  <2> QED BY <1>3, <2>1, <2>3 DEF Close, StoreTypes
<1> QED BY <1>1, <1>2, <1>3

LEMMA ServeStep ==
  ASSUME IInv, NEW f \in Slots, Serve(f)
  PROVE  IInv'
<1> USE DEF IInv
<1>1. flight[f] # None /\ UNCHANGED <<cookie, pageVars>> BY DEF Serve
<1>2. \A s : Validated(s) \in [Ids -> Marks] BY DEF StoreTypes, Validated, Marks
<1>3. store' \in [Ids -> Marks] /\ FlightTypes'
  <2>1. CASE ServeView(f) BY <1>1, <1>2, <2>1, ReplyTypes DEF ServeView
  <2>2. CASE ServeLogin(f)
    <3>1. (\E i \in Ids : store[i] = "unused") => fresh \in Ids BY DEF fresh
    <3> QED BY <1>1, <1>2, <2>2, <3>1, ReplyTypes DEF ServeLogin, Marks
  <2>3. CASE ServeLogout(f)
    BY <1>1, <2>3, ReplyTypes DEF ServeLogout, StoreTypes, Marks
  <2> QED BY <2>1, <2>2, <2>3 DEF Serve
<1> QED BY <1>1, <1>3 DEF StoreTypes, PageShape, pageVars

LEMMA ArriveStep ==
  ASSUME IInv, NEW f \in Slots, Arrive(f)
  PROVE  IInv'
<1> USE DEF IInv
<1>1. flight[f] \in Request /\ store' = store BY DEF Arrive, FlightTypes
<1>2. flight[f].page \in Pages \cup {None} /\ flight[f].sets \in Ids \cup {None, "keep"}
  BY <1>1 DEF Request
<1>3. StoreTypes' BY <1>1, <1>2 DEF Arrive, StoreTypes
<1>4. FlightTypes'
  <2>1. ASSUME flight[f].page # None
        PROVE  [Fetch(flight[f].page, "view") EXCEPT !.carries = cookie'] \in Request
    <3>1. Fetch(flight[f].page, "view") \in Request
      BY <1>2, <2>1, FetchTypes DEF Kinds
    <3> QED BY <1>3, <3>1 DEF StoreTypes, Request
  <2>2. \/ flight' = [flight EXCEPT ![f] = None]
        \/ /\ flight[f].page # None
           /\ flight' = [flight EXCEPT ![f] =
                           [Fetch(flight[f].page, "view") EXCEPT !.carries = cookie']]
    BY DEF Arrive
  <2> QED BY <2>1, <2>2 DEF FlightTypes
<1>5. PageShape'
  <2>1. CASE UNCHANGED pageVars BY <2>1 DEF PageShape, pageVars
  <2>2. CASE flight[f].page \in Pages /\ (ShowLogin(flight[f].page) \/ ShowDashboard(flight[f].page))
    BY <2>2, ShowShape
  <2> QED BY <1>2, <2>1, <2>2 DEF Arrive
<1> QED BY <1>3, <1>4, <1>5

LEMMA Step ==
  ASSUME IInv, [Next]_vars
  PROVE  IInv'
<1> USE DEF IInv
<1>1. ASSUME NEW f \in Slots, Lose(f) PROVE IInv'
  <2>1. FlightTypes' BY <1>1, ReplyTypes DEF Lose
  <2> QED BY <1>1, <2>1 DEF Lose, StoreTypes, PageShape, pageVars
<1>2. CASE (\E s \in Ids : Expire(s) \/ Forget(s)) \/ Restart \/ CookieExpires
  <2>1. UNCHANGED <<pageVars, flight>> BY <1>2 DEF Expire, Forget, Restart, CookieExpires
  <2>2. StoreTypes' BY <1>2 DEF Expire, Forget, Restart, CookieExpires, StoreTypes, Marks
  <2> QED BY <2>1, <2>2 DEF FlightTypes, PageShape, pageVars
<1>3. CASE UNCHANGED vars
  BY <1>3 DEF vars, pageVars, StoreTypes, FlightTypes, PageShape
<1> QED BY <1>1, <1>2, <1>3, PageStep, ServeStep, ArriveStep DEF Next

(* The shape of the pages holds however requests overtake each other.      *)
THEOREM InductiveInvariant == Spec => []IInv
<1>1. Init => IInv BY Initially
<1>2. IInv /\ [Next]_vars => IInv' BY Step
<1> QED BY <1>1, <1>2, PTL DEF Spec

(* Sessions, cookies and requests keep their types. *)
THEOREM TypeCorrect == Spec => []TypeOK
<1>1. IInv => TypeOK BY DEF IInv, StoreTypes, FlightTypes, PageShape, Marks, TypeOK
<1> QED BY <1>1, InductiveInvariant, PTL

(* A page never polls with two intervals, nor on the login form. *)
THEOREM OneIntervalPerDashboard == Spec => []TimersMatchScreen
<1>1. IInv => TimersMatchScreen BY DEF IInv, PageShape, TimersMatchScreen
<1> QED BY <1>1, InductiveInvariant, PTL
=============================================================================
