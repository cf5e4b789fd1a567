--------------------------- MODULE PublicProxyProofs ---------------------------
(***************************************************************************)
(* Proofs about PublicProxy, for any finite set of requests, any sessions, *)
(* names, limit and length of the clock: types, the gauges, and the rate   *)
(* limiter's refusals.                                                     *)
(***************************************************************************)
EXTENDS PublicProxy, FiniteSetTheorems, TLAPS

Held      == In(Waiting \cup {"dropped"})
HeldBy(s) == {q \in Held : via[q] = s}

(* What a location says about the rest of a request. *)
Stations ==
  \A q \in Requests :
    /\ pc[q] \in {"idle", "routed", "stamped", "limited"} => passed_at[q] = None
    /\ pc[q] \in {"routed", "stamped", "allowed", "limited"} => name[q] \in Names
    /\ pc[q] \in {"stamped", "limited"} => stamp[q] \in Instants
    /\ stamp[q] # None => stamp[q] <= clock
    /\ pc[q] \in Waiting => via[q] \in Sessions

(* Requests for a name that the limiter let through since an instant. *)
PassedSince(c, t) ==
  {p \in Requests : name[p] = c /\ passed_at[p] # None /\ passed_at[p] >= t}

(* A window counts nothing but requests let through since it started. *)
WindowFits(c) ==
  counters[c] # None =>
    /\ counters[c].start <= clock
    /\ counters[c].count <= Cardinality(PassedSince(c, counters[c].start))

Windows == \A c \in Names : WindowFits(c)

IInv == TypeOK /\ Stations /\ GaugesBalanced /\ Windows /\ RefusedOnlyWhenBusy

-----------------------------------------------------------------------------
(* Sets of requests can be counted. *)
LEMMA Countable ==
  ASSUME NEW S \in SUBSET Requests
  PROVE  IsFiniteSet(S) /\ Cardinality(S) \in Nat
BY ProxyAssumption, FS_Subset, FS_CardinalityType

LEMMA CountGrows ==
  ASSUME NEW T \in SUBSET Requests, NEW S \in SUBSET T
  PROVE  Cardinality(S) <= Cardinality(T)
BY Countable, FS_Subset

LEMMA CountAdd ==
  ASSUME NEW S \in SUBSET Requests, NEW q \in Requests \ S
  PROVE  Cardinality(S \cup {q}) = Cardinality(S) + 1
BY Countable, FS_AddElement

LEMMA CountRemove ==
  ASSUME NEW S \in SUBSET Requests, NEW q \in S
  PROVE  Cardinality(S \ {q}) = Cardinality(S) - 1
BY Countable, FS_RemoveElement

LEMMA InitIInv == Init => IInv
<1> SUFFICES ASSUME Init PROVE IInv
  OBVIOUS
<1>1. Registry!LeaseTypeOK BY DEF Init, Registry!LeaseInit, Registry!LeaseTypeOK
<1>2. clock \in Instants BY ProxyAssumption DEF Init, Instants
<1>3. TypeOK BY <1>1, <1>2 DEF Init, TypeOK
<1>4. Stations BY DEF Init, Stations, Waiting
<1>5. Held = {} BY DEF Init, Held, In, Waiting
<1>6. GaugesBalanced
  <2>1. \A s \in Sessions : {q \in Held : via[q] = s} = {} BY <1>5
  <2> QED BY <1>5, <2>1, FS_EmptySet DEF Init, GaugesBalanced, Held
<1>7. Windows BY DEF Init, Windows, WindowFits
<1>8. RefusedOnlyWhenBusy BY DEF Init, RefusedOnlyWhenBusy, In
<1> QED BY <1>3, <1>4, <1>6, <1>7, <1>8 DEF IInv

-----------------------------------------------------------------------------
(* The gauges.  A request is taken in, is let go of, or nothing changes.   *)
LEMMA GaugesStay ==
  ASSUME GaugesBalanced, UNCHANGED gaugeVars, Held' = Held,
         \A q \in Held : via'[q] = via[q]
  PROVE  GaugesBalanced'
<1>1. \A s \in Sessions : HeldBy(s)' = HeldBy(s) BY DEF HeldBy
<1> QED BY <1>1 DEF GaugesBalanced, gaugeVars, Held, HeldBy

LEMMA GaugesTake ==
  ASSUME TypeOK, GaugesBalanced, NEW q \in Requests, Lookup(q), clients[name[q]] # None,
         name[q] \in Names
  PROVE  GaugesBalanced'
<1>1. PICK s \in Sessions : s = clients[name[q]] BY DEF TypeOK, Registry!LeaseTypeOK
<1>2. Held' = Held \cup {q} /\ q \notin Held /\ Held \in SUBSET Requests
  BY DEF Lookup, GoTo, TypeOK, Held, In, Waiting
<1>3. active_connections' = Cardinality(Held)'
  BY <1>2, CountAdd DEF Lookup, GaugesBalanced, Held
<1>4. \A t \in Sessions \ {s} : HeldBy(t)' = HeldBy(t)
  BY <1>1, <1>2 DEF HeldBy, Lookup, TypeOK
<1>5. HeldBy(s)' = HeldBy(s) \cup {q} /\ q \notin HeldBy(s) /\ HeldBy(s) \in SUBSET Requests
  BY <1>1, <1>2 DEF HeldBy, Lookup, TypeOK
<1>6. Cardinality(HeldBy(s)') = Cardinality(HeldBy(s)) + 1 BY <1>5, CountAdd
<1>7. \A t \in Sessions : active_streams'[t] = Cardinality(HeldBy(t)')
  <2>1. \A t \in Sessions : active_streams[t] = Cardinality(HeldBy(t))
    BY DEF GaugesBalanced, Held, HeldBy
  <2>2. active_streams' = [active_streams EXCEPT ![s] = @ + 1] BY <1>1 DEF Lookup
  <2> QED BY <1>4, <1>6, <2>1, <2>2 DEF TypeOK
<1> QED BY <1>3, <1>7 DEF GaugesBalanced, Held, HeldBy

LEMMA GaugesGive ==
  ASSUME TypeOK, Stations, GaugesBalanced, NEW q \in Requests, pc[q] \in Waiting,
         NEW outcome \in Outcomes \ {"dropped"}, Settle(q, outcome)
  PROVE  GaugesBalanced'
<1>1. PICK s \in Sessions : s = via[q] BY DEF Stations
<1>2. Held' = Held \ {q} /\ q \in Held /\ Held \in SUBSET Requests
  BY DEF Settle, GoTo, TypeOK, Held, In, Waiting, Outcomes
<1>3. active_connections' = Cardinality(Held)'
  BY <1>2, CountRemove DEF Settle, GaugesBalanced, Held
<1>4. \A t \in Sessions \ {s} : HeldBy(t)' = HeldBy(t)
  BY <1>1, <1>2 DEF HeldBy, Settle
<1>5. HeldBy(s)' = HeldBy(s) \ {q} /\ q \in HeldBy(s) /\ HeldBy(s) \in SUBSET Requests
  BY <1>1, <1>2 DEF HeldBy, Settle
<1>6. Cardinality(HeldBy(s)') = Cardinality(HeldBy(s)) - 1 BY <1>5, CountRemove
<1>7. \A t \in Sessions : active_streams'[t] = Cardinality(HeldBy(t)')
  BY <1>1, <1>4, <1>6 DEF Settle, TypeOK, GaugesBalanced, Held, HeldBy
<1> QED BY <1>3, <1>7 DEF GaugesBalanced, Held, HeldBy

LEMMA GaugesStep ==
  ASSUME IInv, [Next]_vars
  PROVE  GaugesBalanced'
<1> USE DEF IInv
<1>1. ASSUME NEW q \in Requests, Request(q)
      PROVE  GaugesBalanced'
  <2>1. CASE Lookup(q) /\ clients[name[q]] # None
    BY <2>1, GaugesTake DEF Lookup, Stations
  <2>2. CASE Respond(q) \/ TunnelFails(q)
    BY <2>2, GaugesGive DEF Respond, TunnelFails, Waiting, Outcomes
  <2>3. CASE Lookup(q) /\ clients[name[q]] = None
    <3>1. Held' = Held /\ via' = via /\ UNCHANGED gaugeVars
      BY <2>3 DEF Lookup, GoTo, TypeOK, Held, In, Waiting
    <3> QED BY <3>1, GaugesStay
  <2>4. CASE ToDashboard(q) \/ Route(q) \/ ReadClock(q) \/ CheckRate(q)
    <3>1. Held' = Held /\ via' = via /\ UNCHANGED gaugeVars
      BY <2>4 DEF ToDashboard, Route, ReadClock, CheckRate, GoTo, TypeOK, Held, In, Waiting
    <3> QED BY <3>1, GaugesStay
  <2>5. CASE Advance(q) \/ ClientLeaves(q)
    <3>1. Held' = Held /\ via' = via /\ UNCHANGED gaugeVars
      BY <2>5 DEF Advance, ClientLeaves, GoTo, TypeOK, Held, In, Waiting
    <3> QED BY <3>1, GaugesStay
  <2> QED BY <1>1, <2>1, <2>2, <2>3, <2>4, <2>5 DEF Request
<1>2. CASE RegistryStep \/ Tick \/ UNCHANGED vars
  <2>1. Held' = Held /\ via' = via /\ UNCHANGED gaugeVars
    BY <1>2 DEF RegistryStep, Tick, vars, requestVars, gaugeVars, Held, In
  <2> QED BY <2>1, GaugesStay
<1> QED BY <1>1, <1>2 DEF Next

-----------------------------------------------------------------------------
(* Types.                                                                  *)
LEMMA TypesStep ==
  ASSUME IInv, [Next]_vars, GaugesBalanced'
  PROVE  TypeOK' /\ Stations'
<1> USE DEF IInv, TypeOK, Stations, Waiting, Outcomes
<1>1. active_connections' \in Nat
  <2>1. Held' \in SUBSET Requests BY DEF Held, In
  <2> QED BY <2>1, Countable DEF GaugesBalanced, Held
<1>2. \A s \in Sessions : active_streams'[s] \in Nat
  <2>1. \A s \in Sessions : HeldBy(s)' \in SUBSET Requests BY DEF HeldBy, Held, In
  <2> QED BY <2>1, Countable DEF GaugesBalanced, Held, HeldBy
<1> USE <1>1, <1>2
<1> USE DEF registryVars, gaugeVars, requestVars
<1>3. ASSUME NEW q \in Requests, Request(q)
      PROVE  TypeOK' /\ Stations'
  <2>1. Registry!LeaseTypeOK'
    BY <1>3 DEF Request, ToDashboard, Route, ReadClock, CheckRate, Lookup, Advance, Respond,
                TunnelFails, ClientLeaves, Settle, Registry!LeaseTypeOK
  <2>2. CASE ToDashboard(q) BY <2>1, <2>2 DEF ToDashboard, GoTo
  <2>3. CASE Route(q) BY <2>1, <2>3 DEF Route, GoTo
  <2>4. CASE ReadClock(q) BY <2>1, <2>4, ProxyAssumption DEF ReadClock, GoTo, Instants
  <2>5. CASE CheckRate(q)
    <3>1. Limit # 0 /\ Allows(q) => Counted(q) \in [start : Instants, count : 0 .. Limit]
      <4>1. EntryFor(q) \in [start : Instants, count : 0 .. Limit]
        BY <2>5, ProxyAssumption DEF CheckRate, EntryFor
      <4> QED BY <2>5, <4>1, ProxyAssumption DEF CheckRate, Allows, Counted
    <3>2. name[q] \in Names BY <2>5 DEF CheckRate
    <3>3. counters' \in [Names -> [start : Instants, count : 0 .. Limit] \cup {None}]
      BY <2>5, <3>1, <3>2 DEF CheckRate
    <3> QED BY <2>1, <2>5, <3>3 DEF CheckRate, GoTo
  <2>6. CASE Lookup(q)
    <3>1. clients[name[q]] \in Sessions \cup {None} BY <2>6 DEF Lookup, Registry!LeaseTypeOK
    <3> QED BY <2>1, <2>6, <3>1 DEF Lookup, GoTo
  <2>7. CASE Advance(q) BY <2>1, <2>7 DEF Advance, GoTo
  <2>8. CASE Respond(q) \/ TunnelFails(q) BY <2>1, <2>8 DEF Respond, TunnelFails, Settle, GoTo
  <2>9. CASE ClientLeaves(q) BY <2>1, <2>9 DEF ClientLeaves, GoTo
  <2> QED BY <1>3, <2>2, <2>3, <2>4, <2>5, <2>6, <2>7, <2>8, <2>9 DEF Request
<1>4. CASE RegistryStep
  <2>1. Registry!LeaseTypeOK'
    BY <1>4 DEF RegistryStep, Registry!LeaseTypeOK, Registry!LeaseNext, Registry!Open,
           Registry!Close, Registry!Discard, Registry!Claim, Registry!Release, Registry!Reset
  <2> QED BY <1>4, <2>1 DEF RegistryStep
<1>5. CASE Tick
  BY <1>5, ProxyAssumption DEF Tick, Instants, Registry!LeaseTypeOK
<1>6. CASE UNCHANGED vars
  BY <1>6 DEF vars, Registry!LeaseTypeOK
<1> QED BY <1>3, <1>4, <1>5, <1>6 DEF Next

-----------------------------------------------------------------------------
(* The limiter.                                                            *)

(* Requests let through stay so; a window that stays counts on.            *)
LEMMA WindowStays ==
  ASSUME IInv, TypeOK', clock <= clock', NEW c \in Names, counters'[c] = counters[c],
         \A t \in Instants : PassedSince(c, t) \subseteq PassedSince(c, t)'
  PROVE  WindowFits(c)'
<1> SUFFICES ASSUME counters[c] # None PROVE WindowFits(c)'
  BY DEF WindowFits
<1>1. counters[c] \in [start : Instants, count : 0 .. Limit] BY DEF IInv, TypeOK
<1>2. PICK t \in Instants : t = counters[c].start BY <1>1
<1>3. t <= clock /\ counters[c].count <= Cardinality(PassedSince(c, t))
  BY <1>2 DEF IInv, Windows, WindowFits
<1>4. clock \in Int /\ clock' \in Int /\ t \in Int /\ counters[c].count \in Int
  BY <1>1, ProxyAssumption DEF IInv, TypeOK, Instants
<1>5. PassedSince(c, t) \in SUBSET Requests /\ PassedSince(c, t)' \in SUBSET Requests
  BY DEF PassedSince
<1>6. Cardinality(PassedSince(c, t)) <= Cardinality(PassedSince(c, t)')
  BY <1>5, CountGrows
<1>7. Cardinality(PassedSince(c, t)) \in Nat /\ Cardinality(PassedSince(c, t)') \in Nat
  BY <1>5, Countable
<1>8. t <= clock' /\ counters[c].count <= Cardinality(PassedSince(c, t)')
  BY <1>3, <1>4, <1>6, <1>7
<1> QED BY <1>2, <1>8 DEF WindowFits

(* What a refusal rested on stays. *)
Recent(q) == {p \in Requests : /\ name[p] = name[q]
                               /\ passed_at[p] # None
                               /\ passed_at[p] + Second > stamp[q]}

LEMMA RefusalStays ==
  ASSUME IInv, NEW q \in Requests, pc[q] = "limited",
         name'[q] = name[q], stamp'[q] = stamp[q], Recent(q) \subseteq Recent(q)'
  PROVE  Limit <= Cardinality(Recent(q)')
<1>1. Limit <= Cardinality(Recent(q)) BY DEF IInv, RefusedOnlyWhenBusy, Recent, In
<1>2. Recent(q) \in SUBSET Requests /\ Recent(q)' \in SUBSET Requests BY DEF Recent
<1>3. Cardinality(Recent(q)) <= Cardinality(Recent(q)') BY <1>2, CountGrows
<1>4. Cardinality(Recent(q)) \in Nat /\ Cardinality(Recent(q)') \in Nat BY <1>2, Countable
<1> QED BY <1>1, <1>3, <1>4, ProxyAssumption

(* Any step but the limiter's leaves everything it knows in place. *)
LEMMA OthersStep ==
  ASSUME IInv, TypeOK', Stations', clock <= clock',
         UNCHANGED <<passed_at, counters>>,
         \A p \in Requests : pc[p] # "idle" => name'[p] = name[p],
         \A p \in Requests : pc[p] = "idle" => pc'[p] # "limited",
         \A p \in Requests : pc'[p] = "limited" => pc[p] = "limited" /\ stamp'[p] = stamp[p]
  PROVE  Windows' /\ RefusedOnlyWhenBusy'
<1>1. \A p \in Requests : passed_at[p] # None => name'[p] = name[p]
  BY DEF IInv, Stations
<1>2. \A c \in Names, t \in Instants : PassedSince(c, t) \subseteq PassedSince(c, t)'
  BY <1>1 DEF PassedSince
<1>3. Windows' BY <1>2, WindowStays DEF Windows
<1>4. ASSUME NEW q \in Requests, pc'[q] = "limited"
      PROVE  Limit <= Cardinality(Recent(q)')
  <2>1. pc[q] = "limited" /\ name'[q] = name[q] /\ stamp'[q] = stamp[q] BY <1>4
  <2>2. Recent(q) \subseteq Recent(q)' BY <1>1, <2>1 DEF Recent
  <2> QED BY <2>1, <2>2, RefusalStays
<1> QED BY <1>3, <1>4 DEF RefusedOnlyWhenBusy, Recent, In

(* A request passes: it is one more in its window, or the first of one.    *)
LEMMA AllowStep ==
  ASSUME IInv, TypeOK', NEW q \in Requests, CheckRate(q), Allows(q), Limit # 0
  PROVE  WindowFits(name[q])'
<1>1. PICK c \in Names : c = name[q] BY DEF IInv, CheckRate, Stations
<1>2. PICK n \in Instants : n = stamp[q] /\ n <= clock
  BY ProxyAssumption DEF IInv, CheckRate, Stations, Instants
<1>3. clock \in Instants /\ passed_at[q] = None BY DEF IInv, TypeOK, CheckRate, Stations
<1>4. /\ counters'[c] = Counted(q) /\ name' = name /\ clock' = clock
      /\ passed_at' = [passed_at EXCEPT ![q] = clock]
  BY <1>1 DEF CheckRate, IInv, TypeOK
<1>5. Instants \subseteq Nat BY DEF Instants
<1>6. \A t \in Instants : t <= clock =>
        /\ PassedSince(c, t) \cup {q} \in SUBSET (PassedSince(c, t)')
        /\ q \notin PassedSince(c, t)
        /\ PassedSince(c, t) \in SUBSET Requests /\ PassedSince(c, t)' \in SUBSET Requests
  BY <1>1, <1>3, <1>4, ProxyAssumption DEF PassedSince, IInv, TypeOK, Instants
<1>7. \A t \in Instants : t <= clock =>
        Cardinality(PassedSince(c, t)) + 1 <= Cardinality(PassedSince(c, t)')
  <2> SUFFICES ASSUME NEW t \in Instants, t <= clock
               PROVE  Cardinality(PassedSince(c, t)) + 1 <= Cardinality(PassedSince(c, t)')
    OBVIOUS
  <2>1. Cardinality(PassedSince(c, t) \cup {q}) <= Cardinality(PassedSince(c, t)')
    BY <1>6, CountGrows
  <2>2. Cardinality(PassedSince(c, t) \cup {q}) = Cardinality(PassedSince(c, t)) + 1
    BY <1>6, CountAdd
  <2> QED BY <2>1, <2>2
<1>8. \A t \in Instants : /\ Cardinality(PassedSince(c, t)) \in Nat
                         /\ Cardinality(PassedSince(c, t)') \in Nat
  <2>1. \A t \in Instants : /\ PassedSince(c, t) \in SUBSET Requests
                           /\ PassedSince(c, t)' \in SUBSET Requests
    BY DEF PassedSince
  <2> QED BY <2>1, Countable
<1>9. CASE Counted(q) = [start |-> n, count |-> 1]
  <2>1. 1 <= Cardinality(PassedSince(c, n)') BY <1>2, <1>7, <1>8
  <2> QED BY <1>1, <1>2, <1>4, <1>9, <2>1 DEF WindowFits
<1>10. CASE counters[c] # None /\ Counted(q) = [counters[c] EXCEPT !.count = @ + 1]
  <2>1. counters[c] \in [start : Instants, count : 0 .. Limit] BY <1>10 DEF IInv, TypeOK
  <2>2. PICK t \in Instants : t = counters[c].start BY <2>1
  <2>3. t <= clock /\ counters[c].count <= Cardinality(PassedSince(c, t))
    BY <1>10, <2>2 DEF IInv, Windows, WindowFits
  <2>4. counters[c].count + 1 <= Cardinality(PassedSince(c, t)')
    BY <1>7, <1>8, <2>1, <2>3, ProxyAssumption
  <2>5. Counted(q).start = t /\ Counted(q).count = counters[c].count + 1
    BY <1>10, <2>1, <2>2
  <2> QED BY <1>1, <1>4, <2>3, <2>4, <2>5 DEF WindowFits
<1>11. \/ Counted(q) = [start |-> n, count |-> 1]
       \/ counters[c] # None /\ Counted(q) = [counters[c] EXCEPT !.count = @ + 1]
  BY <1>1, <1>2 DEF Counted, EntryFor
<1> QED BY <1>9, <1>10, <1>11

(* A request is refused: its window counts Limit others, all recent.       *)
LEMMA RefuseStep ==
  ASSUME IInv, NEW q \in Requests, CheckRate(q), ~Allows(q)
  PROVE  Limit <= Cardinality(Recent(q)')
<1>1. PICK c \in Names : c = name[q] BY DEF IInv, CheckRate, Stations
<1>2. PICK n \in Instants : n = stamp[q] BY DEF IInv, CheckRate, Stations
<1>3. Instants \subseteq Nat /\ Limit \in Nat \ {0} /\ Second \in Nat \ {0}
  BY ProxyAssumption DEF Instants, Allows
<1>4. /\ counters[c] # None /\ Elapsed(counters[c].start, n) < Second
      /\ counters[c].count + 1 > Limit
  <2>1. \/ Counted(q).count = 1
        \/ /\ counters[c] # None /\ Elapsed(counters[c].start, n) < Second
           /\ Counted(q).count = counters[c].count + 1
    <3>1. CASE counters[c] = None BY <1>1, <1>2, <1>3, <3>1 DEF Counted, EntryFor
    <3>2. CASE counters[c] # None
      <4>1. counters[c] \in [start : Instants, count : 0 .. Limit] BY <3>2 DEF IInv, TypeOK
      <4>2. Elapsed(counters[c].start, n) \in Nat BY <4>1, <1>3 DEF Elapsed
      <4> QED BY <1>1, <1>2, <1>3, <3>2, <4>1, <4>2 DEF Counted, EntryFor
    <3> QED BY <3>1, <3>2
  <2>2. ~(Counted(q).count <= Limit) BY DEF Allows
  <2>3. counters[c] # None => counters[c].count \in Nat BY <1>3 DEF IInv, TypeOK
  <2> QED BY <1>3, <2>1, <2>2, <2>3
<1>5. counters[c] \in [start : Instants, count : 0 .. Limit] BY <1>4 DEF IInv, TypeOK
<1>6. PICK t \in Instants : t = counters[c].start BY <1>5
<1>7. Limit <= Cardinality(PassedSince(c, t))
  <2>1. counters[c].count <= Cardinality(PassedSince(c, t))
    BY <1>4, <1>6 DEF IInv, Windows, WindowFits
  <2>2. PassedSince(c, t) \in SUBSET Requests BY DEF PassedSince
  <2>3. Cardinality(PassedSince(c, t)) \in Nat BY <2>2, Countable
  <2> QED BY <1>3, <1>4, <1>5, <2>1, <2>3
<1>8. name' = name /\ stamp' = stamp /\ passed_at' = passed_at BY DEF CheckRate
<1>9. PassedSince(c, t) \subseteq Recent(q)'
  <2> SUFFICES ASSUME NEW p \in Requests, name[p] = c, passed_at[p] # None, passed_at[p] >= t
               PROVE  p \in Recent(q)'
    BY DEF PassedSince
  <2>1. passed_at[p] \in Nat BY <1>3 DEF IInv, TypeOK
  <2>2. passed_at[p] + Second > n BY <1>3, <1>4, <1>6, <2>1 DEF Elapsed
  <2> QED BY <1>1, <1>2, <1>8, <2>2 DEF Recent
<1>10. Recent(q)' \in SUBSET Requests BY DEF Recent
<1>11. Cardinality(PassedSince(c, t)) <= Cardinality(Recent(q)') BY <1>9, <1>10, CountGrows
<1>12. Cardinality(PassedSince(c, t)) \in Nat /\ Cardinality(Recent(q)') \in Nat
  <2>1. PassedSince(c, t) \in SUBSET Requests BY DEF PassedSince
  <2> QED BY <1>10, <2>1, Countable
<1> QED BY <1>3, <1>7, <1>11, <1>12

LEMMA LimiterStep ==
  ASSUME IInv, TypeOK', NEW q \in Requests, CheckRate(q)
  PROVE  Windows' /\ RefusedOnlyWhenBusy'
<1>1. /\ name' = name /\ stamp' = stamp /\ clock' = clock
      /\ passed_at[q] = None /\ name[q] \in Names /\ clock \in Nat
      /\ \A p \in Requests \ {q} : pc'[p] = pc[p] /\ passed_at'[p] = passed_at[p]
      /\ \A c \in Names \ {name[q]} : counters'[c] = counters[c]
  BY DEF CheckRate, GoTo, IInv, TypeOK, Stations, Instants
<1>2. \A c \in Names, t \in Instants : PassedSince(c, t) \subseteq PassedSince(c, t)'
  BY <1>1 DEF PassedSince
<1>3. Windows'
  <2>1. \A c \in Names \ {name[q]} : WindowFits(c)' BY <1>1, <1>2, WindowStays
  <2>2. WindowFits(name[q])'
    <3>1. CASE Allows(q) /\ Limit # 0 BY <3>1, AllowStep
    <3>2. CASE ~Allows(q) \/ Limit = 0
      <4>1. counters'[name[q]] = counters[name[q]] BY <3>2 DEF CheckRate
      <4>2. PICK c \in Names : c = name[q] BY <1>1
      <4>3. WindowFits(c)' BY <1>1, <1>2, <4>1, <4>2, WindowStays
      <4> QED BY <1>1, <4>2, <4>3 DEF WindowFits
    <3> QED BY <3>1, <3>2
  <2>3. ASSUME NEW c \in Names PROVE WindowFits(c)'
    BY <1>1, <2>1, <2>2 DEF WindowFits
  <2> QED BY <2>3 DEF Windows
<1>4. ASSUME NEW p \in Requests, pc'[p] = "limited"
      PROVE  Limit <= Cardinality(Recent(p)')
  <2>1. CASE p = q
    <3>1. ~Allows(q) BY <1>4, <2>1 DEF CheckRate, GoTo, IInv, TypeOK
    <3> QED BY <2>1, <3>1, RefuseStep
  <2>2. CASE p # q
    <3>1. Recent(p) \subseteq Recent(p)' BY <1>1 DEF Recent
    <3> QED BY <1>1, <1>4, <2>2, <3>1, RefusalStays
  <2> QED BY <2>1, <2>2
<1> QED BY <1>3, <1>4 DEF RefusedOnlyWhenBusy, Recent, In

-----------------------------------------------------------------------------
(* Every step keeps the invariant. *)
LEMMA NextIInv == IInv /\ [Next]_vars => IInv'
<1> SUFFICES ASSUME IInv, [Next]_vars PROVE IInv'
  OBVIOUS
<1>1. GaugesBalanced' BY GaugesStep
<1>2. TypeOK' /\ Stations' BY <1>1, TypesStep
<1>3. Windows' /\ RefusedOnlyWhenBusy'
  <2> USE DEF IInv, TypeOK
  <2>1. clock \in Nat BY DEF Instants
  <2>2. ASSUME NEW q \in Requests, ToDashboard(q) \/ Route(q) \/ ReadClock(q)
        PROVE  Windows' /\ RefusedOnlyWhenBusy'
    BY <1>2, <2>1, <2>2, OthersStep DEF ToDashboard, Route, ReadClock, GoTo
  <2>3. ASSUME NEW q \in Requests, Lookup(q) \/ Advance(q) \/ ClientLeaves(q)
        PROVE  Windows' /\ RefusedOnlyWhenBusy'
    BY <1>2, <2>1, <2>3, OthersStep DEF Lookup, Advance, ClientLeaves, GoTo, Waiting
  <2>4. ASSUME NEW q \in Requests, Respond(q) \/ TunnelFails(q)
        PROVE  Windows' /\ RefusedOnlyWhenBusy'
    BY <1>2, <2>1, <2>4, OthersStep DEF Respond, TunnelFails, Settle, GoTo, Waiting
  <2>5. CASE RegistryStep \/ Tick \/ UNCHANGED vars
    BY <1>2, <2>1, <2>5, OthersStep DEF RegistryStep, Tick, vars, requestVars
  <2>6. ASSUME NEW q \in Requests, CheckRate(q)
        PROVE  Windows' /\ RefusedOnlyWhenBusy'
    BY <1>2, <2>6, LimiterStep
  <2> QED BY <2>2, <2>3, <2>4, <2>5, <2>6 DEF Next, Request
<1> QED BY <1>1, <1>2, <1>3 DEF IInv

(* The inductive invariant holds in every reachable state. *)
THEOREM InductiveInvariant == Spec => []IInv
BY InitIInv, NextIInv, PTL DEF Spec

(* Every request, window and gauge of the proxy keeps its type; no gauge   *)
(* wraps below zero.                                                       *)
THEOREM TypeCorrect == Spec => []TypeOK
<1>1. IInv => TypeOK BY DEF IInv
<1> QED BY <1>1, InductiveInvariant, PTL

(* Every way out of handle_proxy_request gives both gauges back once; only *)
(* futures dropped at an await keep them.                                  *)
THEOREM GaugesAreBalanced == Spec => []GaugesBalanced
<1>1. IInv => GaugesBalanced BY DEF IInv
<1> QED BY <1>1, InductiveInvariant, PTL

(* RateLimiter::check refuses a request only when a limit's worth of       *)
(* others passed since one second before it read the clock, in whatever    *)
(* order requests read the clock and lock the entry.                       *)
THEOREM RefusalsAreDue == Spec => []RefusedOnlyWhenBusy
<1>1. IInv => RefusedOnlyWhenBusy BY DEF IInv
<1> QED BY <1>1, InductiveInvariant, PTL
=============================================================================
