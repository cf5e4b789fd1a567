--------------------------- MODULE ControlPlaneProofs ---------------------------
(***************************************************************************)
(* Proofs about ControlPlane, for any set of connections and names, any    *)
(* MAX_MISSED and any number of restarts: the inductive invariant, the     *)
(* safety properties that follow from it, and the refinement of NameLease. *)
(***************************************************************************)
EXTENDS ControlPlane, TLAPS

(* The registry starts empty and every connection unaccepted. *)
LEMMA InitIInv == Init => IInv
BY ConnsAssumption, NamesAssumption, MissedAssumption, RestartsAssumption
   DEF Init, IInv, TypeOK, HandlerShape, DistinctSessions, AttendedSlot,
       SoleServer, Numbered, Attending, Locations, Replies

(* The handler's steps before it has a session number. *)
LEMMA EarlySteps ==
  ASSUME IInv, NEW n \in Conns,
         \/ Accept(n) \/ AuthFails(n) \/ RefuseReserved(n)
         \/ \E c \in Names, hb \in BOOLEAN : AuthSucceeds(n, c, hb)
  PROVE  IInv'
<1> USE ConnsAssumption, NamesAssumption, MissedAssumption
        DEF IInv, TypeOK, HandlerShape, DistinctSessions, AttendedSlot, SoleServer,
            Numbered, Attending, Locations, Replies, registryVars, driverVars
<1>1. CASE Accept(n) BY <1>1 DEF Accept
<1>2. CASE AuthFails(n) BY <1>2 DEF AuthFails
<1>3. CASE RefuseReserved(n) BY <1>3 DEF RefuseReserved
<1>4. ASSUME NEW c \in Names, NEW hb \in BOOLEAN, AuthSucceeds(n, c, hb)
      PROVE  IInv'
  BY <1>4 DEF AuthSucceeds
<1> QED BY <1>1, <1>2, <1>3, <1>4

(* fetch_add hands out a number above every number in use. *)
LEMMA DrawStep ==
  ASSUME IInv, NEW n \in Conns, DrawSession(n)
  PROVE  IInv'
<1> USE DEF DrawSession, Numbered, Attending, Locations, registryVars, driverVars
<1>1. TypeOK' BY DEF IInv, TypeOK
<1>2. HandlerShape' BY DEF IInv, TypeOK, HandlerShape
<1>3. DistinctSessions'
  <2> SUFFICES ASSUME NEW i \in Conns, NEW j \in Conns,
                      pc'[i] \in Numbered, pc'[j] \in Numbered,
                      session_id'[i] = session_id'[j]
               PROVE  i = j
    BY DEF DistinctSessions
  <2>1. \A m \in Conns \ {n} : pc'[m] = pc[m] /\ session_id'[m] = session_id[m]
    BY DEF IInv, TypeOK
  <2>2. session_id'[n] = next_session BY DEF IInv, TypeOK
  <2>3. CASE i = n \/ j = n
    BY <2>1, <2>2, <2>3 DEF IInv, TypeOK, HandlerShape
  <2>4. CASE i # n /\ j # n
    BY <2>1, <2>4 DEF IInv, DistinctSessions
  <2> QED BY <2>3, <2>4
<1>4. AttendedSlot' BY ConnsAssumption DEF IInv, TypeOK, AttendedSlot
<1>5. SoleServer' BY DEF IInv, TypeOK, SoleServer
<1> QED BY <1>1, <1>2, <1>3, <1>4, <1>5 DEF IInv

(* The new entry takes the slot; only the entry it displaced is aborted. *)
LEMMA InsertStep ==
  ASSUME IInv, NEW n \in Conns, Insert(n)
  PROVE  IInv'
<1> DEFINE c == client_id[n]
<1> USE DEF Insert, Numbered, Attending, Locations
<1>0. c \in Names /\ ~aborted[n] BY DEF IInv, HandlerShape
<1>1. TypeOK' BY <1>0, ConnsAssumption DEF IInv, TypeOK
<1>2. HandlerShape' BY <1>0, ConnsAssumption DEF IInv, TypeOK, HandlerShape, AttendedSlot
<1>3. DistinctSessions' BY DEF IInv, TypeOK, DistinctSessions
<1>4. AttendedSlot'
  <2> SUFFICES ASSUME NEW d \in Names, clients'[d] # None
               PROVE  /\ pc'[clients'[d]] \in Attending
                      /\ client_id'[clients'[d]] = d
                      /\ ~aborted'[clients'[d]]
    BY DEF AttendedSlot
  <2>1. CASE d = c
    BY <1>0, <2>1 DEF IInv, TypeOK, AttendedSlot
  <2>2. CASE d # c
    BY <1>0, <2>2 DEF IInv, TypeOK, AttendedSlot
  <2> QED BY <2>1, <2>2
<1>5. SoleServer'
  <2> SUFFICES ASSUME NEW m \in Conns, pc'[m] \in Attending, ~aborted'[m]
               PROVE  clients'[client_id'[m]] = m
    BY DEF SoleServer
  <2>1. CASE m = n
    BY <1>0, <2>1 DEF IInv, TypeOK
  <2>2. CASE m # n
    <3>1. client_id[m] \in Names /\ clients[client_id[m]] = m
      BY <2>2 DEF IInv, TypeOK, HandlerShape, SoleServer
    <3>2. client_id[m] # c BY <3>1
    <3> QED BY <1>0, <3>1, <3>2 DEF IInv, TypeOK
  <2> QED BY <2>1, <2>2
<1> QED BY <1>1, <1>2, <1>3, <1>4, <1>5 DEF IInv

(* Writing the router file changes neither the slot nor the driver. *)
LEMMA AddRouteStep ==
  ASSUME IInv, NEW n \in Conns, AddRoute(n)
  PROVE  IInv'
<1> USE DEF AddRoute, Numbered, Attending, Locations, registryVars, driverVars
<1>1. TypeOK' BY DEF IInv, TypeOK, HandlerShape
<1>2. HandlerShape' BY DEF IInv, TypeOK, HandlerShape
<1>3. DistinctSessions' BY DEF IInv, TypeOK, DistinctSessions
<1>4. AttendedSlot' BY ConnsAssumption DEF IInv, TypeOK, AttendedSlot
<1>5. SoleServer' BY DEF IInv, TypeOK, SoleServer
<1> QED BY <1>1, <1>2, <1>3, <1>4, <1>5 DEF IInv

(* The comparison of session numbers in unregister decides exactly whether *)
(* this very handler's entry is in the slot, and it is unless displaced.   *)
LEMMA UnregisterComparesRight ==
  ASSUME IInv, NEW n \in Conns, pc[n] \in Attending
  PROVE  /\ client_id[n] \in Names
         /\ HoldsSlot(n) <=> clients[client_id[n]] = n
         /\ HoldsSlot(n) <=> ~aborted[n]
<1>1. client_id[n] \in Names BY DEF IInv, HandlerShape, Attending
<1>2. HoldsSlot(n) <=> clients[client_id[n]] = n
  BY <1>1, ConnsAssumption
     DEF IInv, TypeOK, HoldsSlot, AttendedSlot, DistinctSessions, Numbered, Attending
<1>3. clients[client_id[n]] = n <=> ~aborted[n]
  BY <1>1, ConnsAssumption DEF IInv, TypeOK, AttendedSlot, SoleServer
<1> QED BY <1>1, <1>2, <1>3

(* A handler that ends frees its own slot and nobody else's. *)
LEMMA UnregisterStep ==
  ASSUME IInv, NEW n \in Conns, Unregister(n)
  PROVE  IInv'
<1> USE DEF Unregister, Numbered, Attending, Locations, driverVars
<1>0. /\ client_id[n] \in Names
      /\ HoldsSlot(n) <=> clients[client_id[n]] = n
  BY UnregisterComparesRight
<1>1. TypeOK' BY <1>0 DEF IInv, TypeOK
<1>2. HandlerShape' BY DEF IInv, TypeOK, HandlerShape
<1>3. DistinctSessions' BY DEF IInv, TypeOK, DistinctSessions
<1>4. AttendedSlot' BY <1>0, ConnsAssumption DEF IInv, TypeOK, AttendedSlot
<1>5. SoleServer' BY <1>0, ConnsAssumption DEF IInv, TypeOK, SoleServer
<1> QED BY <1>1, <1>2, <1>3, <1>4, <1>5 DEF IInv

(* A driver ends or counts a miss; the registry does not notice. *)
LEMMA DriverStep ==
  ASSUME IInv, NEW n \in Conns, Driver(n)
  PROVE  IInv'
<1> USE MissedAssumption
    DEF Driver, HeartbeatOk, HeartbeatMissed, ConnectionLost, DriverCancelled,
        EndDriver, handlerVars, registryVars
<1>1. TypeOK' BY DEF IInv, TypeOK, HandlerShape
<1>2. HandlerShape' BY DEF IInv, TypeOK, HandlerShape
<1>3. DistinctSessions' BY DEF IInv, DistinctSessions
<1>4. AttendedSlot' BY DEF IInv, AttendedSlot
<1>5. SoleServer' BY DEF IInv, SoleServer
<1> QED BY <1>1, <1>2, <1>3, <1>4, <1>5 DEF IInv

(* A restart forgets every session, so numbers may start again at one. *)
LEMMA RestartStep ==
  ASSUME IInv, ServerRestarts
  PROVE  IInv'
<1> USE RestartsAssumption
    DEF ServerRestarts, IInv, TypeOK, HandlerShape, DistinctSessions,
        AttendedSlot, SoleServer, Numbered, Attending, Locations
<1> QED OBVIOUS

LEMMA NextIInv == IInv /\ [Next]_vars => IInv'
<1> SUFFICES ASSUME IInv, [Next]_vars PROVE IInv'
  OBVIOUS
<1>1. ASSUME NEW n \in Conns, Handler(n) PROVE IInv'
  BY <1>1, EarlySteps, DrawStep, InsertStep, AddRouteStep, UnregisterStep
     DEF Handler, Authenticate, Proceed
<1>2. ASSUME NEW n \in Conns, Driver(n) PROVE IInv'
  BY <1>2, DriverStep
<1>3. CASE ServerRestarts BY <1>3, RestartStep
<1>4. CASE UNCHANGED vars
  BY <1>4 DEF vars, handlerVars, registryVars, driverVars, IInv, TypeOK, HandlerShape,
              DistinctSessions, AttendedSlot, SoleServer, Numbered
<1> QED BY <1>1, <1>2, <1>3, <1>4 DEF Next

-----------------------------------------------------------------------------
(* The inductive invariant, the type of the state, and the two safety      *)
(* properties of takeover: they hold in every reachable state.             *)

(* register and unregister keep slots, numbers and handlers in agreement.  *)
THEOREM InductiveInvariant == Spec => []IInv
BY InitIInv, NextIInv, PTL DEF Spec

(* The state has its type; in particular no driver counts past MAX_MISSED. *)
THEOREM TypeCorrect == Spec => []TypeOK
BY InductiveInvariant, PTL DEF IInv

(* A registered session that was not displaced holds its name: the late    *)
(* unregister of a replaced session never removes its replacement.         *)
THEOREM NoOrphanedTunnel == Spec => []SoleServer
BY InductiveInvariant, PTL DEF IInv

(* A slot always has a handler that will still unregister it.              *)
THEOREM NoWedgedName == Spec => []AttendedSlot
BY InductiveInvariant, PTL DEF IInv

-----------------------------------------------------------------------------
(* ControlPlane implements NameLease.                                      *)
LEMMA InitLease == Init => Lease!LeaseInit
BY DEF Init, Lease!LeaseInit, LiveSessions, SpentSessions

LEMMA OwnersAttend ==
  ASSUME IInv, NEW n \in Conns
  PROVE  n \in Lease!Owners => pc[n] \in Attending /\ ~aborted[n]
BY DEF Lease!Owners, IInv, AttendedSlot

(* The handler's steps: opening, giving up, claiming and releasing.        *)
LEMMA HandlerKeepsLease ==
  ASSUME IInv, NEW n \in Conns, Handler(n)
  PROVE  Lease!LeaseNext \/ UNCHANGED Lease!leaseVars
<1> USE DEF LiveSessions, SpentSessions, IInv, TypeOK
<1>1. CASE Accept(n)
  BY <1>1 DEF Accept, registryVars, driverVars, Lease!leaseVars
<1>2. CASE AuthFails(n)
  <2>1. n \notin Lease!Owners BY <1>2, OwnersAttend DEF AuthFails, Attending
  <2>2. SpentSessions' = SpentSessions \cup {n}
    BY <1>2 DEF AuthFails, driverVars
  <2>3. Lease!Discard(n)
    BY <1>2, <2>1, <2>2 DEF AuthFails, registryVars, driverVars, Lease!Discard
  <2> QED BY <2>3 DEF Lease!LeaseNext
<1>3. ASSUME NEW c \in Names, NEW hb \in BOOLEAN, AuthSucceeds(n, c, hb)
      PROVE  Lease!LeaseNext
  <2>1. n \notin Lease!Owners BY <1>3, OwnersAttend DEF AuthSucceeds, Attending
  <2>2. n \notin LiveSessions \cup SpentSessions
    BY <1>3 DEF AuthSucceeds, HandlerShape
  <2>3. LiveSessions' = LiveSessions \cup {n} BY <1>3 DEF AuthSucceeds
  <2>4. SpentSessions' = SpentSessions BY <1>3 DEF AuthSucceeds
  <2>5. Lease!Open(n)
    BY <1>3, <2>1, <2>2, <2>3, <2>4 DEF AuthSucceeds, registryVars, Lease!Open
  <2> QED BY <2>5 DEF Lease!LeaseNext
<1>4. CASE RefuseReserved(n)
  <2>1. n \notin Lease!Owners BY <1>4, OwnersAttend DEF RefuseReserved, Attending
  <2>2. SpentSessions' = SpentSessions \cup {n} BY <1>4 DEF RefuseReserved
  <2>3. Lease!Discard(n)
    BY <1>4, <2>1, <2>2 DEF RefuseReserved, registryVars, Lease!Discard
  <2> QED BY <2>3 DEF Lease!LeaseNext
<1>5. CASE DrawSession(n)
  BY <1>5 DEF DrawSession, driverVars, Lease!leaseVars
<1>6. CASE Insert(n)
  <2>1. client_id[n] \in Names /\ ~aborted[n] BY <1>6 DEF Insert, HandlerShape, Numbered
  <2>2. n \notin SpentSessions \cup Lease!Owners
    BY <1>6, <2>1, OwnersAttend DEF Insert, Attending
  <2>3. SpentSessions' = SpentSessions \cup ({clients[client_id[n]]} \ {None})
    BY <1>6, <2>1, ConnsAssumption DEF Insert
  <2>4. Lease!Claim(client_id[n], n)
    BY <1>6, <2>2, <2>3 DEF Insert, Lease!Claim
  <2> QED BY <2>1, <2>4 DEF Lease!LeaseNext
<1>7. CASE AddRoute(n)
  BY <1>7 DEF AddRoute, registryVars, driverVars, Lease!leaseVars
<1>8. CASE Unregister(n)
  <2>1. /\ client_id[n] \in Names
        /\ HoldsSlot(n) <=> clients[client_id[n]] = n
        /\ HoldsSlot(n) <=> ~aborted[n]
    BY <1>8, UnregisterComparesRight DEF Unregister, Attending
  <2>2. SpentSessions' = SpentSessions \cup {n} /\ LiveSessions' = LiveSessions
    BY <1>8 DEF Unregister, driverVars
  <2>3. CASE HoldsSlot(n)
    <3>1. PICK c \in Names : c = client_id[n] BY <2>1
    <3>2. Lease!Release(c)
      BY <1>8, <2>1, <2>2, <2>3, <3>1, ConnsAssumption DEF Unregister, Lease!Release
    <3> QED BY <3>2 DEF Lease!LeaseNext
  <2>4. CASE ~HoldsSlot(n)
    BY <1>8, <2>1, <2>2, <2>4 DEF Unregister, Lease!leaseVars
  <2> QED BY <2>3, <2>4
<1> QED BY <1>1, <1>2, <1>3, <1>4, <1>5, <1>6, <1>7, <1>8 DEF Handler, Authenticate, Proceed

(* The driver's steps: a session closes, or nothing the lease sees.        *)
LEMMA DriverKeepsLease ==
  ASSUME IInv, NEW n \in Conns, Driver(n)
  PROVE  Lease!LeaseNext \/ UNCHANGED Lease!leaseVars
<1> USE DEF LiveSessions, SpentSessions, IInv, TypeOK, handlerVars, registryVars
<1>1. /\ clients' = clients /\ SpentSessions' = SpentSessions
      /\ driver[n] = "running"
      /\ driver' = driver \/ EndDriver(n)
  BY DEF Driver, HeartbeatOk, HeartbeatMissed, ConnectionLost, DriverCancelled
<1>2. CASE driver' = driver
  BY <1>1, <1>2 DEF Lease!leaseVars
<1>3. CASE EndDriver(n)
  <2>1. n \in LiveSessions /\ LiveSessions' = LiveSessions \ {n}
    BY <1>1, <1>3 DEF EndDriver
  <2>2. Lease!Close(n) BY <1>1, <2>1 DEF Lease!Close
  <2> QED BY <2>2 DEF Lease!LeaseNext
<1> QED BY <1>1, <1>2, <1>3

(* A restart loses every lease and every session that held one.            *)
LEMMA RestartKeepsLease ==
  ASSUME IInv, ServerRestarts
  PROVE  Lease!LeaseNext
<1> USE DEF ServerRestarts, LiveSessions, SpentSessions, IInv, TypeOK
<1> DEFINE lost == SpentSessions'
<1>1. lost \in SUBSET Conns /\ LiveSessions' = {} OBVIOUS
<1>2. SpentSessions' = SpentSessions \cup lost BY DEF Locations
<1>3. Lease!Owners \subseteq lost
  <2> SUFFICES ASSUME NEW n \in Lease!Owners PROVE n \in lost
    OBVIOUS
  <2>1. n \in Conns BY DEF Lease!Owners
  <2>2. pc[n] # "idle" BY <2>1, OwnersAttend DEF Attending
  <2> QED BY <2>1, <2>2
<1>4. Lease!Reset BY <1>1, <1>2, <1>3 DEF Lease!Reset
<1> QED BY <1>4 DEF Lease!LeaseNext

(* The registry keeps the promises of NameLease: a displaced session never *)
(* holds a name again and a slot is freed only under a dead session.       *)
THEOREM ImplementsNameLease == Spec => KeepsLeases
<1>1. IInv /\ [Next]_vars => [Lease!LeaseNext]_(Lease!leaseVars)
  <2> SUFFICES ASSUME IInv, [Next]_vars
               PROVE  Lease!LeaseNext \/ UNCHANGED Lease!leaseVars
    OBVIOUS
  <2>1. CASE UNCHANGED vars
    BY <2>1 DEF vars, handlerVars, registryVars, driverVars, Lease!leaseVars,
                LiveSessions, SpentSessions
  <2> QED BY <2>1, HandlerKeepsLease, DriverKeepsLease, RestartKeepsLease DEF Next
<1> QED BY <1>1, InitLease, InductiveInvariant, PTL DEF Spec, KeepsLeases, Lease!LeaseSpec

-----------------------------------------------------------------------------
(* What follows from NameLease alone holds of the handlers, for they       *)
(* implement it.                                                           *)
LEMMA LeaseStep ==
  ASSUME Lease!SpentHoldNothing, Lease!OneNameEach, [Lease!LeaseNext]_(Lease!leaseVars),
         Lease!LeaseTypeOK
  PROVE  (Lease!SpentHoldNothing /\ Lease!OneNameEach)'
<1> USE DEF Lease!SpentHoldNothing, Lease!OneNameEach, Lease!Owners
<1>1. ASSUME NEW s \in Conns, Lease!Open(s) \/ Lease!Close(s) \/ Lease!Discard(s)
      PROVE  (Lease!SpentHoldNothing /\ Lease!OneNameEach)'
  BY <1>1 DEF Lease!Open, Lease!Close, Lease!Discard
<1>2. ASSUME NEW c \in Names, NEW s \in Conns, Lease!Claim(c, s)
      PROVE  (Lease!SpentHoldNothing /\ Lease!OneNameEach)'
  BY <1>2, ConnsAssumption DEF Lease!Claim, Lease!LeaseTypeOK
<1>3. ASSUME NEW c \in Names, Lease!Release(c)
      PROVE  (Lease!SpentHoldNothing /\ Lease!OneNameEach)'
  BY <1>3 DEF Lease!Release, Lease!LeaseTypeOK
<1>4. CASE Lease!Reset BY <1>4 DEF Lease!Reset
<1>5. CASE UNCHANGED Lease!leaseVars BY <1>5 DEF Lease!leaseVars
<1> QED BY <1>1, <1>2, <1>3, <1>4, <1>5 DEF Lease!LeaseNext

LEMMA SpentStays ==
  ASSUME NEW s \in Conns, s \in SpentSessions, [Lease!LeaseNext]_(Lease!leaseVars)
  PROVE  s \in SpentSessions'
BY DEF Lease!LeaseNext, Lease!leaseVars, Lease!Open, Lease!Close, Lease!Discard,
       Lease!Claim, Lease!Release, Lease!Reset

(* A handler that was displaced, refused, torn down or lost in a restart   *)
(* never again holds a name, however late its remaining steps come: there  *)
(* is nothing left for its unregister to remove.                           *)
THEOREM DisplacedNeverReturns == Spec => Lease!NeverAgain
<1>1. Spec => [](Lease!SpentHoldNothing /\ Lease!OneNameEach)
  <2>1. Lease!LeaseInit => Lease!SpentHoldNothing /\ Lease!OneNameEach
    BY DEF Lease!LeaseInit, Lease!SpentHoldNothing, Lease!OneNameEach, Lease!Owners
  <2>2. IInv => Lease!LeaseTypeOK
    BY DEF IInv, TypeOK, Lease!LeaseTypeOK, LiveSessions, SpentSessions
  <2>3. Lease!SpentHoldNothing /\ Lease!OneNameEach /\ [Lease!LeaseNext]_(Lease!leaseVars)
          /\ Lease!LeaseTypeOK
        => (Lease!SpentHoldNothing /\ Lease!OneNameEach)'
    BY LeaseStep
  <2> QED
    BY <2>1, <2>2, <2>3, ImplementsNameLease, InductiveInvariant, PTL
       DEF KeepsLeases, Lease!LeaseSpec
<1>2. ASSUME NEW s \in Conns
      PROVE  Spec => [](s \in SpentSessions => [](s \notin Lease!Owners))
  <2> DEFINE Gone == s \in SpentSessions
             Out  == s \notin Lease!Owners
  <2>1. Gone /\ [Lease!LeaseNext]_(Lease!leaseVars) => Gone' BY SpentStays
  <2>2. Lease!SpentHoldNothing => (Gone => Out) BY DEF Lease!SpentHoldNothing
  <2> HIDE DEF Gone, Out
  <2>3. Spec => [](Gone => []Out)
    BY <1>1, <2>1, <2>2, ImplementsNameLease, PTL DEF KeepsLeases, Lease!LeaseSpec
  <2> QED BY <2>3 DEF Gone, Out
<1> QED BY <1>2 DEF Lease!NeverAgain
=============================================================================
