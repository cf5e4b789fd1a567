------------------------------ MODULE NameLease ------------------------------
(***************************************************************************)
(* What the registry of a tunnel server promises about public names.       *)
(*                                                                         *)
(* A name is leased to at most one session.  A claim never waits for, and  *)
(* is never refused because of, the session that holds the name: the last  *)
(* claim wins and the displaced session is spent.  A spent session never   *)
(* holds a name again, and a name falls free only when its holder is no    *)
(* longer live.  Nothing here says how sessions are told apart or how they *)
(* are stopped; module ControlPlane shows that the server's handlers,      *)
(* drivers and session numbers keep these promises.                        *)
(***************************************************************************)
CONSTANTS
  Sessions,   \* sessions that may ever claim a name
  Names,      \* public names
  None        \* no session; not a member of Sessions

VARIABLES
  owner,      \* owner[c] is the session that holds name c, or None
  live,       \* sessions able to answer for their name
  spent       \* sessions that will never hold a name (again)

leaseVars == <<owner, live, spent>>

LeaseTypeOK ==
  /\ owner \in [Names -> Sessions \cup {None}]
  /\ live \subseteq Sessions
  /\ spent \subseteq Sessions

Owners == {owner[c] : c \in Names} \ {None}

LeaseInit ==
  /\ owner = [c \in Names |-> None]
  /\ live = {}
  /\ spent = {}

(* A session that never held a name and is not spent comes alive. *)
Open(s) ==
  /\ s \notin live \cup spent \cup Owners
  /\ live' = live \cup {s}
  /\ UNCHANGED <<owner, spent>>

(* A session dies; it may still hold its name. *)
Close(s) ==
  /\ s \in live
  /\ live' = live \ {s}
  /\ UNCHANGED <<owner, spent>>

(* A session that holds no name is given up. *)
Discard(s) ==
  /\ s \notin Owners
  /\ spent' = spent \cup {s}
  /\ UNCHANGED <<owner, live>>

(* The last claim wins; whoever held the name is spent. *)
Claim(c, s) ==
  /\ s \notin spent \cup Owners
  /\ owner' = [owner EXCEPT ![c] = s]
  /\ spent' = spent \cup ({owner[c]} \ {None})
  /\ UNCHANGED live

(* A name falls free only under a session that is no longer live. *)
Release(c) ==
  /\ owner[c] # None
  /\ owner[c] \notin live
  /\ owner' = [owner EXCEPT ![c] = None]
  /\ spent' = spent \cup {owner[c]}
  /\ UNCHANGED live

(* The server restarts: every lease is gone and no holder comes back. *)
Reset ==
  /\ owner' = [c \in Names |-> None]
  /\ live' = {}
  /\ \E lost \in SUBSET Sessions :
       /\ Owners \subseteq lost
       /\ spent' = spent \cup lost

LeaseNext ==
  \/ \E s \in Sessions : Open(s) \/ Close(s) \/ Discard(s)
  \/ \E c \in Names : Release(c) \/ \E s \in Sessions : Claim(c, s)
  \/ Reset

LeaseSpec == LeaseInit /\ [][LeaseNext]_leaseVars

-----------------------------------------------------------------------------
(* A spent session holds no name, and no session holds two: what an entry  *)
(* of the registry says is true of one session only.                       *)
SpentHoldNothing == Owners \cap spent = {}
OneNameEach ==
  \A c, d \in Names : owner[c] = owner[d] /\ owner[c] # None => c = d

(* A session that was displaced, given up or torn down never holds a name  *)
(* again, however late one of its steps comes.                             *)
NeverAgain ==
  \A s \in Sessions : [](s \in spent => [](s \notin Owners))

(* A displaced session stops: it does not go on answering under a name     *)
(* that another session now holds.                                         *)
SpentStops == \A s \in Sessions : (s \in spent) ~> (s \notin live)

(* A name never stays leased to a dead session: it is released or claimed. *)
DeadHolderLosesName ==
  \A c \in Names, s \in Sessions :
    (owner[c] = s /\ s \notin live) ~> (owner[c] # s)
=============================================================================
