------------------------------ MODULE YamuxDriver ------------------------------
(***************************************************************************)
(* The driver task of one tunnel session (spawn_yamux_driver): the select! *)
(* loop that owns the yamux connection, opens streams for the HTTP proxy   *)
(* and probes the client with heartbeats, one probe at a time.             *)
(*                                                                         *)
(* Time advances in units of five seconds (Tick) and only when neither the *)
(* driver nor a probe task has anything to do: tasks are polled at once on *)
(* that scale.  The peer, the network and the HTTP callers may act at any  *)
(* moment.  yamux is external: polled for an outbound stream it reports an *)
(* error when MaxStreams are open, stays pending while AckBacklog streams  *)
(* have had no frame back from the peer, and grants a stream otherwise.    *)
(***************************************************************************)
EXTENDS Naturals, Sequences, FiniteSets, SequencesExt

CONSTANTS
  Requests,       \* calls of YamuxHandle::open_stream, one public request each
  None,           \* no request
  QueueCap,       \* capacity of the command channel (64)
  AckBacklog,     \* yamux: outbound streams that may wait for an ACK (256)
  MaxStreams,     \* yamux: open streams per connection (512)
  Interval,       \* HEARTBEAT_INTERVAL_SECS (15 s)
  ProbeTimeout,   \* the timeout around one probe (10 s)
  MaxMissed,      \* MAX_MISSED (5)
  StaleAfter      \* SESSION_STALE_SECS = HEARTBEAT_TIMEOUT_SECS (90 s)

(* TAKEOVER_AFTER_MISSED_HEARTBEATS *)
TakeoverAfter == 2

ASSUME RequestsAssumption == None \notin Requests /\ IsFiniteSet(Requests)
ASSUME LimitsAssumption ==
  {QueueCap, AckBacklog, MaxStreams, MaxMissed} \subseteq Nat \ {0}
ASSUME TimesAssumption ==
  /\ {Interval, ProbeTimeout, StaleAfter} \subseteq Nat \ {0}
  /\ ProbeTimeout < Interval
ASSUME EvictionAssumption == MaxMissed * Interval + ProbeTimeout <= StaleAfter

VARIABLES
  driver,              \* the task: "running" or "ended"
  aborted,             \* abort() was called on it
  supports_heartbeat,  \* fixed when the session starts
  link,                \* how the peer behaves
  silent_for,          \* time since it fell silent
  queue,               \* cmd_rx
  pending_open,        \* the command whose stream is being opened, or None
  req,                 \* where each open_stream caller is
  want_hb_stream,      \* a heartbeat is due and has no stream yet
  hb_in_flight,        \* a probe task runs or its result is not read yet
  probes,              \* time left to each running probe task
  hb_done,             \* results the probe tasks sent
  missed_heartbeats,   \* consecutive misses
  next_tick,           \* time until heartbeat_interval is due (0: due)
  idle_for             \* time since last_activity

peerVars == <<link, silent_for>>
cmdVars  == <<queue, pending_open, req>>
hbVars   == <<want_hb_stream, hb_in_flight, probes, hb_done, missed_heartbeats, next_tick>>
vars == <<driver, aborted, supports_heartbeat, peerVars, cmdVars, hbVars, idle_for>>

(***************************************************************************)
(* A request is "sending" its command, "waiting" for the reply, "open":    *)
(* its stream waits for the first response bytes, "streaming" the body,    *)
(* "done", "failed", or "gone": its public client went away.               *)
(* A peer is "prompt" while it has always answered within one time unit,   *)
(* "silent" while its TCP connection stands and nothing comes back, "late" *)
(* once it answers again, "closed" when the connection is over.            *)
(***************************************************************************)
RequestStates == {"idle", "sending", "waiting", "open", "streaming", "done", "failed", "gone"}
Answering == {"prompt", "late"}

In(states) == {r \in Requests : req[r] \in states}
Forgotten  == StaleAfter + 1     \* clocks stop here: later times are alike

TypeOK ==
  /\ driver \in {"running", "ended"}
  /\ aborted \in BOOLEAN /\ supports_heartbeat \in BOOLEAN
  /\ link \in Answering \cup {"silent", "closed"}
  /\ silent_for \in 0 .. Forgotten /\ idle_for \in 0 .. Forgotten
  /\ queue \in Seq(Requests) /\ Len(queue) <= QueueCap
  /\ pending_open \in Requests \cup {None}
  /\ req \in [Requests -> RequestStates]
  /\ want_hb_stream \in BOOLEAN /\ hb_in_flight \in BOOLEAN
  /\ probes \in Seq(0 .. ProbeTimeout)
  /\ hb_done \in Seq({"ok", "err"})
  /\ missed_heartbeats \in 0 .. MaxMissed
  /\ next_tick \in 0 .. Interval

Init ==
  /\ driver = "running"
  /\ aborted = FALSE
  /\ supports_heartbeat \in BOOLEAN
  /\ link = "prompt"
  /\ silent_for = 0
  /\ queue = <<>>
  /\ pending_open = None
  /\ req = [r \in Requests |-> "idle"]
  /\ want_hb_stream = FALSE
  /\ hb_in_flight = FALSE
  /\ probes = <<>>
  /\ hb_done = <<>>
  /\ missed_heartbeats = 0
  /\ next_tick = Interval      \* the first, immediate tick was consumed
  /\ idle_for = 0

-----------------------------------------------------------------------------
(* The callers of open_stream, inside handle_proxy_request.                *)

Call(r) ==
  /\ req[r] = "idle"
  /\ req' = [req EXCEPT ![r] = "sending"]
  /\ UNCHANGED <<driver, aborted, supports_heartbeat, peerVars, queue, pending_open,
                 hbVars, idle_for>>

(* cmd_tx.send waits for room in the channel and fails once the driver ended. *)
Send(r) ==
  /\ req[r] = "sending"
  /\ \/ /\ driver = "running"
        /\ Len(queue) < QueueCap
        /\ queue' = Append(queue, r)
        /\ req' = [req EXCEPT ![r] = "waiting"]
     \/ /\ driver = "ended"
        /\ req' = [req EXCEPT ![r] = "failed"]
        /\ UNCHANGED queue
  /\ UNCHANGED <<driver, aborted, supports_heartbeat, peerVars, pending_open,
                 hbVars, idle_for>>

(* The public client disconnects: its request's future is dropped.  A      *)
(* command already sent stays behind, an open stream is reset.             *)
CallerLeaves(r) ==
  /\ req[r] \in {"sending", "waiting", "open", "streaming"}
  /\ req' = [req EXCEPT ![r] = "gone"]
  /\ UNCHANGED <<driver, aborted, supports_heartbeat, peerVars, queue, pending_open,
                 hbVars, idle_for>>

(* The response head comes back; the proxy touches the session. *)
Respond(r) ==
  /\ req[r] = "open"
  /\ link \in Answering
  /\ req' = [req EXCEPT ![r] = "streaming"]
  /\ idle_for' = 0
  /\ UNCHANGED <<driver, aborted, supports_heartbeat, peerVars, queue, pending_open, hbVars>>

BodyEnds(r) ==
  /\ req[r] = "streaming"
  /\ req' = [req EXCEPT ![r] = "done"]
  /\ UNCHANGED <<driver, aborted, supports_heartbeat, peerVars, queue, pending_open,
                 hbVars, idle_for>>

-----------------------------------------------------------------------------
(* The select! loop.                                                       *)

(* Fault: callers whose reply is outstanding are not told. *)
EndDriver_RepliesKept ==
  /\ driver' = "ended"
  /\ queue' = <<>>
  /\ pending_open' = None
  /\ req' = [r \in Requests |-> IF req[r] \in {"open", "streaming"} THEN "failed" ELSE req[r]]
  /\ want_hb_stream' = FALSE
  /\ hb_in_flight' = FALSE
  /\ probes' = <<>>
  /\ hb_done' = <<>>

(* The loop breaks or the task is dropped: the channels and the connection *)
(* go with it, so every caller and every stream it held gets an error.     *)
EndDriver ==
  /\ driver' = "ended"
  /\ queue' = <<>>
  /\ pending_open' = None
  /\ req' = [r \in Requests |->
               IF req[r] \in {"waiting", "open", "streaming"} THEN "failed" ELSE req[r]]
  /\ want_hb_stream' = FALSE
  /\ hb_in_flight' = FALSE
  /\ probes' = <<>>
  /\ hb_done' = <<>>

(* One more miss. *)
CountMiss == missed_heartbeats' = missed_heartbeats + 1

(* Fault: the limit is compared before counting. *)
GivesUp_OneLate == missed_heartbeats >= MaxMissed

(* The fifth miss in a row breaks the loop. *)
GivesUp == missed_heartbeats + 1 >= MaxMissed

(* Fault: a command is taken while another is in hand. *)
TakeCommand_Overwrites ==
  /\ driver = "running"
  /\ queue # <<>>
  /\ pending_open' = Head(queue)
  /\ queue' = Tail(queue)
  /\ UNCHANGED <<driver, aborted, supports_heartbeat, peerVars, req, hbVars, idle_for>>

(* cmd_rx.recv(), if pending_open.is_none() *)
TakeCommand ==
  /\ driver = "running"
  /\ pending_open = None
  /\ queue # <<>>
  /\ pending_open' = Head(queue)
  /\ queue' = Tail(queue)
  /\ UNCHANGED <<driver, aborted, supports_heartbeat, peerVars, req, hbVars, idle_for>>

Unacked  == Cardinality(In({"open"})) + Len(probes)
Streams  == Unacked + Cardinality(In({"streaming"}))

WantOutbound == driver = "running" /\ link # "closed"
                  /\ (pending_open # None \/ want_hb_stream)
OpenRefused  == WantOutbound /\ Streams >= MaxStreams
OpenGranted  == WantOutbound /\ Streams < MaxStreams /\ Unacked < AckBacklog

(* A stream goes to the waiting command first.  A caller that left meanwhile *)
(* has dropped its end of the reply, and the stream is dropped too.        *)
StreamForRequest ==
  /\ OpenGranted
  /\ pending_open # None
  /\ pending_open' = None
  /\ req' = [req EXCEPT ![pending_open] = IF @ = "waiting" THEN "open" ELSE @]
  /\ UNCHANGED <<driver, aborted, supports_heartbeat, peerVars, queue, hbVars, idle_for>>

StreamForProbe ==
  /\ OpenGranted
  /\ pending_open = None
  /\ want_hb_stream' = FALSE
  /\ hb_in_flight' = TRUE
  /\ probes' = Append(probes, ProbeTimeout)
  /\ UNCHANGED <<driver, aborted, supports_heartbeat, peerVars, cmdVars, hb_done,
                 missed_heartbeats, next_tick, idle_for>>

(* yamux refuses a stream: the command gets the error, and a heartbeat that *)
(* was due as well counts as missed in the same step.                      *)
OpenFails ==
  /\ OpenRefused
  /\ IF want_hb_stream THEN CountMiss ELSE UNCHANGED missed_heartbeats
  /\ IF want_hb_stream /\ GivesUp
     THEN EndDriver
     ELSE /\ pending_open' = None
          /\ req' = [r \in Requests |-> IF r = pending_open /\ req[r] = "waiting"
                                        THEN "failed" ELSE req[r]]
          /\ want_hb_stream' = FALSE
          /\ UNCHANGED <<driver, queue, hb_in_flight, probes, hb_done>>
  /\ UNCHANGED <<aborted, supports_heartbeat, peerVars, next_tick, idle_for>>

TickDue == next_tick = 0 /\ supports_heartbeat /\ ~hb_in_flight /\ ~want_hb_stream

(* heartbeat_interval.tick(); with MissedTickBehavior::Delay the next one is *)
(* due a full interval after this one was taken.                           *)
HeartbeatDue ==
  /\ driver = "running"
  /\ TickDue
  /\ want_hb_stream' = TRUE
  /\ next_tick' = Interval
  /\ UNCHANGED <<driver, aborted, supports_heartbeat, peerVars, cmdVars, hb_in_flight,
                 probes, hb_done, missed_heartbeats, idle_for>>

(* Fault: a good answer takes back one miss instead of all. *)
ReadOk_StepsDown ==
  /\ driver = "running"
  /\ hb_done # <<>> /\ Head(hb_done) = "ok"
  /\ hb_done' = Tail(hb_done)
  /\ hb_in_flight' = FALSE
  /\ missed_heartbeats' = IF missed_heartbeats = 0 THEN 0 ELSE missed_heartbeats - 1
  /\ idle_for' = 0
  /\ UNCHANGED <<driver, aborted, supports_heartbeat, peerVars, cmdVars, want_hb_stream,
                 probes, next_tick>>

(* hb_done_rx.recv() *)
ReadOk ==
  /\ driver = "running"
  /\ hb_done # <<>> /\ Head(hb_done) = "ok"
  /\ hb_done' = Tail(hb_done)
  /\ hb_in_flight' = FALSE
  /\ missed_heartbeats' = 0
  /\ idle_for' = 0
  /\ UNCHANGED <<driver, aborted, supports_heartbeat, peerVars, cmdVars, want_hb_stream,
                 probes, next_tick>>

(* Fault: a failed probe leaves hb_in_flight standing. *)
ReadMiss_FlagKept ==
  /\ driver = "running"
  /\ hb_done # <<>> /\ Head(hb_done) = "err"
  /\ CountMiss
  /\ IF GivesUp
     THEN EndDriver
     ELSE /\ hb_done' = Tail(hb_done)
          /\ UNCHANGED <<driver, cmdVars, want_hb_stream, hb_in_flight, probes>>
  /\ UNCHANGED <<aborted, supports_heartbeat, peerVars, next_tick, idle_for>>

ReadMiss ==
  /\ driver = "running"
  /\ hb_done # <<>> /\ Head(hb_done) = "err"
  /\ CountMiss
  /\ IF GivesUp
     THEN EndDriver
     ELSE /\ hb_done' = Tail(hb_done)
          /\ hb_in_flight' = FALSE
          /\ UNCHANGED <<driver, cmdVars, want_hb_stream, probes>>
  /\ UNCHANGED <<aborted, supports_heartbeat, peerVars, next_tick, idle_for>>

(* poll_next_inbound reports the end of the connection. *)
ConnectionEnds ==
  /\ driver = "running"
  /\ link = "closed"
  /\ EndDriver
  /\ UNCHANGED <<aborted, supports_heartbeat, peerVars, missed_heartbeats, next_tick, idle_for>>

(* register displaced this session; the runtime then drops the task. *)
Abort ==
  /\ ~aborted
  /\ aborted' = TRUE
  /\ UNCHANGED <<driver, supports_heartbeat, peerVars, cmdVars, hbVars, idle_for>>

Cancelled ==
  /\ driver = "running"
  /\ aborted
  /\ EndDriver
  /\ UNCHANGED <<aborted, supports_heartbeat, peerVars, missed_heartbeats, next_tick, idle_for>>

-----------------------------------------------------------------------------
(* Probe tasks: write the marker, read the pong, close, under a timeout.   *)
ProbeEnds(i, result) ==
  /\ probes' = RemoveAt(probes, i)
  /\ hb_done' = Append(hb_done, result)
  /\ UNCHANGED <<driver, aborted, supports_heartbeat, peerVars, cmdVars, want_hb_stream,
                 hb_in_flight, missed_heartbeats, next_tick, idle_for>>

ProbeAnswered(i) == link \in Answering /\ ProbeEnds(i, "ok")
ProbeTimesOut(i) == probes[i] = 0 /\ ProbeEnds(i, "err")

-----------------------------------------------------------------------------
(* The peer and the network.                                               *)
LinkChanges ==
  /\ \/ link \in Answering /\ link' = "silent"
     \/ link = "silent" /\ link' = "late"
     \/ link # "closed" /\ link' = "closed"
  /\ silent_for' = 0
  /\ UNCHANGED <<driver, aborted, supports_heartbeat, cmdVars, hbVars, idle_for>>

Later(t) == IF t < Forgotten THEN t + 1 ELSE t
Sooner(t) == IF t > 0 THEN t - 1 ELSE 0

(* Nothing is ready to run: the driver's branches are all pending and every *)
(* probe waits for a peer that does not answer.                            *)
Quiet ==
  /\ driver = "running" =>
       /\ link # "closed" /\ ~aborted
       /\ pending_open # None \/ queue = <<>>
       /\ ~OpenRefused /\ ~OpenGranted
       /\ ~TickDue
       /\ hb_done = <<>>
  /\ probes # <<>> => link = "silent"
  /\ \A i \in DOMAIN probes : probes[i] > 0

Tick ==
  /\ Quiet
  /\ silent_for' = IF link = "silent" THEN Later(silent_for) ELSE silent_for
  /\ idle_for' = Later(idle_for)
  /\ next_tick' = Sooner(next_tick)
  /\ probes' = [i \in DOMAIN probes |-> Sooner(probes[i])]
  /\ UNCHANGED <<driver, aborted, supports_heartbeat, link, cmdVars, want_hb_stream,
                 hb_in_flight, hb_done, missed_heartbeats>>

(* Fault: the zombie threshold is off by one. *)
IsAlive_OneMore ==
  /\ driver = "running"
  /\ ~(supports_heartbeat /\ missed_heartbeats > TakeoverAfter)
  /\ idle_for < StaleAfter

(* ClientEntry::is_alive, which the dashboard shows as "healthy". *)
IsAlive ==
  /\ driver = "running"
  /\ ~(supports_heartbeat /\ missed_heartbeats >= TakeoverAfter)
  /\ idle_for < StaleAfter

-----------------------------------------------------------------------------
Loop == TakeCommand \/ StreamForRequest \/ StreamForProbe \/ OpenFails \/ HeartbeatDue
          \/ ReadOk \/ ReadMiss \/ ConnectionEnds \/ Cancelled

Probing == \E i \in DOMAIN probes : ProbeAnswered(i) \/ ProbeTimesOut(i)

Caller(r) == Call(r) \/ Send(r) \/ CallerLeaves(r) \/ Respond(r) \/ BodyEnds(r)

Next == Loop \/ Probing \/ (\E r \in Requests : Caller(r)) \/ Abort \/ LinkChanges \/ Tick

Spec == Init /\ [][Next]_vars

(***************************************************************************)
(* Fairness: the runtime polls the loop and the probe tasks, a sender that *)
(* finds room goes on, and time passes.  The peer is not assumed to answer *)
(* and no caller to stay.                                                  *)
(***************************************************************************)
Fairness ==
  /\ WF_vars(Loop)
  /\ WF_vars(Probing)
  /\ WF_vars(Tick)
  /\ \A r \in Requests : WF_vars(Send(r))

FairSpec == Spec /\ Fairness

-----------------------------------------------------------------------------
(* Properties.                                                             *)

(* hb_in_flight and want_hb_stream account for every probe: there is never *)
(* a second one, no result is left over to be read as a later probe's, and *)
(* the flag is not left standing, which would end heartbeats for good.     *)
OneProbe ==
  driver = "running" =>
    /\ Len(probes) + Len(hb_done) = (IF hb_in_flight THEN 1 ELSE 0)
    /\ ~(hb_in_flight /\ want_hb_stream)

(* Every caller that waits for a reply has its command in the channel or in *)
(* hand, once; when the driver is over nobody waits for it.                *)
NoCommandLost ==
  LET held == (IF pending_open = None THEN <<>> ELSE <<pending_open>>) \o queue IN
  /\ IsInjective(held)
  /\ In({"waiting"}) \subseteq Range(held)
  /\ driver = "ended" => In({"waiting", "open", "streaming"}) = {}

(* "5 missed heartbeats" are the 90 second timeout: a session whose client *)
(* has been silent that long is over.  The code does not keep this while   *)
(* yamux's backlog is full.                                                *)
EvictedInTime ==
  driver = "running" /\ supports_heartbeat /\ link = "silent" => silent_for <= StaleAfter

(* "two misses (~40s) is a zombie": by then is_alive has turned false, so  *)
(* the dashboard shows the session as unhealthy well before it is evicted. *)
ZombieFlagged ==
  supports_heartbeat /\ link = "silent" /\ silent_for > 2 * Interval + ProbeTimeout => ~IsAlive

(* Fewer than AckBacklog streams wait for a first frame of the peer. *)
Room == Unacked < AckBacklog
RoomInSilence == link = "silent" => Room

(* Both bounds hold if the backlog is never full while the client is       *)
(* silent, whether or not it was full, and held heartbeats up, before.     *)
EvictedWithRoom == []RoomInSilence => []EvictedInTime
ZombieWithRoom  == []RoomInSilence => []ZombieFlagged

(* A caller of open_stream gets an answer: a stream, an error, or it left. *)
(* Only a backlog that from some time on stays full for ever, with the     *)
(* connection standing, can keep it waiting: there is no timeout.          *)
OpenStreamReturns ==
  []<>Room => \A r \in Requests :
                 req[r] \in {"sending", "waiting"} ~> req[r] \notin {"sending", "waiting"}

-----------------------------------------------------------------------------
(* Module ControlPlane sees of a driver only that it runs, was aborted,    *)
(* counts misses or has ended.  Every step here is one of its driver steps, *)
(* the abort of a takeover, or nothing it sees.                            *)
Session == {"session"}
Box == INSTANCE ControlPlane
         WITH Conns <- Session, Names <- {"name"}, ReservedNames <- {}, MaxRestarts <- 0,
              pc <- [s \in Session |-> "serving"], told <- [s \in Session |-> "accepted"],
              client_id <- [s \in Session |-> "name"],
              supports_heartbeat <- [s \in Session |-> supports_heartbeat],
              session_id <- [s \in Session |-> 1], next_session <- 2,
              clients <- [c \in {"name"} |-> "session"],
              driver <- [s \in Session |-> driver],
              aborted <- [s \in Session |-> aborted],
              missed_heartbeats <- [s \in Session |-> missed_heartbeats],
              routers <- {}, restarts <- 0

FitsControlPlane ==
  [][\/ Box!Driver("session")
     \/ aborted' /\ UNCHANGED <<driver, missed_heartbeats>>]_<<driver, aborted, missed_heartbeats>>
=============================================================================
