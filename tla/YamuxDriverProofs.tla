--------------------------- MODULE YamuxDriverProofs ---------------------------
(***************************************************************************)
(* Proofs about YamuxDriver, for any set of callers, capacities and times: *)
(* types, one heartbeat at a time, no lost open_stream command, that the   *)
(* driver steps as module ControlPlane says a driver does, and, while      *)
(* yamux accepts streams, that a silent client is noticed in time and one  *)
(* that answers is never evicted.                                          *)
(***************************************************************************)
EXTENDS YamuxDriver, SequenceTheorems, FiniteSetTheorems, TLAPS

(* The conjuncts of TypeOK by kind. *)
Flags ==
  /\ driver \in {"running", "ended"}
  /\ aborted \in BOOLEAN /\ supports_heartbeat \in BOOLEAN
  /\ link \in Answering \cup {"silent", "closed"}
  /\ want_hb_stream \in BOOLEAN /\ hb_in_flight \in BOOLEAN

Numbers ==
  /\ silent_for \in 0 .. Forgotten /\ idle_for \in 0 .. Forgotten
  /\ missed_heartbeats \in 0 .. MaxMissed
  /\ next_tick \in 0 .. Interval

Commands ==
  /\ queue \in Seq(Requests) /\ Len(queue) <= QueueCap
  /\ pending_open \in Requests \cup {None}
  /\ req \in [Requests -> RequestStates]

Probes == probes \in Seq(0 .. ProbeTimeout) /\ hb_done \in Seq({"ok", "err"})

LEMMA Typed == TypeOK <=> Flags /\ Numbers /\ Commands /\ Probes
BY Zenon DEF TypeOK, Flags, Numbers, Commands, Probes

(* While the loop runs it has not counted the last miss, and its flags     *)
(* account for the probes; when it is over it holds nothing.               *)
Beating ==
  /\ driver = "running" => missed_heartbeats < MaxMissed
  /\ driver = "ended" => probes = <<>> /\ hb_done = <<>>
  /\ want_hb_stream \/ hb_in_flight => supports_heartbeat
  /\ OneProbe

(* A command is held once, and only for a caller that waits or has left.   *)
Held ==
  /\ \A i, j \in 1 .. Len(queue) : queue[i] = queue[j] => i = j
  /\ \A i \in 1 .. Len(queue) :
       queue[i] # pending_open /\ req[queue[i]] \in {"waiting", "gone"}
  /\ pending_open # None => req[pending_open] \in {"waiting", "gone"}

(* And every caller that waits has one. *)
Answerable ==
  /\ \A r \in Requests : req[r] = "waiting" =>
       r = pending_open \/ \E i \in 1 .. Len(queue) : queue[i] = r
  /\ driver = "ended" => In({"waiting", "open", "streaming"}) = {}

CmdInv == Commands /\ Held /\ Answerable
HbInv  == Numbers /\ Probes /\ Beating
IInv   == Flags /\ CmdInv /\ HbInv

LEMMA InitIInv == Init => IInv
<1> SUFFICES ASSUME Init PROVE IInv
  OBVIOUS
<1> USE RequestsAssumption, LimitsAssumption, TimesAssumption DEF Init
<1>1. Flags BY DEF Flags, Answering
<1>2. Numbers BY DEF Numbers, Forgotten
<1>3. Commands BY DEF Commands, RequestStates
<1>4. Probes BY DEF Probes
<1>5. Beating BY DEF Beating, OneProbe
<1>6. Held /\ Answerable BY DEF Held, Answerable
<1> QED BY <1>1, <1>2, <1>3, <1>4, <1>5, <1>6 DEF IInv, CmdInv, HbInv

-----------------------------------------------------------------------------
(* Commands.                                                               *)

(* The driver ends: every caller it held has its answer. *)
LEMMA EndAnswers ==
  ASSUME Commands, EndDriver
  PROVE  CmdInv'
<1> USE DEF Commands, EndDriver
<1>1. Commands' BY LimitsAssumption DEF RequestStates
<1>2. Held' /\ Answerable' BY DEF Held, Answerable, In, RequestStates
<1> QED BY <1>1, <1>2 DEF CmdInv

LEMMA CallerStep ==
  ASSUME CmdInv, driver \in {"running", "ended"}, NEW r \in Requests, Caller(r)
  PROVE  CmdInv'
<1> USE DEF CmdInv, Commands
<1>1. CASE Call(r) \/ CallerLeaves(r) \/ Respond(r) \/ BodyEnds(r)
  <2> USE <1>1 DEF Call, CallerLeaves, Respond, BodyEnds
  <2>1. Commands' BY DEF RequestStates
  <2>2. Held' BY DEF Held
  <2>3. Answerable' BY DEF Answerable, In
  <2> QED BY <2>1, <2>2, <2>3
<1>2. CASE Send(r) /\ driver = "ended"
  <2> USE <1>2 DEF Send
  <2>1. Commands' BY DEF RequestStates
  <2>2. Held' BY DEF Held
  <2>3. Answerable' BY DEF Answerable, In
  <2> QED BY <2>1, <2>2, <2>3
<1>3. CASE Send(r) /\ driver = "running"
  <2> USE <1>3 DEF Send
  <2>1. /\ queue' = Append(queue, r) /\ Len(queue) < QueueCap
        /\ req[r] = "sending" /\ req' = [req EXCEPT ![r] = "waiting"]
        /\ pending_open' = pending_open
    OBVIOUS
  <2>2. /\ queue' \in Seq(Requests) /\ Len(queue') = Len(queue) + 1 /\ Len(queue) \in Nat
        /\ \A i \in 1 .. Len(queue) : queue'[i] = queue[i]
        /\ queue'[Len(queue) + 1] = r
    BY <2>1, AppendProperties
  <2>3. Commands' BY <2>1, <2>2, LimitsAssumption DEF RequestStates
  <2>4. Held'
    <3>1. r # pending_open /\ \A i \in 1 .. Len(queue) : queue[i] # r
      BY <2>1, RequestsAssumption DEF Held
    <3>2. \A i \in 1 .. Len(queue) : queue[i] \in Requests OBVIOUS
    <3>3. \A i \in 1 .. Len(queue') : i = Len(queue) + 1 \/ i \in 1 .. Len(queue) BY <2>2
    <3> QED BY <2>1, <2>2, <3>1, <3>2, <3>3 DEF Held
  <2>5. Answerable'
    <3>1. \A q \in Requests : req'[q] = "waiting" => q = r \/ req[q] = "waiting" BY <2>1
    <3>2. Len(queue) + 1 \in 1 .. Len(queue') BY <2>2
    <3>3. \A i \in 1 .. Len(queue) : i \in 1 .. Len(queue') BY <2>2
    <3> QED BY <2>1, <2>2, <3>1, <3>2, <3>3 DEF Answerable
  <2> QED BY <2>3, <2>4, <2>5
<1> QED BY <1>1, <1>2, <1>3 DEF Caller

(* The loop takes the oldest command in hand. *)
LEMMA TakeStep ==
  ASSUME CmdInv, TakeCommand
  PROVE  CmdInv'
<1> USE DEF CmdInv, Commands, TakeCommand
<1>1. /\ queue \in Seq(Requests) /\ queue # <<>> /\ queue' = Tail(queue)
      /\ pending_open = None /\ pending_open' = Head(queue) /\ req' = req /\ driver = "running"
      /\ driver' = driver
  OBVIOUS
<1>2. /\ queue' \in Seq(Requests) /\ Len(queue') = Len(queue) - 1
      /\ Len(queue) \in Nat \ {0}
      /\ \A i \in 1 .. Len(queue') : queue'[i] = queue[i + 1]
      /\ pending_open' = queue[1] /\ queue[1] \in Requests
  BY <1>1, HeadTailProperties, EmptySeq
<1>3. Commands' BY <1>1, <1>2, LimitsAssumption
<1>4. Held'
  <2>1. \A i \in 1 .. Len(queue') : i + 1 \in 1 .. Len(queue) /\ i + 1 # 1 BY <1>2
  <2>2. 1 \in 1 .. Len(queue) BY <1>2
  <2> QED BY <1>1, <1>2, <2>1, <2>2 DEF Held
<1>5. Answerable'
  <2> SUFFICES ASSUME NEW r \in Requests, req[r] = "waiting"
               PROVE  r = pending_open' \/ \E i \in 1 .. Len(queue') : queue'[i] = r
    BY <1>1 DEF Answerable
  <2>1. PICK i \in 1 .. Len(queue) : queue[i] = r
    BY <1>1, RequestsAssumption DEF Answerable
  <2>2. CASE i = 1 BY <1>2, <2>1, <2>2
  <2>3. CASE i # 1
    <3>1. i - 1 \in 1 .. Len(queue') BY <1>2, <2>3
    <3>2. queue'[i - 1] = queue[i] BY <1>2, <3>1
    <3> QED BY <2>1, <3>1, <3>2
  <2> QED BY <2>2, <2>3
<1> QED BY <1>3, <1>4, <1>5

(* The command in hand is answered: by a stream or by an error. *)
LEMMA AnswerStep ==
  ASSUME CmdInv, StreamForRequest \/ (OpenFails /\ ~EndDriver), driver' = driver,
         driver = "running"
  PROVE  CmdInv'
<1> USE DEF CmdInv, Commands
<1>1. /\ queue' = queue /\ pending_open' = None
      /\ req' \in [Requests -> RequestStates]
      /\ \A r \in Requests \ {pending_open} : req'[r] = req[r]
      /\ pending_open # None => req'[pending_open] # "waiting"
  <2>1. CASE StreamForRequest BY <2>1 DEF StreamForRequest, RequestStates
  <2>2. CASE OpenFails /\ ~EndDriver BY <2>2 DEF OpenFails, RequestStates
  <2> QED BY <2>1, <2>2
<1>2. \A i \in 1 .. Len(queue) : queue[i] \in Requests OBVIOUS
<1>3. Held' BY <1>1, <1>2, RequestsAssumption DEF Held
<1>4. Answerable' BY <1>1, RequestsAssumption DEF Answerable
<1> QED BY <1>1, <1>3, <1>4

-----------------------------------------------------------------------------
(* Heartbeats.                                                             *)

LEMMA SumOfOne == \A a \in Nat, b \in Nat \ {0} : a + b = 1 => a = 0 /\ b = 1
OBVIOUS

(* With at most one probe, the last to end leaves none. *)
LEMMA LastProbeEnds ==
  ASSUME NEW S, NEW s \in Seq(S), Len(s) = 1, NEW i \in DOMAIN s
  PROVE  RemoveAt(s, i) = <<>>
<1>1. i = 1 BY LenProperties
<1>2. SubSeq(s, 1, i - 1) = <<>> BY <1>1, SubSeqEmpty
<1>3. SubSeq(s, i + 1, Len(s)) = <<>> BY <1>1, SubSeqEmpty
<1>4. <<>> \in Seq(S) BY EmptySeq
<1> QED BY <1>2, <1>3, <1>4, ConcatEmptySeq DEF RemoveAt

LEMMA EndSilences ==
  ASSUME Numbers, EndDriver, missed_heartbeats' \in 0 .. MaxMissed,
         UNCHANGED <<silent_for, idle_for, next_tick>>
  PROVE  HbInv'
BY DEF EndDriver, HbInv, Numbers, Forgotten, Probes, Beating, OneProbe

(* Steps that leave the probes and their flags alone. *)
LEMMA HbStays ==
  ASSUME HbInv, UNCHANGED <<driver, supports_heartbeat, hbVars>>, silent_for' \in 0 .. Forgotten,
         idle_for' \in 0 .. Forgotten
  PROVE  HbInv'
BY DEF HbInv, Numbers, Forgotten, Probes, Beating, OneProbe, hbVars

LEMMA LoopBeats ==
  ASSUME HbInv, Flags, Loop
  PROVE  HbInv'
<1> USE LimitsAssumption, TimesAssumption DEF HbInv
<1>1. 0 \in 0 .. Forgotten BY DEF Forgotten
<1>2. CASE TakeCommand \/ StreamForRequest
  BY <1>2, HbStays DEF TakeCommand, StreamForRequest, peerVars, Numbers
<1>3. CASE ConnectionEnds \/ Cancelled
  BY <1>3, EndSilences DEF ConnectionEnds, Cancelled, peerVars, Numbers
<1>4. CASE StreamForProbe
  <2>1. /\ driver = "running" /\ driver' = driver /\ want_hb_stream /\ ~want_hb_stream'
        /\ hb_in_flight' /\ probes' = Append(probes, ProbeTimeout)
        /\ UNCHANGED <<silent_for, idle_for, missed_heartbeats, next_tick, hb_done, supports_heartbeat>>
    BY <1>4 DEF StreamForProbe, OpenGranted, WantOutbound, peerVars
  <2>2. Len(probes) + Len(hb_done) = 0 /\ Len(probes) \in Nat /\ Len(hb_done) \in Nat
    BY <2>1, LenProperties DEF Beating, OneProbe, Probes
  <2>3. Numbers' BY <2>1 DEF Numbers, Forgotten
  <2>4. Probes' /\ Len(probes') = Len(probes) + 1
    BY <2>1, AppendProperties DEF Probes
  <2>5. Beating' BY <2>1, <2>2, <2>4 DEF Beating, OneProbe
  <2> QED BY <2>3, <2>4, <2>5
<1>5. CASE OpenFails
  <2>1. driver = "running" /\ missed_heartbeats < MaxMissed /\ missed_heartbeats \in Nat
    BY <1>5 DEF OpenFails, OpenRefused, WantOutbound, Beating, Numbers
  <2>2. missed_heartbeats' \in 0 .. MaxMissed BY <1>5, <2>1 DEF OpenFails, CountMiss
  <2>3. CASE want_hb_stream /\ GivesUp
    BY <1>5, <2>2, <2>3, EndSilences DEF OpenFails, peerVars, Numbers
  <2>4. CASE ~(want_hb_stream /\ GivesUp)
    <3>1. /\ driver' = driver /\ ~want_hb_stream' /\ UNCHANGED <<hb_in_flight, probes, hb_done>>
          /\ UNCHANGED <<silent_for, idle_for, next_tick, supports_heartbeat>>
      BY <1>5, <2>4 DEF OpenFails, peerVars
    <3>2. missed_heartbeats' < MaxMissed
      BY <1>5, <2>1, <2>4 DEF OpenFails, CountMiss, GivesUp
    <3>3. Numbers' BY <2>2, <3>1 DEF Numbers, Forgotten
    <3>4. Probes' BY <3>1 DEF Probes
    <3>5. Beating' BY <2>1, <3>1, <3>2 DEF Beating, OneProbe
    <3> QED BY <3>3, <3>4, <3>5
  <2> QED BY <2>3, <2>4
<1>6. CASE HeartbeatDue
  <2>1. /\ driver = "running" /\ driver' = driver /\ ~hb_in_flight /\ next_tick' = Interval
        /\ supports_heartbeat /\ UNCHANGED supports_heartbeat
        /\ UNCHANGED <<hb_in_flight, probes, hb_done, missed_heartbeats, silent_for, idle_for>>
    BY <1>6 DEF HeartbeatDue, TickDue, peerVars
  <2>2. Numbers' BY <2>1 DEF Numbers, Forgotten
  <2>3. Probes' BY <2>1 DEF Probes
  <2>4. Beating' BY <2>1 DEF Beating, OneProbe
  <2> QED BY <2>2, <2>3, <2>4
<1>7. CASE ReadOk \/ ReadMiss
  <2>1. driver = "running" /\ hb_done # <<>> BY <1>7 DEF ReadOk, ReadMiss
  <2>2. Len(probes) \in Nat /\ Len(hb_done) \in Nat \ {0}
    BY <2>1, LenProperties, EmptySeq DEF Probes
  <2>3. hb_in_flight /\ ~want_hb_stream /\ Len(probes) = 0 /\ Len(hb_done) = 1
    <3>1. Len(probes) + Len(hb_done) = (IF hb_in_flight THEN 1 ELSE 0)
      BY <2>1 DEF Beating, OneProbe
    <3>2. Len(probes) + Len(hb_done) # 0 BY <2>2
    <3>3. hb_in_flight BY <3>1, <3>2
    <3>4. ~want_hb_stream BY <2>1, <3>3 DEF Beating, OneProbe
    <3>5. Len(probes) + Len(hb_done) = 1 BY <3>1, <3>3
    <3>6. Len(probes) = 0 /\ Len(hb_done) = 1 BY <2>2, <3>5, SumOfOne
    <3> QED BY <3>3, <3>4, <3>6
  <2>4. Tail(hb_done) \in Seq({"ok", "err"}) /\ Len(Tail(hb_done)) = 0
    BY <2>1, <2>3, HeadTailProperties DEF Probes
  <2>5. CASE ReadMiss /\ GivesUp
    <3>1. missed_heartbeats' \in 0 .. MaxMissed
      BY <2>1, <2>5 DEF ReadMiss, CountMiss, Beating, Numbers
    <3> QED BY <2>5, <3>1, EndSilences DEF ReadMiss, peerVars
  <2>6. CASE ReadOk \/ (ReadMiss /\ ~GivesUp)
    <3>1. /\ driver' = driver /\ hb_done' = Tail(hb_done) /\ ~hb_in_flight' /\ probes' = probes
          /\ UNCHANGED <<silent_for, next_tick, supports_heartbeat, want_hb_stream>>
      BY <2>6 DEF ReadOk, ReadMiss, peerVars, cmdVars
    <3>2. idle_for' \in 0 .. Forgotten BY <1>1, <2>6 DEF ReadOk, ReadMiss, Numbers
    <3>3. missed_heartbeats' \in 0 .. MaxMissed /\ missed_heartbeats' < MaxMissed
      BY <2>1, <2>6 DEF ReadOk, ReadMiss, CountMiss, GivesUp, Beating, Numbers
    <3>4. Numbers' BY <3>1, <3>2, <3>3 DEF Numbers, Forgotten
    <3>5. Probes' BY <2>4, <3>1 DEF Probes
    <3>6. Beating' BY <2>1, <2>3, <2>4, <3>1, <3>3 DEF Beating, OneProbe
    <3> QED BY <3>4, <3>5, <3>6
  <2> QED BY <1>7, <2>5, <2>6
<1> QED BY <1>2, <1>3, <1>4, <1>5, <1>6, <1>7 DEF Loop

(* The probe that ends is the only one, and its result the only result. *)
LEMMA OnlyProbeEnds ==
  ASSUME HbInv, Flags, NEW i \in DOMAIN probes, NEW result \in {"ok", "err"},
         ProbeEnds(i, result)
  PROVE  /\ driver = "running" /\ hb_in_flight /\ probes' = <<>>
         /\ hb_done' \in Seq({"ok", "err"}) /\ Len(hb_done') = 1 /\ hb_done'[1] = result
<1> USE DEF HbInv
<1>1. probes' = RemoveAt(probes, i) /\ hb_done' = Append(hb_done, result) BY DEF ProbeEnds
<1>2. Len(probes) \in Nat \ {0} /\ Len(hb_done) \in Nat /\ probes # <<>>
  BY LenProperties DEF Probes
<1>3. driver = "running" BY <1>2 DEF Beating, Flags
<1>4. hb_in_flight /\ Len(probes) = 1 /\ Len(hb_done) = 0
  <2>1. Len(probes) + Len(hb_done) = (IF hb_in_flight THEN 1 ELSE 0)
    BY <1>3 DEF Beating, OneProbe
  <2>2. Len(probes) + Len(hb_done) # 0 BY <1>2
  <2>3. hb_in_flight BY <2>1, <2>2
  <2>4. Len(probes) + Len(hb_done) = 1 BY <2>1, <2>3
  <2>5. Len(probes) = 1 /\ Len(hb_done) = 0 BY <1>2, <2>4
  <2> QED BY <2>3, <2>5
<1>5. probes' = <<>> BY <1>1, <1>4, LastProbeEnds DEF Probes
<1>6. hb_done' \in Seq({"ok", "err"}) /\ Len(hb_done') = 1 /\ hb_done'[1] = result
  BY <1>1, <1>4, AppendProperties DEF Probes
<1> QED BY <1>3, <1>4, <1>5, <1>6

LEMMA ProbeBeats ==
  ASSUME HbInv, Flags, NEW i \in DOMAIN probes, NEW result \in {"ok", "err"},
         ProbeEnds(i, result)
  PROVE  HbInv'
<1> USE DEF HbInv
<1>1. UNCHANGED <<driver, supports_heartbeat, want_hb_stream, hb_in_flight,
                  missed_heartbeats, next_tick, silent_for, idle_for>>
  BY DEF ProbeEnds, peerVars
<1>2. /\ driver = "running" /\ hb_in_flight /\ probes' = <<>>
      /\ hb_done' \in Seq({"ok", "err"}) /\ Len(hb_done') = 1
  BY OnlyProbeEnds
<1>3. Numbers' BY <1>1 DEF Numbers, Forgotten
<1>4. Probes' BY <1>2 DEF Probes
<1>5. Beating' BY <1>1, <1>2 DEF Beating, OneProbe
<1> QED BY <1>3, <1>4, <1>5

LEMMA TimeBeats ==
  ASSUME HbInv, Tick
  PROVE  HbInv'
<1> USE TimesAssumption DEF HbInv
<1>1. /\ probes' = [i \in DOMAIN probes |-> Sooner(probes[i])]
      /\ silent_for' \in {silent_for, Later(silent_for)} /\ idle_for' = Later(idle_for)
      /\ next_tick' = Sooner(next_tick)
      /\ UNCHANGED <<driver, supports_heartbeat, want_hb_stream, hb_in_flight, hb_done,
                     missed_heartbeats>>
  BY DEF Tick
<1>2. Numbers' BY <1>1 DEF Numbers, Forgotten, Later, Sooner
<1>3. probes' \in Seq(0 .. ProbeTimeout) /\ Len(probes') = Len(probes)
  <2>1. /\ Len(probes) \in Nat /\ DOMAIN probes = 1 .. Len(probes)
        /\ \A i \in 1 .. Len(probes) : probes[i] \in 0 .. ProbeTimeout
    BY LenProperties DEF Probes
  <2>2. \A i \in 1 .. Len(probes) : Sooner(probes[i]) \in 0 .. ProbeTimeout
    BY <2>1 DEF Sooner
  <2> QED BY <1>1, <2>1, <2>2
<1>4. Probes' BY <1>1, <1>3 DEF Probes
<1>5. Beating'
  <2>1. driver = "ended" => Len(probes') = 0 BY <1>1, <1>3 DEF Beating
  <2>2. driver = "ended" => probes' = <<>> BY <1>3, <2>1, EmptySeq
  <2> QED BY <1>1, <1>3, <2>2 DEF Beating, OneProbe
<1> QED BY <1>2, <1>4, <1>5

-----------------------------------------------------------------------------
(* Every step keeps the invariant.                                         *)
LEMMA FlagsStep ==
  ASSUME IInv, [Next]_vars
  PROVE  Flags'
<1> USE DEF IInv, Flags, peerVars, hbVars
<1>1. CASE TakeCommand \/ StreamForRequest \/ StreamForProbe \/ HeartbeatDue
  BY <1>1 DEF TakeCommand, StreamForRequest, StreamForProbe, HeartbeatDue
<1>2. CASE OpenFails BY <1>2 DEF OpenFails, EndDriver
<1>3. CASE ReadOk BY <1>3 DEF ReadOk
<1>4. CASE ReadMiss BY <1>4 DEF ReadMiss, EndDriver
<1>5. CASE ConnectionEnds \/ Cancelled BY <1>5 DEF ConnectionEnds, Cancelled, EndDriver
<1>6. CASE Probing
  BY <1>6 DEF Probing, ProbeAnswered, ProbeTimesOut, ProbeEnds
<1>7. ASSUME NEW r \in Requests, Caller(r) PROVE Flags'
  BY <1>7 DEF Caller, Call, Send, CallerLeaves, Respond, BodyEnds
<1>8. CASE Abort BY <1>8 DEF Abort
<1>9. CASE LinkChanges
  <2>1. link' \in Answering \cup {"silent", "closed"} BY <1>9 DEF LinkChanges, Answering
  <2> QED BY <1>9, <2>1 DEF LinkChanges
<1>10. CASE Tick BY <1>10 DEF Tick
<1>11. CASE UNCHANGED vars BY <1>11 DEF vars
<1> QED
  BY <1>1, <1>2, <1>3, <1>4, <1>5, <1>6, <1>7, <1>8, <1>9, <1>10, <1>11 DEF Next, Loop

LEMMA CommandsStep ==
  ASSUME IInv, [Next]_vars
  PROVE  CmdInv'
<1> USE DEF IInv
<1>1. ASSUME UNCHANGED <<driver, cmdVars>> PROVE CmdInv'
  BY <1>1 DEF CmdInv, Commands, Held, Answerable, In, cmdVars
<1>2. CASE EndDriver BY <1>2, EndAnswers DEF CmdInv
<1>3. CASE Loop
  <2>1. CASE TakeCommand BY <2>1, TakeStep
  <2>2. CASE StreamForRequest
    BY <2>2, AnswerStep DEF StreamForRequest, OpenGranted, WantOutbound
  <2>3. CASE OpenFails /\ ~EndDriver
    BY <2>3, AnswerStep DEF OpenFails, OpenRefused, WantOutbound
  <2>4. CASE StreamForProbe \/ HeartbeatDue \/ ReadOk \/ (ReadMiss /\ ~EndDriver)
    BY <1>1, <2>4 DEF StreamForProbe, HeartbeatDue, ReadOk, ReadMiss
  <2>5. ConnectionEnds \/ Cancelled => EndDriver BY DEF ConnectionEnds, Cancelled
  <2> QED BY <1>2, <1>3, <2>1, <2>2, <2>3, <2>4, <2>5 DEF Loop
<1>4. CASE Probing \/ Abort \/ LinkChanges \/ Tick \/ UNCHANGED vars
  BY <1>1, <1>4 DEF Probing, ProbeAnswered, ProbeTimesOut, ProbeEnds, Abort, LinkChanges, Tick,
         vars
<1> QED BY <1>3, <1>4, CallerStep DEF Next, Flags

LEMMA HeartbeatsStep ==
  ASSUME IInv, [Next]_vars
  PROVE  HbInv'
<1> USE DEF IInv
<1>1. 0 \in 0 .. Forgotten /\ silent_for \in 0 .. Forgotten /\ idle_for \in 0 .. Forgotten
  BY TimesAssumption DEF HbInv, Numbers, Forgotten
<1>2. ASSUME NEW r \in Requests, Caller(r) PROVE HbInv'
  BY <1>1, <1>2, HbStays DEF Caller, Call, Send, CallerLeaves, Respond, BodyEnds, peerVars
<1>3. CASE Abort \/ LinkChanges \/ UNCHANGED vars
  BY <1>1, <1>3, HbStays DEF Abort, LinkChanges, vars, peerVars
<1>4. CASE Probing
  BY <1>4, ProbeBeats DEF Probing, ProbeAnswered, ProbeTimesOut
<1> QED BY <1>2, <1>3, <1>4, LoopBeats, TimeBeats DEF Next

(* The inductive invariant holds in every reachable state. *)
THEOREM InductiveInvariant == Spec => []IInv
<1>1. IInv /\ [Next]_vars => IInv'
  BY FlagsStep, CommandsStep, HeartbeatsStep DEF IInv
<1> QED BY <1>1, InitIInv, PTL DEF Spec

(* Channels, clocks and flags of the driver keep their types; its count of *)
(* misses never passes MAX_MISSED.                                         *)
THEOREM TypeCorrect == Spec => []TypeOK
<1>1. IInv => TypeOK BY Typed DEF IInv, CmdInv, HbInv
<1> QED BY <1>1, InductiveInvariant, PTL

(* The select! loop never runs two probes, never reads a probe's result    *)
(* for another one, and never leaves hb_in_flight standing.                *)
THEOREM OneProbeAtATime == Spec => []OneProbe
<1>1. IInv => OneProbe BY DEF IInv, HbInv, Beating
<1> QED BY <1>1, InductiveInvariant, PTL

(* Every caller of open_stream that waits has its command in the channel   *)
(* or in hand, once, and none waits for a driver that is over.             *)
THEOREM CommandsAreKept == Spec => []NoCommandLost
<1>1. IInv => NoCommandLost
  <2> SUFFICES ASSUME CmdInv PROVE NoCommandLost
    BY DEF IInv
  <2> DEFINE inhand == IF pending_open = None THEN <<>> ELSE <<pending_open>>
             held   == inhand \o queue
  <2> USE DEF CmdInv, Commands
  <2>1. CASE pending_open = None
    <3>1. held = queue /\ DOMAIN queue = 1 .. Len(queue)
      BY <2>1, ConcatEmptySeq, LenProperties
    <3>2. IsInjective(held) BY <3>1 DEF IsInjective, Held
    <3>3. In({"waiting"}) \subseteq Range(held)
      BY <2>1, <3>1, RequestsAssumption DEF Answerable, In, Range
    <3> QED BY <3>2, <3>3 DEF Answerable, NoCommandLost
  <2>2. CASE pending_open # None
    <3>1. inhand \in Seq(Requests) /\ Len(inhand) = 1 /\ inhand[1] = pending_open BY <2>2
    <3>2. Len(queue) \in Nat BY LenProperties
    <3> HIDE DEF inhand
    <3>3. /\ held \in Seq(Requests) /\ Len(held) = 1 + Len(queue)
          /\ \A i \in 1 .. 1 + Len(queue) : held[i] = IF i <= 1 THEN inhand[i] ELSE queue[i - 1]
      <4>1. /\ held \in Seq(Requests) /\ Len(held) = Len(inhand) + Len(queue)
            /\ \A i \in 1 .. Len(inhand) + Len(queue) :
                 held[i] = IF i <= Len(inhand) THEN inhand[i] ELSE queue[i - Len(inhand)]
        BY <3>1, ConcatProperties
      <4> HIDE DEF held
      <4> QED BY <3>1, <4>1
    <3>4. DOMAIN held = 1 .. 1 + Len(queue) BY <3>3, LenProperties
    <3>5. held[1] = pending_open /\ \A i \in 1 .. Len(queue) : held[i + 1] = queue[i]
      BY <3>1, <3>2, <3>3
    <3> HIDE DEF held
    <3>6. \A i \in DOMAIN held : i = 1 \/ \E k \in 1 .. Len(queue) : i = k + 1
      <4> SUFFICES ASSUME NEW i \in 1 .. 1 + Len(queue), i # 1
                   PROVE  \E k \in 1 .. Len(queue) : i = k + 1
        BY <3>4
      <4>1. i - 1 \in 1 .. Len(queue) /\ i = (i - 1) + 1 BY <3>2
      <4> QED BY <4>1
    <3>7. IsInjective(held) BY <3>5, <3>6 DEF IsInjective, Held
    <3>8. 1 \in DOMAIN held /\ \A i \in 1 .. Len(queue) : i + 1 \in DOMAIN held
      BY <3>2, <3>4
    <3>9. In({"waiting"}) \subseteq Range(held)
      BY <3>5, <3>8 DEF Answerable, In, Range
    <3> QED BY <3>7, <3>9 DEF Answerable, NoCommandLost, held, inhand
  <2> QED BY <2>1, <2>2
<1> QED BY <1>1, InductiveInvariant, PTL

-----------------------------------------------------------------------------
(* Time.  A miss follows the one before by an interval, however the tasks  *)
(* are scheduled, unless yamux has no room for the probe's stream.         *)

Span(k) == k * Interval
Busy == want_hb_stream \/ hb_in_flight

(* The k-th miss of a silent peer is counted within k intervals and the    *)
(* timeout of a probe.                                                     *)
OnTime ==
  driver = "running" /\ supports_heartbeat /\ link = "silent" =>
    /\ want_hb_stream => silent_for <= Span(missed_heartbeats + 1)
    /\ \A i \in DOMAIN probes :
         silent_for + probes[i] <= Span(missed_heartbeats + 1) + ProbeTimeout
    /\ hb_done # <<>> =>
         /\ silent_for <= Span(missed_heartbeats + 1) + ProbeTimeout
         /\ Head(hb_done) = "ok" => silent_for = 0
    /\ Busy => silent_for + next_tick <= Span(missed_heartbeats + 2)
    /\ ~Busy => silent_for + next_tick <= Span(missed_heartbeats + 1)

LEMMA Spans ==
  /\ \A k \in Nat : Span(k) \in Nat /\ Span(k + 1) = Span(k) + Interval
  /\ \A k, l \in Nat : k <= l => Span(k) <= Span(l)
<1>1. Interval \in Nat BY TimesAssumption
<1>2. \A k \in Nat : Span(k) \in Nat /\ Span(k + 1) = Span(k) + Interval BY <1>1 DEF Span
<1>3. \A k, l \in Nat : k <= l => Span(k) <= Span(l)
  <2> SUFFICES ASSUME NEW k \in Nat, NEW l \in Nat, k <= l PROVE Span(k) <= Span(l)
    OBVIOUS
  <2>1. l - k \in Nat /\ l = k + (l - k) BY SMT
  <2>2. Span(l) = Span(k) + (l - k) * Interval BY <1>1, <2>1 DEF Span
  <2>3. (l - k) * Interval \in Nat BY <1>1, <2>1
  <2> QED BY <1>2, <2>2, <2>3
<1> QED BY <1>2, <1>3

(* The spans OnTime speaks of, one miss apart. *)
LEMMA NextSpans ==
  ASSUME IInv
  PROVE  /\ missed_heartbeats \in Nat /\ missed_heartbeats + 1 \in Nat
         /\ (missed_heartbeats + 1) + 1 = missed_heartbeats + 2
         /\ Span(missed_heartbeats + 1) \in Nat /\ Interval <= Span(missed_heartbeats + 1)
         /\ Span(missed_heartbeats + 2) = Span(missed_heartbeats + 1) + Interval
<1>1. missed_heartbeats \in Nat BY LimitsAssumption DEF IInv, HbInv, Numbers
<1>2. /\ missed_heartbeats + 1 \in Nat /\ 1 <= missed_heartbeats + 1
      /\ (missed_heartbeats + 1) + 1 = missed_heartbeats + 2
  BY <1>1
<1>3. Span(1) = Interval BY TimesAssumption DEF Span
<1> QED BY <1>1, <1>2, <1>3, Spans

(* What has no part in it, and the end of the driver. *)
LEMMA OnTimeStays ==
  ASSUME OnTime, driver' = "ended" \/ UNCHANGED <<driver, supports_heartbeat, peerVars, hbVars>>
  PROVE  OnTime'
<1>1. CASE driver' = "ended" BY <1>1 DEF OnTime
<1>2. CASE UNCHANGED <<driver, supports_heartbeat, peerVars, hbVars>>
  BY <1>2 DEF OnTime, Busy, Span, peerVars, hbVars
<1> QED BY <1>1, <1>2

(* While a probe is out or its result unread, nothing else is. *)
LEMMA Unbusy ==
  ASSUME IInv, driver = "running"
  PROVE  /\ ~hb_in_flight => probes = <<>> /\ hb_done = <<>>
         /\ hb_done # <<>> => hb_in_flight /\ ~want_hb_stream /\ probes = <<>> /\ Tail(hb_done) = <<>>
         /\ want_hb_stream => probes = <<>> /\ hb_done = <<>> /\ ~hb_in_flight
         /\ hb_in_flight /\ hb_done = <<>> => 1 \in DOMAIN probes /\ probes[1] \in Nat
<1>1. /\ probes \in Seq(0 .. ProbeTimeout) /\ hb_done \in Seq({"ok", "err"})
      /\ Len(probes) + Len(hb_done) = (IF hb_in_flight THEN 1 ELSE 0)
      /\ ~(hb_in_flight /\ want_hb_stream)
  BY DEF IInv, HbInv, Probes, Beating, OneProbe
<1>2. Len(probes) \in Nat /\ Len(hb_done) \in Nat BY <1>1, LenProperties
<1>3. /\ Len(probes) = 0 => probes = <<>>
      /\ Len(hb_done) = 0 => hb_done = <<>>
  BY <1>1, EmptySeq
<1>4. ~hb_in_flight => probes = <<>> /\ hb_done = <<>>
  <2>1. ~hb_in_flight => Len(probes) + Len(hb_done) = 0 BY <1>1
  <2>2. Len(probes) + Len(hb_done) = 0 => Len(probes) = 0 /\ Len(hb_done) = 0 BY <1>2
  <2> QED BY <1>3, <2>1, <2>2
<1>5. ASSUME hb_done # <<>> PROVE probes = <<>> /\ Tail(hb_done) = <<>>
  <2>1. Len(hb_done) \in Nat \ {0} BY <1>1, <1>5, EmptySeq
  <2>2. Len(probes) + Len(hb_done) = 1 BY <1>1, <1>4, <1>5
  <2>3. Len(probes) = 0 /\ Len(hb_done) = 1 BY <1>2, <2>1, <2>2, SumOfOne
  <2>4. Tail(hb_done) \in Seq({"ok", "err"}) /\ Len(Tail(hb_done)) = 0
    BY <1>1, <1>5, <2>3, HeadTailProperties
  <2>5. Tail(hb_done) = <<>> BY <2>4, EmptySeq
  <2> QED BY <1>3, <2>3, <2>5
<1>6. ASSUME hb_in_flight, hb_done = <<>> PROVE 1 \in DOMAIN probes /\ probes[1] \in Nat
  <2>1. Len(hb_done) = 0 BY <1>6, EmptySeq
  <2>2. Len(probes) = 1 BY <1>1, <1>2, <1>6, <2>1
  <2>3. /\ DOMAIN probes = 1 .. Len(probes)
        /\ probes \in [1 .. Len(probes) -> 0 .. ProbeTimeout]
    BY <1>1, LenProperties
  <2>4. 1 \in DOMAIN probes BY <2>2, <2>3
  <2>5. probes[1] \in 0 .. ProbeTimeout BY <2>3, <2>4
  <2> QED BY <2>4, <2>5, TimesAssumption
<1> QED BY <1>1, <1>4, <1>5, <1>6

LEMMA LoopOnTime ==
  ASSUME IInv, OnTime, Loop
  PROVE  OnTime'
<1> USE TimesAssumption
<1>1. /\ missed_heartbeats \in Nat /\ next_tick \in 0 .. Interval /\ silent_for \in Nat
      /\ Interval \in Nat /\ ProbeTimeout \in Nat
  BY LimitsAssumption DEF IInv, HbInv, Numbers, Forgotten
<1> DEFINE one == Span(missed_heartbeats + 1)
           two == Span(missed_heartbeats + 2)
<1>2. one \in Nat /\ Interval <= one /\ two = one + Interval
      /\ (missed_heartbeats + 1) + 1 = missed_heartbeats + 2
  BY NextSpans
<1>3. CASE TakeCommand \/ StreamForRequest
  BY <1>3, OnTimeStays DEF TakeCommand, StreamForRequest
<1>4. CASE ConnectionEnds \/ Cancelled
  BY <1>4, OnTimeStays DEF ConnectionEnds, Cancelled, EndDriver
<1>5. CASE StreamForProbe
  <2>1. /\ driver = "running" /\ want_hb_stream /\ ~want_hb_stream' /\ hb_in_flight'
        /\ probes' = Append(probes, ProbeTimeout)
        /\ UNCHANGED <<driver, supports_heartbeat, link, silent_for, hb_done,
                       missed_heartbeats, next_tick>>
    BY <1>5 DEF StreamForProbe, OpenGranted, WantOutbound, peerVars
  <2>2. probes = <<>> /\ hb_done = <<>> BY <2>1, Unbusy
  <2>3. \A i \in DOMAIN probes' : probes'[i] = ProbeTimeout BY <2>1, <2>2
  <2>4. silent_for <= one => silent_for + ProbeTimeout <= one + ProbeTimeout BY <1>1, <1>2
  <2> HIDE DEF one, two
  <2> QED BY <2>1, <2>2, <2>3, <2>4 DEF OnTime, Busy, Span, one, two
<1>6. CASE OpenFails
  <2>1. driver = "running" BY <1>6 DEF OpenFails, OpenRefused, WantOutbound
  <2>2. CASE want_hb_stream /\ GivesUp
    BY <1>6, <2>2, OnTimeStays DEF OpenFails, EndDriver
  <2>3. CASE want_hb_stream /\ ~GivesUp
    <3>1. /\ missed_heartbeats' = missed_heartbeats + 1 /\ ~want_hb_stream'
          /\ UNCHANGED <<driver, supports_heartbeat, link, silent_for, hb_in_flight, probes,
                         hb_done, next_tick>>
      BY <1>6, <2>3 DEF OpenFails, CountMiss, peerVars
    <3>2. probes = <<>> /\ hb_done = <<>> /\ ~hb_in_flight BY <2>1, <2>3, Unbusy
    <3> QED BY <1>2, <2>1, <2>3, <3>1, <3>2 DEF OnTime, Busy, Span
  <2>4. CASE ~want_hb_stream
    <3>1. UNCHANGED <<driver, supports_heartbeat, peerVars, hbVars>>
      BY <1>6, <2>4 DEF OpenFails, IInv, Flags, hbVars
    <3> QED BY <3>1, OnTimeStays
  <2> QED BY <2>2, <2>3, <2>4
<1>7. CASE HeartbeatDue
  <2>1. /\ driver = "running" /\ next_tick = 0 /\ ~hb_in_flight /\ ~want_hb_stream
        /\ want_hb_stream' /\ next_tick' = Interval
        /\ UNCHANGED <<driver, supports_heartbeat, link, silent_for, hb_in_flight, probes,
                       hb_done, missed_heartbeats>>
    BY <1>7 DEF HeartbeatDue, TickDue, peerVars
  <2>2. probes = <<>> /\ hb_done = <<>> BY <2>1, Unbusy
  <2>3. ASSUME silent_for + 0 <= one
        PROVE  silent_for <= one /\ silent_for + Interval <= two
    BY <1>1, <1>2, <2>3
  <2> HIDE DEF one, two
  <2> QED BY <2>1, <2>2, <2>3 DEF OnTime, Busy, Span, one, two
<1>8. CASE ReadOk
  <2>1. /\ driver = "running" /\ hb_done # <<>> /\ Head(hb_done) = "ok"
        /\ hb_done' = Tail(hb_done) /\ ~hb_in_flight' /\ missed_heartbeats' = 0
        /\ UNCHANGED <<driver, supports_heartbeat, link, silent_for, want_hb_stream, probes,
                       next_tick>>
    BY <1>8 DEF ReadOk, peerVars
  <2>2. probes = <<>> /\ Tail(hb_done) = <<>> /\ ~want_hb_stream BY <2>1, Unbusy
  <2>3. Span(0 + 1) = Interval BY <1>1 DEF Span
  <2>4. 0 + next_tick <= Span(0 + 1) BY <1>1, <2>3
  <2> QED BY <1>1, <2>1, <2>2, <2>4 DEF OnTime, Busy, Span
<1>9. CASE ReadMiss
  <2>1. driver = "running" /\ hb_done # <<>> BY <1>9 DEF ReadMiss
  <2>2. CASE GivesUp BY <1>9, <2>2, OnTimeStays DEF ReadMiss, EndDriver
  <2>3. CASE ~GivesUp
    <3>1. /\ hb_done' = Tail(hb_done) /\ ~hb_in_flight'
          /\ missed_heartbeats' = missed_heartbeats + 1
          /\ UNCHANGED <<driver, supports_heartbeat, link, silent_for, want_hb_stream, probes,
                         next_tick>>
      BY <1>9, <2>3 DEF ReadMiss, CountMiss, peerVars
    <3>2. probes = <<>> /\ Tail(hb_done) = <<>> /\ ~want_hb_stream /\ hb_in_flight
      BY <2>1, Unbusy
    <3> QED BY <1>2, <2>1, <3>1, <3>2 DEF OnTime, Busy, Span
  <2> QED BY <2>2, <2>3
<1> QED BY <1>3, <1>4, <1>5, <1>6, <1>7, <1>8, <1>9 DEF Loop

LEMMA ProbeOnTime ==
  ASSUME IInv, OnTime, Probing
  PROVE  OnTime'
<1>1. PICK i \in DOMAIN probes, result \in {"ok", "err"} :
        ProbeEnds(i, result) /\ (result = "ok" => link \in Answering)
  BY DEF Probing, ProbeAnswered, ProbeTimesOut
<1>2. /\ driver = "running" /\ hb_in_flight /\ probes' = <<>>
      /\ hb_done' \in Seq({"ok", "err"}) /\ Len(hb_done') = 1 /\ hb_done'[1] = result
  BY <1>1, OnlyProbeEnds DEF IInv
<1>3. Head(hb_done') = result BY <1>2
<1>4. UNCHANGED <<driver, supports_heartbeat, link, silent_for, want_hb_stream, hb_in_flight,
                  missed_heartbeats, next_tick>>
  BY <1>1 DEF ProbeEnds, peerVars
<1>5. probes[i] \in Nat /\ silent_for \in Nat
  <2>1. probes \in Seq(0 .. ProbeTimeout) BY DEF IInv, HbInv, Probes
  <2> QED BY <2>1, LenProperties, TimesAssumption DEF IInv, HbInv, Numbers, Forgotten
<1> DEFINE bound == Span(missed_heartbeats + 1) + ProbeTimeout
<1>6. bound \in Nat BY NextSpans, TimesAssumption
<1>7. silent_for + probes[i] <= bound => silent_for <= bound
  <2> HIDE DEF bound
  <2> QED BY <1>5, <1>6
<1>8. link = "silent" => result = "err" BY <1>1 DEF Answering
<1> HIDE DEF bound
<1> QED BY <1>1, <1>2, <1>3, <1>4, <1>7, <1>8 DEF OnTime, Busy, Span, bound

LEMMA LinkOnTime ==
  ASSUME IInv, OnTime, LinkChanges
  PROVE  OnTime'
<1> USE TimesAssumption
<1>1. /\ silent_for' = 0 /\ UNCHANGED <<driver, supports_heartbeat, hbVars>> BY DEF LinkChanges
<1>2. next_tick \in 0 .. Interval /\ probes \in Seq(0 .. ProbeTimeout)
  BY DEF IInv, HbInv, Numbers, Probes
<1> DEFINE one == Span(missed_heartbeats + 1)
           two == Span(missed_heartbeats + 2)
<1>3. one \in Nat /\ Interval <= one /\ two = one + Interval BY NextSpans
<1> HIDE DEF one, two
<1>4. 0 <= one /\ 0 + next_tick <= one /\ 0 + next_tick <= two /\ 0 <= one + ProbeTimeout
  BY <1>2, <1>3
<1>5. \A i \in DOMAIN probes : 0 + probes[i] <= one + ProbeTimeout
  <2> SUFFICES ASSUME NEW i \in DOMAIN probes PROVE 0 + probes[i] <= one + ProbeTimeout
    OBVIOUS
  <2>1. probes[i] \in 0 .. ProbeTimeout BY <1>2, LenProperties
  <2> QED BY <1>3, <2>1
<1> QED BY <1>1, <1>4, <1>5 DEF OnTime, Busy, Span, hbVars, one, two

(* Time passes only when no stream is asked for: no probe waits for one.   *)
LEMMA QuietWaits ==
  ASSUME IInv, Room, Quiet, driver = "running"
  PROVE  ~want_hb_stream
<1>1. Streams \in Nat
  <2>1. IsFiniteSet(Requests) BY RequestsAssumption
  <2>2. \A states : Cardinality(In(states)) \in Nat
    <3> SUFFICES ASSUME NEW states PROVE Cardinality(In(states)) \in Nat OBVIOUS
    <3>1. In(states) \in SUBSET Requests BY DEF In
    <3>2. IsFiniteSet(In(states)) BY <2>1, <3>1, FS_Subset
    <3> QED BY <3>2, FS_CardinalityType
  <2>3. Len(probes) \in Nat BY LenProperties DEF IInv, HbInv, Probes
  <2> QED BY <2>2, <2>3 DEF Streams, Unacked
<1>2. MaxStreams \in Nat BY LimitsAssumption
<1>3. ~WantOutbound BY <1>1, <1>2 DEF Quiet, OpenRefused, OpenGranted, Room
<1> QED BY <1>3 DEF Quiet, WantOutbound

LEMMA TimeOnTime ==
  ASSUME IInv, OnTime, RoomInSilence, Tick
  PROVE  OnTime'
<1> USE TimesAssumption
<1> SUFFICES ASSUME driver = "running", supports_heartbeat, link = "silent" PROVE OnTime'
  BY DEF Tick, OnTime
<1>1. /\ next_tick \in Nat /\ silent_for \in Nat /\ probes \in Seq(0 .. ProbeTimeout)
      /\ Interval \in Nat /\ ProbeTimeout \in Nat /\ ProbeTimeout < Interval
  BY DEF IInv, HbInv, Numbers, Forgotten, Probes
<1>2. /\ probes' = [i \in DOMAIN probes |-> Sooner(probes[i])]
      /\ silent_for' \in Nat /\ silent_for' <= silent_for + 1
      /\ next_tick' = Sooner(next_tick) /\ next_tick' \in Nat
      /\ UNCHANGED <<driver, supports_heartbeat, link, want_hb_stream, hb_in_flight, hb_done,
                     missed_heartbeats>>
  BY <1>1 DEF Tick, Later, Sooner
<1>3. ~want_hb_stream /\ hb_done = <<>> /\ ~TickDue
  BY QuietWaits DEF Tick, Quiet, RoomInSilence
<1>4. \A i \in DOMAIN probes : probes[i] \in 0 .. ProbeTimeout /\ probes[i] > 0
  BY <1>1, LenProperties DEF Tick, Quiet
<1>5. next_tick > 0 => next_tick' = next_tick - 1 BY <1>1, <1>2 DEF Sooner
<1>6. DOMAIN probes' = DOMAIN probes /\ \A i \in DOMAIN probes : probes'[i] = probes[i] - 1
  BY <1>2, <1>4 DEF Sooner
<1> DEFINE t   == silent_for'
           n   == next_tick'
           one == Span(missed_heartbeats + 1)
           two == Span(missed_heartbeats + 2)
<1>7. one \in Nat /\ two = one + Interval BY NextSpans
<1>8. t \in Nat /\ t <= silent_for + 1 /\ n \in Nat
      /\ (next_tick > 0 => n = next_tick - 1) /\ (next_tick = 0 => n = 0)
  BY <1>1, <1>2, <1>5 DEF Sooner
<1>9. /\ \A i \in DOMAIN probes : silent_for + probes[i] <= one + ProbeTimeout
      /\ hb_in_flight => silent_for + next_tick <= two
      /\ ~hb_in_flight => silent_for + next_tick <= one
  BY <1>3 DEF OnTime, Busy
<1> HIDE DEF t, n, one, two
<1>10. \A i \in DOMAIN probes : t + (probes[i] - 1) <= one + ProbeTimeout
  <2> SUFFICES ASSUME NEW i \in DOMAIN probes PROVE t + (probes[i] - 1) <= one + ProbeTimeout
    OBVIOUS
  <2> QED BY <1>1, <1>4, <1>7, <1>8, <1>9
<1>11. ASSUME hb_in_flight PROVE t + n <= two
  <2>1. 1 \in DOMAIN probes /\ probes[1] \in Nat BY <1>3, <1>11, Unbusy
  <2>2. CASE next_tick > 0 BY <1>1, <1>7, <1>8, <1>9, <1>11, <2>2
  <2>3. CASE next_tick = 0
    <3>1. probes[1] > 0 /\ silent_for + probes[1] <= one + ProbeTimeout BY <1>4, <1>9, <2>1
    <3>2. t <= one + ProbeTimeout BY <1>1, <1>7, <1>8, <2>1, <3>1
    <3> QED BY <1>1, <1>7, <1>8, <2>3, <3>2
  <2> QED BY <1>1, <2>2, <2>3
<1>12. ASSUME ~hb_in_flight PROVE t + n <= one
  <2>1. next_tick > 0 BY <1>1, <1>3, <1>12 DEF TickDue
  <2> QED BY <1>1, <1>7, <1>8, <1>9, <1>12, <2>1
<1> QED BY <1>2, <1>3, <1>6, <1>10, <1>11, <1>12 DEF OnTime, Busy, Span, t, n, one, two

LEMMA OnTimeStep ==
  ASSUME IInv, OnTime, RoomInSilence, [Next]_vars
  PROVE  OnTime'
<1>1. ASSUME NEW r \in Requests, Caller(r) PROVE OnTime'
  BY <1>1, OnTimeStays DEF Caller, Call, Send, CallerLeaves, Respond, BodyEnds
<1>2. CASE Abort \/ UNCHANGED vars BY <1>2, OnTimeStays DEF Abort, vars
<1> QED BY <1>1, <1>2, LoopOnTime, ProbeOnTime, LinkOnTime, TimeOnTime DEF Next

LEMMA InitOnTime == Init => OnTime
BY DEF Init, OnTime

(* The time a session is silent, from the misses it has counted. *)
LEMMA SilenceCounted ==
  ASSUME IInv, OnTime, driver = "running", supports_heartbeat, link = "silent"
  PROVE  silent_for <= Span(missed_heartbeats + 1) + ProbeTimeout
<1>1. /\ next_tick \in Nat /\ silent_for \in Nat /\ ProbeTimeout \in Nat
  BY TimesAssumption DEF IInv, HbInv, Numbers, Forgotten
<1> DEFINE one == Span(missed_heartbeats + 1)
<1>2. one \in Nat BY NextSpans
<1>3. /\ want_hb_stream => silent_for <= one
      /\ \A i \in DOMAIN probes : silent_for + probes[i] <= one + ProbeTimeout
      /\ hb_done # <<>> => silent_for <= one + ProbeTimeout
      /\ ~Busy => silent_for + next_tick <= one
  BY DEF OnTime
<1> HIDE DEF one
<1>4. CASE want_hb_stream BY <1>1, <1>2, <1>3, <1>4 DEF one
<1>5. CASE hb_done # <<>> BY <1>3, <1>5 DEF one
<1>6. CASE hb_in_flight /\ hb_done = <<>>
  <2>1. 1 \in DOMAIN probes /\ probes[1] \in Nat BY <1>6, Unbusy
  <2>2. silent_for + probes[1] <= one + ProbeTimeout BY <1>3, <2>1
  <2> QED BY <1>1, <1>2, <2>1, <2>2 DEF one
<1>7. CASE ~Busy BY <1>1, <1>2, <1>3, <1>7 DEF one
<1> QED BY <1>4, <1>5, <1>6, <1>7 DEF Busy, one

(* While fewer than AckBacklog streams wait for a silent peer, the clocks  *)
(* of heartbeat_interval and of the probes do not fall behind its silence. *)
LEMMA KeepsTime == Spec /\ []RoomInSilence => [](IInv /\ OnTime)
<1>1. Init => OnTime BY InitOnTime
<1>2. IInv /\ OnTime /\ RoomInSilence /\ [Next]_vars => OnTime' BY OnTimeStep
<1> QED BY <1>1, <1>2, InductiveInvariant, PTL DEF Spec

(* The last miss is counted before SESSION_STALE_SECS are over: unless the *)
(* yamux backlog is full, a silent client's session has ended by then.     *)
THEOREM SilentSessionEnds == Spec => EvictedWithRoom
<1>1. IInv /\ OnTime => EvictedInTime
  <2> SUFFICES ASSUME IInv, OnTime, driver = "running", supports_heartbeat, link = "silent"
               PROVE  silent_for <= StaleAfter
    BY DEF EvictedInTime
  <2>1. silent_for <= Span(missed_heartbeats + 1) + ProbeTimeout BY SilenceCounted
  <2>2. missed_heartbeats + 1 \in Nat /\ missed_heartbeats + 1 <= MaxMissed /\ MaxMissed \in Nat
    BY LimitsAssumption DEF IInv, HbInv, Numbers, Beating
  <2>3. Span(missed_heartbeats + 1) <= Span(MaxMissed)
        /\ Span(missed_heartbeats + 1) \in Nat /\ Span(MaxMissed) \in Nat
    BY <2>2, Spans
  <2>4. Span(MaxMissed) + ProbeTimeout <= StaleAfter BY EvictionAssumption DEF Span
  <2>5. silent_for \in Nat BY TimesAssumption DEF IInv, HbInv, Numbers, Forgotten
  <2> QED BY <2>1, <2>3, <2>4, <2>5, TimesAssumption
<1> QED BY <1>1, KeepsTime, PTL DEF EvictedWithRoom

(* is_alive turns false with the second miss, and by then two intervals    *)
(* and one probe's timeout have passed, not more.                          *)
THEOREM ZombieSeen == Spec => ZombieWithRoom
<1>1. IInv /\ OnTime => ZombieFlagged
  <2> SUFFICES ASSUME IInv, OnTime, IsAlive, supports_heartbeat, link = "silent"
               PROVE  ~(silent_for > 2 * Interval + ProbeTimeout)
    BY DEF ZombieFlagged
  <2>1. driver = "running" /\ missed_heartbeats \in Nat /\ ~(missed_heartbeats >= 2)
    BY LimitsAssumption DEF IsAlive, TakeoverAfter, IInv, HbInv, Numbers
  <2>2. silent_for <= Span(missed_heartbeats + 1) + ProbeTimeout BY <2>1, SilenceCounted
  <2>3. missed_heartbeats + 1 \in Nat /\ missed_heartbeats + 1 <= 2 /\ 2 \in Nat BY <2>1
  <2>4. Span(missed_heartbeats + 1) <= Span(2) /\ Span(missed_heartbeats + 1) \in Nat
        /\ Span(2) \in Nat
    BY <2>3, Spans
  <2>5. Span(2) = 2 * Interval BY DEF Span
  <2>6. silent_for \in Nat BY TimesAssumption DEF IInv, HbInv, Numbers, Forgotten
  <2> QED BY <2>2, <2>4, <2>5, <2>6, TimesAssumption
<1> QED BY <1>1, KeepsTime, PTL DEF ZombieWithRoom

(* There is one probe at most, and a request has one stream at most.       *)
LEMMA FewProbes ==
  ASSUME IInv
  PROVE  Len(probes) \in Nat /\ Len(probes) <= 1
<1>1. probes \in Seq(0 .. ProbeTimeout) /\ hb_done \in Seq({"ok", "err"})
  BY DEF IInv, HbInv, Probes
<1>2. Len(probes) \in Nat /\ Len(hb_done) \in Nat BY <1>1, LenProperties
<1>3. CASE driver = "running"
  <2>1. Len(probes) + Len(hb_done) = 0 \/ Len(probes) + Len(hb_done) = 1
    BY <1>3 DEF IInv, HbInv, Beating, OneProbe
  <2> QED BY <1>2, <2>1
<1>4. CASE driver = "ended"
  <2>1. probes = <<>> BY <1>4 DEF IInv, HbInv, Beating
  <2> QED BY <2>1, EmptySeq
<1> QED BY <1>3, <1>4 DEF IInv, Flags

LEMMA FewStreams ==
  /\ Cardinality(Requests) \in Nat
  /\ Cardinality(In({"open"})) \in Nat /\ Cardinality(In({"streaming"})) \in Nat
  /\ Cardinality(In({"open"})) + Cardinality(In({"streaming"})) <= Cardinality(Requests)
<1> DEFINE o == In({"open"})
           t == In({"streaming"})
<1>1. IsFiniteSet(Requests) /\ o \in SUBSET Requests /\ t \in SUBSET Requests /\ o \cap t = {}
  BY RequestsAssumption DEF In
<1> HIDE DEF o, t
<1>2. IsFiniteSet(o) /\ IsFiniteSet(t)
  <2>1. IsFiniteSet(o) BY <1>1, FS_Subset
  <2>2. IsFiniteSet(t) BY <1>1, FS_Subset
  <2> QED BY <2>1, <2>2
<1>3. /\ Cardinality(o) \in Nat /\ Cardinality(t) \in Nat /\ Cardinality(Requests) \in Nat
      /\ Cardinality({}) = 0
  BY <1>1, <1>2, FS_CardinalityType, FS_EmptySet
<1>4. Cardinality(o \cup t) = Cardinality(o) + Cardinality(t) - Cardinality(o \cap t)
  BY <1>2, FS_Union
<1>5. Cardinality(o \cup t) <= Cardinality(Requests)
  <2>1. o \cup t \in SUBSET Requests BY <1>1
  <2> QED BY <1>1, <2>1, FS_Subset
<1>6. Cardinality(o \cup t) = Cardinality(o) + Cardinality(t)
  <2>1. Cardinality(o \cap t) = 0 BY <1>1, <1>3, Zenon
  <2> QED BY <1>3, <1>4, <2>1
<1>7. Cardinality(o) + Cardinality(t) <= Cardinality(Requests) BY <1>5, <1>6
<1> QED BY <1>3, <1>7 DEF o, t

LEMMA StreamsNat == IInv => Streams \in Nat
BY FewProbes, FewStreams DEF Streams, Unacked

(* A public server with fewer requests at a time than yamux's backlog has  *)
(* places never fills it: the premise of the theorems above.               *)
THEOREM FewRequestsLeaveRoom ==
  ASSUME Cardinality(Requests) + 1 < AckBacklog
  PROVE  Spec => []Room
<1>1. IInv => Room
  <2> SUFFICES ASSUME IInv PROVE Room OBVIOUS
  <2>1. AckBacklog \in Nat BY LimitsAssumption
  <2> QED BY <2>1, FewProbes, FewStreams DEF Room, Unacked
<1> QED BY <1>1, InductiveInvariant, PTL

-----------------------------------------------------------------------------
(* No client that answers is taken for a silent one.                       *)

(* yamux does not refuse a stream. *)
TableRoom == Streams < MaxStreams

(* As long as the peer was prompt, probes ended well before any time       *)
(* passed, and the driver was stopped by a takeover if at all.             *)
Kept ==
  link = "prompt" =>
    /\ missed_heartbeats = 0
    /\ driver = "ended" => aborted
    /\ \A i \in DOMAIN probes : probes[i] = ProbeTimeout
    /\ \A i \in DOMAIN hb_done : hb_done[i] = "ok"

(* Steps that do not touch what Kept speaks of, or end an aborted driver.  *)
LEMMA KeptStays ==
  ASSUME IInv, Kept, UNCHANGED <<link, missed_heartbeats>>,
         \/ UNCHANGED <<driver, aborted, probes, hb_done>>
         \/ driver' = "ended" /\ probes' = <<>> /\ hb_done' = <<>>
            /\ (link = "prompt" => aborted /\ aborted')
  PROVE  Kept'
BY EmptySeq DEF Kept

LEMMA LoopKept ==
  ASSUME IInv, Kept, TableRoom, Loop
  PROVE  Kept'
<1>1. /\ probes \in Seq(0 .. ProbeTimeout) /\ hb_done \in Seq({"ok", "err"})
      /\ ProbeTimeout \in 0 .. ProbeTimeout
  BY TimesAssumption DEF IInv, HbInv, Probes
<1>2. CASE TakeCommand \/ StreamForRequest \/ HeartbeatDue
  BY <1>2, KeptStays DEF TakeCommand, StreamForRequest, HeartbeatDue, hbVars, peerVars
<1>3. CASE StreamForProbe
  <2>1. driver = "running" /\ want_hb_stream BY <1>3 DEF StreamForProbe, OpenGranted, WantOutbound
  <2>2. probes' = <<ProbeTimeout>> BY <1>3, <2>1, Unbusy DEF StreamForProbe
  <2> QED BY <1>3, <2>2 DEF StreamForProbe, Kept, peerVars
<1>4. ~OpenFails
  <2>1. ~(Streams >= MaxStreams)
    <3>1. Streams \in Nat /\ MaxStreams \in Nat BY StreamsNat, LimitsAssumption
    <3> QED BY <3>1 DEF TableRoom
  <2> QED BY <2>1 DEF OpenFails, OpenRefused
<1>5. CASE ReadOk
  <2>1. /\ driver = "running" /\ hb_done # <<>> /\ hb_done' = Tail(hb_done)
        /\ missed_heartbeats' = 0
        /\ UNCHANGED <<driver, aborted, link, probes>>
    BY <1>5 DEF ReadOk, peerVars
  <2>2. hb_done' = <<>> BY <2>1, Unbusy
  <2> QED BY <2>1, <2>2, EmptySeq DEF Kept
<1>6. CASE ReadMiss
  <2>1. hb_done # <<>> /\ Head(hb_done) = "err" /\ link' = link BY <1>6 DEF ReadMiss, peerVars
  <2>2. 1 \in DOMAIN hb_done /\ hb_done[1] = "err" BY <1>1, <2>1, LenProperties, EmptySeq
  <2> QED BY <2>1, <2>2 DEF Kept
<1>7. CASE ConnectionEnds \/ Cancelled
  BY <1>7, KeptStays DEF ConnectionEnds, Cancelled, EndDriver, peerVars
<1> QED BY <1>2, <1>3, <1>4, <1>5, <1>6, <1>7 DEF Loop

LEMMA ProbeKept ==
  ASSUME IInv, Kept, Probing
  PROVE  Kept'
<1>1. PICK i \in DOMAIN probes : ProbeAnswered(i) \/ ProbeTimesOut(i) BY DEF Probing
<1>2. PICK result \in {"ok", "err"} :
        ProbeEnds(i, result) /\ (result = "err" => probes[i] = 0)
  BY <1>1 DEF ProbeAnswered, ProbeTimesOut
<1>3. probes' = <<>> /\ hb_done' \in Seq({"ok", "err"}) /\ Len(hb_done') = 1
      /\ hb_done'[1] = result
  BY <1>2, OnlyProbeEnds DEF IInv
<1>4. DOMAIN hb_done' = {1} BY <1>3, LenProperties
<1>5. UNCHANGED <<driver, aborted, link, missed_heartbeats>>
  BY <1>2 DEF ProbeEnds, peerVars
<1>6. link = "prompt" => result = "ok"
  BY <1>2, TimesAssumption DEF Kept
<1> QED BY <1>3, <1>4, <1>5, <1>6, EmptySeq DEF Kept

LEMMA KeptStep ==
  ASSUME IInv, Kept, TableRoom, [Next]_vars
  PROVE  Kept'
<1>1. ASSUME NEW r \in Requests, Caller(r) PROVE Kept'
  BY <1>1, KeptStays DEF Caller, Call, Send, CallerLeaves, Respond, BodyEnds, peerVars, hbVars
<1>2. CASE Abort BY <1>2 DEF Abort, Kept, peerVars, hbVars
<1>3. CASE UNCHANGED vars BY <1>3, KeptStays DEF vars, peerVars, hbVars
<1>4. CASE LinkChanges
  <2>1. link' # "prompt" BY <1>4 DEF LinkChanges, Answering
  <2> QED BY <2>1 DEF Kept
<1>5. CASE Tick
  <2>1. /\ probes' = [i \in DOMAIN probes |-> Sooner(probes[i])]
        /\ UNCHANGED <<driver, aborted, link, hb_done, missed_heartbeats>>
        /\ probes # <<>> => link = "silent"
    BY <1>5 DEF Tick, Quiet
  <2>2. CASE probes = <<>>
    <3>1. DOMAIN probes = {} BY <2>2, EmptySeq
    <3>2. DOMAIN probes' = {} BY <2>1, <3>1
    <3> QED BY <2>1, <3>2 DEF Kept
  <2>3. CASE probes # <<>> BY <2>1, <2>3 DEF Kept
  <2> QED BY <2>2, <2>3
<1> QED BY <1>1, <1>2, <1>3, <1>4, <1>5, LoopKept, ProbeKept DEF Next

(* Unless yamux refuses streams, a client that answers every probe within  *)
(* its timeout is never counted as missing one, whatever its requests do,  *)
(* and its driver is over only if another session took its name.           *)
THEOREM PromptClientIsKept ==
  Spec /\ []TableRoom
    => [](link = "prompt" => missed_heartbeats = 0 /\ (driver = "ended" => aborted))
<1>1. Init => Kept BY EmptySeq DEF Init, Kept
<1>2. IInv /\ Kept /\ TableRoom /\ [Next]_vars => Kept' BY KeptStep
<1>3. Kept => (link = "prompt" => missed_heartbeats = 0 /\ (driver = "ended" => aborted))
  BY DEF Kept
<1> QED BY <1>1, <1>2, <1>3, InductiveInvariant, PTL DEF Spec

(* The same for the table of streams, in which answers are counted too.    *)
THEOREM FewRequestsFitTheTable ==
  ASSUME Cardinality(Requests) + 1 < MaxStreams
  PROVE  Spec => []TableRoom
<1>1. IInv => TableRoom
  <2> SUFFICES ASSUME IInv PROVE TableRoom OBVIOUS
  <2>1. MaxStreams \in Nat BY LimitsAssumption
  <2> QED BY <2>1, FewProbes, FewStreams DEF TableRoom, Streams, Unacked
<1> QED BY <1>1, InductiveInvariant, PTL

-----------------------------------------------------------------------------
(* The driver as module ControlPlane sees it.                              *)
LEMMA BoxUnchanged ==
  ASSUME UNCHANGED supports_heartbeat
  PROVE  UNCHANGED <<Box!handlerVars, Box!registryVars>>
BY DEF Box!handlerVars, Box!registryVars

LEMMA OkMaps ==
  ASSUME driver = "running", supports_heartbeat, missed_heartbeats' = 0,
         UNCHANGED <<supports_heartbeat, driver, aborted>>
  PROVE  Box!HeartbeatOk("session")
BY BoxUnchanged DEF Session, Box!HeartbeatOk

LEMMA MissMaps ==
  ASSUME driver = "running", supports_heartbeat, missed_heartbeats' = missed_heartbeats + 1,
         UNCHANGED <<supports_heartbeat, aborted>>,
         driver' = IF missed_heartbeats + 1 >= MaxMissed THEN "ended" ELSE driver
  PROVE  Box!HeartbeatMissed("session")
BY BoxUnchanged DEF Session, Box!HeartbeatMissed, Box!EndDriver

LEMMA LostMaps ==
  ASSUME driver = "running", driver' = "ended",
         UNCHANGED <<supports_heartbeat, aborted, missed_heartbeats>>
  PROVE  Box!ConnectionLost("session")
BY BoxUnchanged DEF Session, Box!ConnectionLost, Box!EndDriver

(* Answered and missed probes, refused streams, a lost connection and a    *)
(* cancelled task are exactly the driver's steps of module ControlPlane.   *)
THEOREM DriverFits == Spec => FitsControlPlane
<1> DEFINE Fits == \/ Box!Driver("session")
                   \/ aborted' /\ UNCHANGED <<driver, missed_heartbeats>>
<1>1. IInv /\ [Next]_vars => [Fits]_<<driver, aborted, missed_heartbeats>>
  <2> SUFFICES ASSUME IInv, [Next]_vars, ~UNCHANGED <<driver, aborted, missed_heartbeats>>
               PROVE  Fits
    OBVIOUS
  <2>1. CASE OpenFails
    <3>1. want_hb_stream /\ driver = "running" /\ supports_heartbeat
      BY <2>1 DEF OpenFails, OpenRefused, WantOutbound, IInv, HbInv, Beating
    <3>2. missed_heartbeats' = missed_heartbeats + 1
          /\ UNCHANGED <<supports_heartbeat, aborted>>
          /\ driver' = IF missed_heartbeats + 1 >= MaxMissed THEN "ended" ELSE driver
      BY <2>1, <3>1 DEF OpenFails, CountMiss, GivesUp, EndDriver
    <3> QED BY <3>1, <3>2, MissMaps DEF Box!Driver
  <2>2. CASE ReadOk \/ ReadMiss
    <3>1. driver = "running" /\ hb_done # <<>> BY <2>2 DEF ReadOk, ReadMiss
    <3>2. supports_heartbeat
      <4>1. Len(probes) \in Nat /\ Len(hb_done) \in Nat \ {0}
        BY <3>1, LenProperties, EmptySeq DEF IInv, HbInv, Probes
      <4>2. Len(probes) + Len(hb_done) # 0 BY <4>1
      <4>3. Len(probes) + Len(hb_done) = (IF hb_in_flight THEN 1 ELSE 0)
        BY <3>1 DEF IInv, HbInv, Beating, OneProbe
      <4>4. hb_in_flight BY <4>2, <4>3
      <4> QED BY <4>4 DEF IInv, HbInv, Beating
    <3>3. CASE ReadOk
      BY <3>1, <3>2, <3>3, OkMaps DEF ReadOk, Box!Driver
    <3>4. CASE ReadMiss
      <4>1. missed_heartbeats' = missed_heartbeats + 1
            /\ UNCHANGED <<supports_heartbeat, aborted>>
            /\ driver' = IF missed_heartbeats + 1 >= MaxMissed THEN "ended" ELSE driver
        BY <3>4 DEF ReadMiss, CountMiss, GivesUp, EndDriver
      <4> QED BY <3>1, <3>2, <4>1, MissMaps DEF Box!Driver
    <3> QED BY <2>2, <3>3, <3>4
  <2>3. CASE ConnectionEnds \/ Cancelled
    BY <2>3, LostMaps DEF ConnectionEnds, Cancelled, EndDriver, Box!Driver
  <2>4. CASE Abort BY <2>4 DEF Abort, hbVars
  <2>5. TakeCommand \/ StreamForRequest \/ StreamForProbe \/ HeartbeatDue \/ Probing
          \/ (\E r \in Requests : Caller(r)) \/ LinkChanges \/ Tick \/ UNCHANGED vars
          => UNCHANGED <<driver, aborted, missed_heartbeats>>
    BY DEF TakeCommand, StreamForRequest, StreamForProbe, HeartbeatDue, Probing, ProbeAnswered,
           ProbeTimesOut, ProbeEnds, Caller, Call, Send, CallerLeaves, Respond, BodyEnds,
           LinkChanges, Tick, vars, hbVars
  <2> QED BY <2>1, <2>2, <2>3, <2>4, <2>5 DEF Next, Loop
<1> QED BY <1>1, InductiveInvariant, PTL DEF Spec, FitsControlPlane
=============================================================================
