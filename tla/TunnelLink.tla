------------------------------ MODULE TunnelLink ------------------------------
(***************************************************************************)
(* One control connection, from the client's AuthReq to the answers of the *)
(* local service: the handshake in frames on the raw connection, the       *)
(* handover of the connection to yamux, and the streams the server opens   *)
(* in it, some to forward a public request and some to probe the client.   *)
(*                                                                         *)
(* The server speaks to three kinds of peers: this repository's client, a  *)
(* legacy one, which sends no version and knows no stream markers, and a   *)
(* stranger that sends anything.  yamux is external: it delivers what is   *)
(* written to a stream to the other side in order.                         *)
(***************************************************************************)
EXTENDS FrameCodec, SequencesExt

CONSTANTS
  Streams,      \* yamux streams
  AuthReqs,     \* what a client may ask for: size, token right or wrong, version
  Noise,        \* units that one without the token may send
  None,         \* a stranger's request; a stream without a purpose
  NoiseLength   \* bound: units a stranger sends

VARIABLES
  request,            \* the client's AuthReq, or None
  server,             \* where handle_client is
  client,             \* where run_session_with_status is
  to_server, to_client,   \* the connection: units written and not yet read
  supports_heartbeat, \* the server's view of the client
  purpose,            \* what the server uses a stream for
  srv,                \* how far it has come with it
  inbuf,              \* what yamux delivered to the client's end, not yet read
  task,               \* the client's task for it
  local               \* what the local service has been sent

handshake == <<request, server, client, supports_heartbeat>>
wires     == <<to_server, to_client>>
streams   == <<purpose, srv, inbuf, task, local>>
vars      == <<handshake, wires, streams>>

(* The AuthRes names the client id twice. *)
AuthRes(m, ok) == [type |-> "AuthRes", size |-> IF ok THEN 2 * m.size ELSE 1, ok |-> ok]

(* A frame of yamux: the stream opens, carries a byte or a message, or ends. *)
Yamux(s, w) == [kind |-> "yamux", stream |-> s, what |-> w]
PROXY     == "STREAM_TYPE_PROXY"
HEARTBEAT == "STREAM_TYPE_HEARTBEAT"
Upward    == {PROXY, HEARTBEAT, "request"}
Words     == Upward \cup {"open", "reset"}       \* what the server writes
Replies   == {"echo", "response", "end"}        \* what the client does

ASSUME LinkAssumption ==
  /\ AuthReqs \subseteq Messages /\ None \notin AuthReqs \cup {"proxy", "probe"}
  /\ \A m \in AuthReqs : /\ m.type = "AuthReq" /\ m.size > 0
                         /\ {m.token_ok, m.version} \subseteq BOOLEAN
                         /\ {AuthRes(m, TRUE), AuthRes(m, FALSE)} \subseteq Messages
                         /\ m.token_ok => Piece(m) \notin Noise   \* a stranger has no token
  /\ \A u \in Noise : u.kind = "header" => u.len \in Nat              \* a u32

(***************************************************************************)
(* The server has "opened" a stream, "marked" it, and then is "waiting"    *)
(* for the answer; the stream ends "answered" or "failed".  The client's   *)
(* task reads the "marker", is "connecting" to the local service, and      *)
(* "copying" both ways until it is "gone".                                 *)
(***************************************************************************)
Opened == {"opened", "marked", "waiting"}

(* Units of frames of the handshake, and of yamux. *)
Pieces == UNION {Range(Frame(m)) : m \in Messages}
Frames == [kind : {"yamux"}, stream : Streams, what : Words \cup Replies]
Units  == Pieces \cup Noise \cup Frames

TypeOK ==
  /\ request \in AuthReqs \cup {None}
  /\ server \in {"reading", "serving", "closed"}
  /\ client \in {"sending", "awaiting", "serving", "closed"}
  /\ supports_heartbeat \in BOOLEAN
  /\ to_server \in Seq(Units) /\ to_client \in Seq(Units)
  /\ purpose \in [Streams -> {"proxy", "probe", None}]
  /\ srv \in [Streams -> Opened \cup {"free", "answered", "failed"}]
  /\ inbuf \in [Streams -> Seq(Upward \cup {"reset"})]
  /\ task \in [Streams -> {"none", "marker", "connecting", "copying", "gone"}]
  /\ local \in [Streams -> Seq(Upward)]

Init ==
  /\ request \in AuthReqs \cup {None}
  /\ server = "reading" /\ client = "sending"
  /\ to_server = <<>> /\ to_client = <<>>
  /\ supports_heartbeat = FALSE
  /\ purpose = [s \in Streams |-> None]
  /\ srv = [s \in Streams |-> "free"]
  /\ inbuf = [s \in Streams |-> <<>>]
  /\ task = [s \in Streams |-> "none"]
  /\ local = [s \in Streams |-> <<>>]

-----------------------------------------------------------------------------
(* Handshake.                                                              *)

(* The client writes its AuthReq, unless it is too large. *)
SendAuthReq ==
  /\ client = "sending" /\ request # None
  /\ IF TooLarge(request)
     THEN client' = "closed" /\ UNCHANGED to_server
     ELSE client' = "awaiting" /\ to_server' = to_server \o Frame(request)
  /\ UNCHANGED <<request, server, supports_heartbeat, to_client, streams>>

(* Something that is not a client connects and sends this or that. *)
SendNoise ==
  /\ request = None
  /\ Len(to_server) < NoiseLength
  /\ \E u \in Noise : to_server' = Append(to_server, u)
  /\ UNCHANGED <<handshake, to_client, streams>>

(* read_message returns.  A good token is answered and the connection      *)
(* handed to yamux, a wrong one answered and the connection closed; an     *)
(* error, any other message and an answer that is too large close it.      *)
ReadAuthReq ==
  /\ server = "reading"
  /\ Decided(to_server)
  /\ LET m == Decoded(to_server) IN
     IF m \in AuthReqs /\ ~TooLarge(AuthRes(m, m.token_ok))
     THEN /\ to_client' = to_client \o Frame(AuthRes(m, m.token_ok))
          /\ to_server' = Remaining(to_server)
          /\ server' = IF m.token_ok THEN "serving" ELSE "closed"
          /\ supports_heartbeat' = m.version
     ELSE /\ server' = "closed"
          /\ UNCHANGED <<wires, supports_heartbeat>>
  /\ UNCHANGED <<request, client, streams>>

(* Ten seconds without an AuthReq. *)
AuthTimeout ==
  /\ server = "reading"
  /\ server' = "closed"
  /\ UNCHANGED <<request, client, supports_heartbeat, wires, streams>>

(* The client reads the answer and hands the connection to yamux. *)
ReadAuthRes ==
  /\ client = "awaiting"
  /\ Decided(to_client)
  /\ LET m == Decoded(to_client) IN
     IF m # Bad /\ m.type = "AuthRes" /\ m.ok
     THEN client' = "serving" /\ to_client' = Remaining(to_client)
     ELSE client' = "closed" /\ UNCHANGED to_client
  /\ UNCHANGED <<request, server, supports_heartbeat, to_server, streams>>

-----------------------------------------------------------------------------
(* The server's end of a stream.                                           *)

Write(s, w) == to_client' = Append(to_client, Yamux(s, w))
Becomes(s, l) == srv' = [srv EXCEPT ![s] = l]

(* The driver opens a stream for a request or for a heartbeat. *)
OpenStream(s) ==
  /\ server = "serving"
  /\ srv[s] = "free"
  /\ \E p \in {"proxy"} \cup (IF supports_heartbeat THEN {"probe"} ELSE {}) :
       purpose' = [purpose EXCEPT ![s] = p]
  /\ Becomes(s, "opened")
  /\ Write(s, "open")
  /\ UNCHANGED <<handshake, to_server, inbuf, task, local>>

(* Fault: the marker is written to every client. *)
MarkRequest_Always(s) ==
  /\ srv[s] = "opened" /\ purpose[s] = "proxy"
  /\ Becomes(s, "marked")
  /\ Write(s, PROXY)
  /\ UNCHANGED <<handshake, to_server, purpose, inbuf, task, local>>

(* Only a client that sent a version gets the marker. *)
MarkRequest(s) ==
  /\ srv[s] = "opened" /\ purpose[s] = "proxy"
  /\ Becomes(s, "marked")
  /\ IF supports_heartbeat THEN Write(s, PROXY) ELSE UNCHANGED to_client
  /\ UNCHANGED <<handshake, to_server, purpose, inbuf, task, local>>

SendRequest(s) ==
  /\ srv[s] = "marked"
  /\ Becomes(s, "waiting")
  /\ Write(s, "request")
  /\ UNCHANGED <<handshake, to_server, purpose, inbuf, task, local>>

SendProbe(s) ==
  /\ srv[s] = "opened" /\ purpose[s] = "probe"
  /\ Becomes(s, "waiting")
  /\ Write(s, HEARTBEAT)
  /\ UNCHANGED <<handshake, to_server, purpose, inbuf, task, local>>

(* The driver delivers the next frame of the client: an echo or a response *)
(* answers the stream, an end without one fails it.                        *)
Receive ==
  /\ server = "serving"
  /\ to_server # <<>> /\ Head(to_server).kind = "yamux"
  /\ to_server' = Tail(to_server)
  /\ LET u == Head(to_server) IN
     IF srv[u.stream] \in Opened
     THEN Becomes(u.stream, IF u.what = "end" THEN "failed" ELSE "answered")
     ELSE UNCHANGED srv
  /\ UNCHANGED <<handshake, to_client, purpose, inbuf, task, local>>

(* The public client leaves, or the probe's ten seconds are over: the      *)
(* stream is dropped.                                                      *)
DropStream(s) ==
  /\ srv[s] \in Opened
  /\ Becomes(s, "failed")
  /\ Write(s, "reset")
  /\ UNCHANGED <<handshake, to_server, purpose, inbuf, task, local>>

-----------------------------------------------------------------------------
(* The client's end.                                                       *)

Moves(s, l) == task' = [task EXCEPT ![s] = l]
Reply(us)   == to_server' = to_server \o us

(* Fault: streams are served in the loop that accepts them. *)
Deliver_Inline ==
  /\ client = "serving"
  /\ to_client # <<>> /\ Head(to_client).kind = "yamux"
  /\ \A s \in Streams : task[s] = "copying" => local[s] = <<>>
  /\ to_client' = Tail(to_client)
  /\ LET u == Head(to_client) IN
     IF u.what = "open"
     THEN Moves(u.stream, IF request.version THEN "marker" ELSE "connecting") /\ UNCHANGED inbuf
     ELSE inbuf' = [inbuf EXCEPT ![u.stream] = Append(@, u.what)] /\ UNCHANGED task
  /\ UNCHANGED <<handshake, to_server, purpose, srv, local>>

(* poll_next_inbound: a new stream gets a task of its own, data goes to    *)
(* its stream.  A legacy client connects to its service at once.           *)
Deliver ==
  /\ client = "serving"
  /\ to_client # <<>> /\ Head(to_client).kind = "yamux"
  /\ to_client' = Tail(to_client)
  /\ LET u == Head(to_client) IN
     IF u.what = "open"
     THEN Moves(u.stream, IF request.version THEN "marker" ELSE "connecting") /\ UNCHANGED inbuf
     ELSE inbuf' = [inbuf EXCEPT ![u.stream] = Append(@, u.what)] /\ UNCHANGED task
  /\ UNCHANGED <<handshake, to_server, purpose, srv, local>>

(* The first byte: a heartbeat is echoed and the stream closed, a reset    *)
(* ends the task, anything else is a request.                              *)
ReadMarker(s) ==
  /\ task[s] = "marker"
  /\ inbuf[s] # <<>>
  /\ inbuf' = [inbuf EXCEPT ![s] = Tail(@)]
  /\ CASE Head(inbuf[s]) = HEARTBEAT ->
            Moves(s, "gone") /\ Reply(<<Yamux(s, "echo"), Yamux(s, "end")>>)
       [] Head(inbuf[s]) = "reset" -> Moves(s, "gone") /\ UNCHANGED to_server
       [] OTHER -> Moves(s, "connecting") /\ UNCHANGED to_server
  /\ UNCHANGED <<handshake, to_client, purpose, srv, local>>

(* Five seconds without a marker: the stream is dropped. *)
MarkerTimeout(s) ==
  /\ task[s] = "marker"
  /\ inbuf[s] = <<>>
  /\ Moves(s, "gone")
  /\ Reply(<<Yamux(s, "end")>>)
  /\ UNCHANGED <<handshake, to_client, purpose, srv, inbuf, local>>

(* handle_tunnel_stream connects to the local service, or fails. *)
ConnectLocal(s) ==
  /\ task[s] = "connecting"
  /\ \/ Moves(s, "copying") /\ UNCHANGED to_server
     \/ Moves(s, "gone") /\ Reply(<<Yamux(s, "end")>>)
  /\ UNCHANGED <<handshake, to_client, purpose, srv, inbuf, local>>

(* Fault: the end of a stream is passed on like data. *)
CopyUp_EndToo(s) ==
  /\ task[s] = "copying"
  /\ inbuf[s] # <<>>
  /\ inbuf' = [inbuf EXCEPT ![s] = Tail(@)]
  /\ local' = [local EXCEPT ![s] = Append(@, Head(inbuf[s]))]
  /\ UNCHANGED <<handshake, wires, purpose, srv, task>>

(* copy_bidirectional, towards the service; a stream that was dropped ends *)
(* it.                                                                     *)
CopyUp(s) ==
  /\ task[s] = "copying"
  /\ inbuf[s] # <<>>
  /\ inbuf' = [inbuf EXCEPT ![s] = Tail(@)]
  /\ IF Head(inbuf[s]) = "reset"
     THEN Moves(s, "gone") /\ UNCHANGED local
     ELSE local' = [local EXCEPT ![s] = Append(@, Head(inbuf[s]))] /\ UNCHANGED task
  /\ UNCHANGED <<handshake, wires, purpose, srv>>

(* And back: the service answers what it was asked, or closes. *)
LocalEnds(s) ==
  /\ task[s] = "copying"
  /\ Moves(s, "gone")
  /\ \/ local[s] # <<>> /\ Reply(<<Yamux(s, "response"), Yamux(s, "end")>>)
     \/ Reply(<<Yamux(s, "end")>>)
  /\ UNCHANGED <<handshake, to_client, purpose, srv, inbuf, local>>

-----------------------------------------------------------------------------
(* One side is over: the session was refused, displaced or evicted, or the *)
(* process ended; or it notices that the other side is, or the network cut *)
(* them.  What it held ends with it.                                       *)
ServerEnds ==
  /\ server \in {"reading", "serving"}
  /\ server' = "closed"
  /\ srv' = [s \in Streams |-> IF srv[s] \in Opened THEN "failed" ELSE srv[s]]
  /\ UNCHANGED <<request, client, supports_heartbeat, wires, purpose, inbuf, task, local>>

ClientEnds ==
  /\ client \in {"sending", "awaiting", "serving"}
  /\ client' = "closed"
  /\ task' = [s \in Streams |-> IF task[s] = "none" THEN "none" ELSE "gone"]
  /\ UNCHANGED <<request, server, supports_heartbeat, wires, purpose, srv, inbuf, local>>

ServerStream(s) == MarkRequest(s) \/ SendRequest(s) \/ SendProbe(s)
ClientTask(s)   == ReadMarker(s) \/ ConnectLocal(s) \/ CopyUp(s)
Loops           == ReadAuthReq \/ ReadAuthRes \/ Receive

Next ==
  \/ SendAuthReq \/ SendNoise \/ AuthTimeout \/ Loops \/ Deliver
  \/ \E s \in Streams : \/ ServerStream(s) \/ OpenStream(s) \/ DropStream(s)
                        \/ ClientTask(s) \/ MarkerTimeout(s) \/ LocalEnds(s)
  \/ ServerEnds \/ ClientEnds

Spec == Init /\ [][Next]_vars

(* The tasks run, and each side notices that the other one is over.  No    *)
(* timeout is relied upon, nor that the local service ever answers.        *)
Notice == \/ server = "closed" /\ ClientEnds
          \/ client = "closed" /\ ServerEnds

FairSpec ==
  /\ Spec
  /\ WF_vars(ReadAuthReq) /\ WF_vars(ReadAuthRes) /\ WF_vars(Receive) /\ WF_vars(Deliver)
  /\ WF_vars(Notice)
  /\ \A s \in Streams : WF_vars(ServerStream(s)) /\ WF_vars(ClientTask(s))

-----------------------------------------------------------------------------
(* Properties.                                                             *)

(* Where the frames of a stream are in a connection. *)
FramesOf(buf, s) == {i \in DOMAIN buf : buf[i].kind = "yamux" /\ buf[i].stream = s}

(* They carry what was sent on it after the first n, all of it and in order. *)
Carries(buf, s, sent, n) ==
  \E at \in [n + 1 .. Len(sent) -> FramesOf(buf, s)] :
    /\ \A i, j \in n + 1 .. Len(sent) : i < j => at[i] < at[j]
    /\ \A f \in FramesOf(buf, s) : \E i \in n + 1 .. Len(sent) : at[i] = f
    /\ \A i \in n + 1 .. Len(sent) : buf[at[i]].what = sent[i]

(* What the server wrote to a stream it has not given up. *)
Sent(s) ==
  <<"open">> \o
  (IF purpose[s] = "probe" THEN IF srv[s] = "waiting" THEN <<HEARTBEAT>> ELSE <<>>
   ELSE (IF supports_heartbeat /\ srv[s] # "opened" THEN <<PROXY>> ELSE <<>>)
        \o (IF srv[s] = "waiting" THEN <<"request">> ELSE <<>>))

(* What has reached the client's end of it, read or not. *)
Reached(s) ==
  (IF task[s] = "none" THEN <<>> ELSE <<"open">>)
  \o (IF task[s] \in {"connecting", "copying"} /\ supports_heartbeat THEN <<PROXY>> ELSE <<>>)
  \o local[s] \o inbuf[s]

(* The handshake and yamux share the connection and never take from each   *)
(* other.  A side serves streams only after the very AuthReq the client    *)
(* wrote, whose version decides about markers; from then on it reads       *)
(* nothing but frames of streams, and what the server wrote to a stream,   *)
(* also while the client still waited for AuthRes, is with the client or   *)
(* on its way, in order and once.                                          *)
HandoverExact ==
  /\ server = "serving" =>
       /\ request # None /\ request.token_ok /\ supports_heartbeat = request.version
       /\ \A i \in DOMAIN to_server : to_server[i].kind = "yamux"
  /\ client = "serving" =>
       /\ server \in {"serving", "closed"}
       /\ \A i \in DOMAIN to_client : to_client[i].kind = "yamux"
  /\ \A s \in Streams :
       srv[s] \in Opened /\ task[s] # "gone" =>
         /\ IsPrefix(Reached(s), Sent(s))
         /\ Carries(to_client, s, Sent(s), Len(Reached(s)))

(* The local service is sent the request and nothing else: no marker, also *)
(* behind a client that knows none, and nothing of a heartbeat.            *)
OnlyTheRequest ==
  \A s \in Streams : /\ local[s] \in {<<>>, <<"request">>}
                     /\ purpose[s] = "probe" => task[s] \notin {"connecting", "copying"}

(* A heartbeat is echoed however many requests hang in the local service:  *)
(* the client misses none because of them.                                 *)
ProbeEchoed ==
  \A s \in Streams :
    purpose[s] = "probe" /\ srv[s] = "waiting" ~> srv[s] # "waiting"

(* Neither the server nor the client holds a request back: it reaches the  *)
(* local service, or it ends.  A request that waits for ever waits for the *)
(* service.                                                                *)
RequestDelivered ==
  \A s \in Streams :
    purpose[s] = "proxy" /\ srv[s] = "waiting"
      ~> \/ srv[s] # "waiting"
         \/ task[s] = "copying" /\ local[s] = <<"request">>
=============================================================================
