--------------------------- MODULE TunnelLinkProofs ---------------------------
(***************************************************************************)
(* Proofs about TunnelLink, for any messages, limits and streams.  About   *)
(* the codec: what write_message writes is what read_message returns, no   *)
(* sooner than it is there and without a unit of what follows it.  From it *)
(* the handover of the connection to yamux, and that the words the server  *)
(* writes to a stream reach the client's task in order and nothing but the *)
(* request reaches the local service.                                      *)
(***************************************************************************)
EXTENDS TunnelLink, SequenceTheorems, TLAPS

(* A message whose length the field can tell, of a type that can be read.  *)
Sendable == {m \in Messages : m.size \in 1 .. MaxPayload /\ m.type \in MessageType}

-----------------------------------------------------------------------------
(* The inductive invariant.                                                *)

(* The frames of yamux, either way. *)
Down == [kind : {"yamux"}, stream : Streams, what : Words]
Up   == [kind : {"yamux"}, stream : Streams, what : Replies]

(* The client waits for an answer that is not there yet, or never comes,   *)
(* or that is followed by nothing but frames of streams.                   *)
Answer ==
  \/ to_client = <<>> /\ server # "serving"
  \/ /\ server # "reading" /\ supports_heartbeat = request.version
     /\ \E ok \in BOOLEAN : \E rest \in Seq(Down) :
          AuthRes(request, ok) \in Sendable /\ to_client = Frame(AuthRes(request, ok)) \o rest

(* Up to the handover the connection holds nothing but the AuthReq and     *)
(* what a stranger sends; from the handover on, only frames of streams.    *)
ServerSide ==
  /\ server = "reading" =>
       /\ to_client = <<>> /\ \A s \in Streams : srv[s] = "free"
       /\ IF request = None THEN to_server \in Seq(Noise) ELSE to_server \in {<<>>, Frame(request)}
  /\ server = "serving" =>
       /\ request # None /\ request.token_ok /\ supports_heartbeat = request.version
       /\ client # "sending" /\ to_server \in Seq(Up)
  /\ server # "serving" => \A s \in Streams : srv[s] \notin Opened

ClientSide ==
  /\ request = None => client \in {"sending", "closed"}
  /\ client = "sending" /\ request # None => to_server = <<>> /\ to_client = <<>>
  /\ client \in {"sending", "awaiting"} => \A s \in Streams : task[s] = "none"
  /\ client = "awaiting" => Answer
  /\ client = "serving" =>
       server # "reading" /\ supports_heartbeat = request.version /\ to_client \in Seq(Down)
  /\ to_client \in Seq(Pieces \cup Down)

(* What the server writes to a stream, word by word, and how far it is.    *)
Whole(s) == IF purpose[s] = "proxy" /\ supports_heartbeat THEN 3 ELSE 2
Word(s, i) ==
  IF i = 1 THEN "open"
  ELSE IF i = 2 /\ purpose[s] = "probe" THEN HEARTBEAT
  ELSE IF i < Whole(s) THEN PROXY ELSE "request"
Begun(s) ==
  IF srv[s] = "waiting" THEN Whole(s) ELSE IF srv[s] = "marked" THEN Whole(s) - 1 ELSE 1

(* h is what the server has written to the stream so far. *)
Story(s, h) ==
  /\ h \in Seq(Words)
  /\ \A i \in DOMAIN h : h[i] = "reset" \/ (i <= Whole(s) /\ h[i] = Word(s, i))
  /\ h # <<>> => h[1] = "open"
  /\ srv[s] = "free" => h = <<>>
  /\ srv[s] # "free" => h # <<>>
  /\ srv[s] \in Opened => Len(h) = Begun(s) /\ \A i \in DOMAIN h : h[i] # "reset"

(* How much of it the client's task has read. *)
Used(s) ==
  1 + (IF task[s] # "marker" /\ supports_heartbeat THEN 1 ELSE 0) + Len(local[s])

(* The first n words of h have reached the client's end. *)
Arrived(s, h, n) ==
  /\ n \in 0 .. Len(h)
  /\ task[s] = "none" => n = 0 /\ inbuf[s] = <<>>
  /\ task[s] # "none" => n > 0
  /\ task[s] \in {"marker", "connecting", "copying"} =>
       /\ n = Used(s) + Len(inbuf[s])
       /\ \A i \in DOMAIN inbuf[s] : inbuf[s][i] = h[Used(s) + i]

Purposes(s) ==
  /\ srv[s] = "free" <=> purpose[s] = None
  /\ purpose[s] = "probe" => supports_heartbeat
  /\ srv[s] = "marked" => purpose[s] = "proxy"
  /\ task[s] = "marker" => supports_heartbeat
  /\ task[s] \in {"connecting", "copying"} => purpose[s] = "proxy"
  /\ task[s] \notin {"copying", "gone"} => local[s] = <<>>
  /\ local[s] \in {<<>>, <<"request">>}

Stream(s) ==
  /\ Purposes(s)
  /\ \E h \in Seq(Words), n \in Nat :
       Story(s, h) /\ Arrived(s, h, n) /\ Carries(to_client, s, h, n)

IInv ==
  /\ TypeOK
  /\ ServerSide
  /\ ClientSide
  /\ \A s \in Streams : Stream(s)

-----------------------------------------------------------------------------
(* Two sequences, one after the other. *)
LEMMA Joined ==
  ASSUME NEW T, NEW a \in Seq(T), NEW b \in Seq(T), a # <<>>
  PROVE  /\ a \o b \in Seq(T) /\ a \o b # <<>>
         /\ Len(a \o b) = Len(a) + Len(b)
         /\ Head(a \o b) = Head(a)
<1>1. Len(a) \in Nat /\ Len(a) > 0 /\ Len(b) \in Nat BY EmptySeq, LenProperties
<1>2. /\ a \o b \in Seq(T) /\ Len(a \o b) = Len(a) + Len(b)
      /\ \A i \in 1 .. Len(a) + Len(b) : (a \o b)[i] = IF i <= Len(a) THEN a[i] ELSE b[i - Len(a)]
  BY ConcatProperties
<1>3. a \o b # <<>> BY ConcatEqualIffEmpty
<1>4. (a \o b)[1] = a[1]
  <2>1. 1 \in 1 .. Len(a) + Len(b) /\ 1 <= Len(a) BY <1>1
  <2> QED BY <1>2, <2>1
<1>5. Head(a) = a[1] OBVIOUS
<1>6. Head(a \o b) = (a \o b)[1]
  <2>1. \A s \in Seq(T) : s # <<>> => Head(s) = s[1] OBVIOUS
  <2> QED BY <1>2, <1>3, <2>1
<1> QED BY <1>2, <1>3, <1>4, <1>5, <1>6

LEMMA SecondPart ==
  ASSUME NEW T, NEW a \in Seq(T), NEW b \in Seq(T)
  PROVE  SubSeq(a \o b, Len(a) + 1, Len(a) + Len(b)) = b
<1>1. Len(a) \in Nat /\ Len(b) \in Nat BY LenProperties
<1>2. CASE Len(b) = 0
  <2>1. b = <<>> BY <1>2, EmptySeq
  <2>2. Len(a) + Len(b) < Len(a) + 1 /\ Len(a) + 1 \in Int /\ Len(a) + Len(b) \in Int
    BY <1>1, <1>2
  <2> QED BY <2>1, <2>2, SubSeqEmpty
<1>3. CASE Len(b) # 0
  <2>1. /\ Len(a) + 1 \in Len(a) + 1 .. Len(a) + Len(b)
        /\ Len(a) + Len(b) \in Len(a) + 1 .. Len(a) + Len(b)
        /\ Len(a) + 1 - Len(a) = 1 /\ Len(a) + Len(b) - Len(a) = Len(b)
    BY <1>1, <1>3
  <2>2. SubSeq(a \o b, Len(a) + 1, Len(a) + Len(b)) = SubSeq(b, 1, Len(b))
    BY <2>1, SubSeqOfConcat2
  <2> QED BY <2>2, SubSeqFull
<1> QED BY <1>2, <1>3

-----------------------------------------------------------------------------
(* A frame is a header and the payload, unit by unit. *)
LEMMA FrameShape ==
  ASSUME NEW m \in Sendable
  PROVE  LET h == Header(PROTOCOL_VERSION, m.type, m.size) IN
         /\ m.size \in Nat /\ m.size > 0 /\ Frame(m) = <<h>> \o encode_payload(m)
         /\ <<h>> \in Seq({h, Piece(m)}) /\ Len(<<h>>) = 1
         /\ encode_payload(m) \in Seq({h, Piece(m)}) /\ Len(encode_payload(m)) = m.size
<1> DEFINE h == Header(PROTOCOL_VERSION, m.type, m.size)
           S == {h, Piece(m)}
<1>1. /\ m.size \in Nat /\ m.size > 0 /\ m.size <= MaxPayload
      /\ MaxPayload \in Nat /\ Wrap \in Nat /\ 2 * MaxPayload < Wrap
  BY CodecAssumption DEF Sendable
<1>2. payload_len(m) = m.size
  <2>1. m.size < Wrap BY <1>1
  <2> QED BY <1>1, <2>1 DEF payload_len
<1>3. encode_payload(m) \in Seq(S) /\ Len(encode_payload(m)) = m.size
  <2>1. \A i \in 1 .. m.size : Piece(m) \in S OBVIOUS
  <2> HIDE DEF S
  <2> QED BY <1>1, <2>1 DEF encode_payload
<1>4. <<h>> \in Seq(S) /\ Len(<<h>>) = 1
  <2>1. h \in S OBVIOUS
  <2> HIDE DEF h, S
  <2> QED BY <2>1
<1>5. Frame(m) = <<h>> \o encode_payload(m) BY <1>2 DEF Frame
<1> QED BY <1>1, <1>3, <1>4, <1>5

LEMMA FrameParts ==
  ASSUME NEW m \in Sendable
  PROVE  LET h == Header(PROTOCOL_VERSION, m.type, m.size) IN
         /\ Frame(m) \in Seq({h, Piece(m)}) /\ Len(Frame(m)) = m.size + 1
         /\ Frame(m) # <<>> /\ Head(Frame(m)) = h
         /\ SubSeq(Frame(m), 2, m.size + 1) = encode_payload(m)
<1> DEFINE h == Header(PROTOCOL_VERSION, m.type, m.size)
           S == {h, Piece(m)}
           p == encode_payload(m)
<1>1. /\ m.size \in Nat /\ Frame(m) = <<h>> \o p /\ <<h>> \in Seq(S) /\ Len(<<h>>) = 1
      /\ p \in Seq(S) /\ Len(p) = m.size
  BY FrameShape
<1>2. <<h>> # <<>> /\ Head(<<h>>) = h
  <2> HIDE DEF h
  <2> QED OBVIOUS
<1> HIDE DEF h, S, p
<1>3. /\ Frame(m) \in Seq(S) /\ Frame(m) # <<>> /\ Len(Frame(m)) = 1 + m.size
      /\ Head(Frame(m)) = h
  BY <1>1, <1>2, Joined
<1>4. SubSeq(Frame(m), 1 + 1, 1 + m.size) = p BY <1>1, SecondPart
<1>5. 1 + m.size = m.size + 1 /\ 1 + 1 = 2 BY <1>1
<1> QED BY <1>3, <1>4, <1>5 DEF h, S, p

(* Its header is accepted. *)
LEMMA HeaderAccepted ==
  ASSUME NEW m \in Sendable
  PROVE  LET h == Header(PROTOCOL_VERSION, m.type, m.size) IN
         ~BadHeader(h) /\ h.len = m.size /\ h.type = m.type
BY CodecAssumption DEF Sendable, BadHeader, Header

(* The payload alone tells which message it is. *)
LEMMA PayloadTells ==
  ASSUME NEW m \in Sendable, NEW n \in Messages, encode_payload(n) = encode_payload(m)
  PROVE  n = m
<1>1. m.size \in Nat /\ m.size > 0 /\ n.size \in Nat BY CodecAssumption DEF Sendable
<1>2. DOMAIN encode_payload(n) = 1 .. n.size /\ DOMAIN encode_payload(m) = 1 .. m.size
  BY DEF encode_payload
<1>3. 1 \in 1 .. m.size /\ 1 \in 1 .. n.size BY <1>1, <1>2
<1>4. Piece(n) = Piece(m) BY <1>3 DEF encode_payload
<1> QED BY <1>4 DEF Piece

(* read_message waits for the whole frame: no part of a frame is decided.  *)
THEOREM NothingEarly ==
  ASSUME NEW m \in Sendable, NEW k \in 1 .. m.size
  PROVE  ~Decided(SubSeq(Frame(m), 1, k))
<1> DEFINE h   == Header(PROTOCOL_VERSION, m.type, m.size)
           S   == {h, Piece(m)}
           buf == SubSeq(Frame(m), 1, k)
<1>1. /\ m.size \in Nat /\ Frame(m) \in Seq(S) /\ Len(Frame(m)) = m.size + 1
      /\ Frame(m) # <<>> /\ Head(Frame(m)) = h
  BY FrameShape, FrameParts
<1>2. ~BadHeader(h) /\ h.len = m.size BY HeaderAccepted
<1> HIDE DEF h, S
<1>3. /\ 1 \in 1 .. Len(Frame(m)) /\ k \in 1 .. Len(Frame(m)) /\ k \in 1 .. m.size
      /\ k - 1 + 1 = k /\ k \in Int /\ 1 <= k
  BY <1>1
<1>4. Head(buf) = h
  <2>1. Head(buf) = Frame(m)[1] BY <1>1, <1>3, HeadTailOfSubSeq
  <2>2. Head(Frame(m)) = Frame(m)[1] BY <1>1
  <2> QED BY <1>1, <2>1, <2>2
<1>5. Len(buf) = k
  <2>1. \A i \in 1 .. k : Frame(m)[i] \in S BY <1>1, <1>3
  <2> QED BY <1>3, <2>1, SubSeqProperties
<1> HIDE DEF buf
<1>6. ~(Len(buf) > Head(buf).len) BY <1>1, <1>2, <1>3, <1>4, <1>5
<1> QED BY <1>2, <1>4, <1>6 DEF Decided, buf

(* Whatever follows a frame, also yamux's first frames in the same read:   *)
(* read_message returns the message that was written, and leaves that.     *)
THEOREM FrameRoundTrip ==
  ASSUME NEW m \in Sendable, NEW S, NEW rest \in Seq(S)
  PROVE  LET buf == Frame(m) \o rest IN
         Decided(buf) /\ Decoded(buf) = m /\ Remaining(buf) = rest
<1> DEFINE h   == Header(PROTOCOL_VERSION, m.type, m.size)
           T   == S \cup {h, Piece(m)}
           buf == Frame(m) \o rest
<1>1. /\ m.size \in Nat /\ m.size > 0 /\ Len(Frame(m)) = m.size + 1
      /\ Frame(m) # <<>> /\ Head(Frame(m)) = h
      /\ SubSeq(Frame(m), 2, m.size + 1) = encode_payload(m)
  BY FrameShape, FrameParts
<1>2. Frame(m) \in Seq(T) /\ rest \in Seq(T)
  <2>1. Frame(m) \in Seq({h, Piece(m)}) BY FrameParts
  <2>2. {h, Piece(m)} \subseteq T /\ S \subseteq T OBVIOUS
  <2> HIDE DEF h, T
  <2> QED BY <2>1, <2>2, SeqMonotonic
<1>3. ~BadHeader(h) /\ h.len = m.size /\ h.type = m.type BY HeaderAccepted
<1> HIDE DEF h, T
<1>4. /\ buf # <<>> /\ Head(buf) = h /\ Len(buf) = m.size + 1 + Len(rest) /\ Len(rest) \in Nat
  BY <1>1, <1>2, Joined, LenProperties
<1>5. SubSeq(buf, 2, m.size + 1) = encode_payload(m)
  <2>1. 2 \in 1 .. Len(Frame(m)) /\ m.size + 1 \in 1 .. Len(Frame(m)) BY <1>1
  <2>2. SubSeq(buf, 2, m.size + 1) = SubSeq(Frame(m), 2, m.size + 1)
    BY <1>2, <2>1, SubSeqOfConcat1
  <2> QED BY <1>1, <2>2
<1>6. SubSeq(buf, m.size + 2, Len(buf)) = rest
  <2>1. SubSeq(buf, Len(Frame(m)) + 1, Len(Frame(m)) + Len(rest)) = rest BY <1>2, SecondPart
  <2>2. Len(Frame(m)) + 1 = m.size + 2 /\ Len(Frame(m)) + Len(rest) = Len(buf)
    BY <1>1, <1>4
  <2> QED BY <2>1, <2>2
<1> HIDE DEF buf
<1>7. Decided(buf)
  <2>1. Len(buf) > m.size BY <1>1, <1>4
  <2> QED BY <1>3, <1>4, <2>1 DEF Decided
<1>8. Decoded(buf) = m
  <2> DEFINE sent(n) == n.type = m.type /\ encode_payload(n) = SubSeq(buf, 2, m.size + 1)
  <2>1. m \in Messages /\ sent(m) BY <1>5 DEF Sendable
  <2>2. \A n \in Messages : sent(n) => n = m BY <1>5, PayloadTells
  <2>3. Decoded(buf) = CHOOSE n \in Messages : sent(n) BY <1>3, <1>4, <2>1 DEF Decoded
  <2> QED BY <2>1, <2>2, <2>3
<1>9. Remaining(buf) = rest BY <1>3, <1>4, <1>6 DEF Remaining
<1> QED BY <1>7, <1>8, <1>9 DEF buf

-----------------------------------------------------------------------------
(* A stream's frames in the connection.                                    *)

(* Nothing of the stream in the connection, nothing left to arrive. *)
LEMMA CarriesNothing ==
  ASSUME NEW buf, NEW s, FramesOf(buf, s) = {}, NEW h, Len(h) \in Nat
  PROVE  Carries(buf, s, h, Len(h))
<1>1. Len(h) + 1 .. Len(h) = {} OBVIOUS
<1>2. [i \in Len(h) + 1 .. Len(h) |-> i] \in [Len(h) + 1 .. Len(h) -> FramesOf(buf, s)] BY <1>1
<1> QED BY <1>1, <1>2 DEF Carries

(* The connection moves on by d units, none of them the stream's. *)
LEMMA CarriesShift ==
  ASSUME NEW old, NEW new, NEW s, NEW h, NEW n, NEW d \in Nat,
         FramesOf(old, s) \subseteq Nat, FramesOf(new, s) \subseteq Nat,
         \A f \in FramesOf(old, s) :
            f - d \in FramesOf(new, s) /\ new[f - d].what = old[f].what,
         \A f \in FramesOf(new, s) : f + d \in FramesOf(old, s),
         Len(h) \in Nat, n \in Nat, Carries(old, s, h, n)
  PROVE  Carries(new, s, h, n)
<1> DEFINE D == n + 1 .. Len(h)
<1>1. PICK at \in [D -> FramesOf(old, s)] :
        /\ \A i, j \in D : i < j => at[i] < at[j]
        /\ \A f \in FramesOf(old, s) : \E i \in D : at[i] = f
        /\ \A i \in D : old[at[i]].what = h[i]
  BY DEF Carries
<1> DEFINE to == [i \in D |-> at[i] - d]
<1> HIDE DEF D
<1>2. \A i \in D : at[i] \in FramesOf(old, s) /\ at[i] \in Nat /\ to[i] = at[i] - d BY <1>1
<1>3. to \in [D -> FramesOf(new, s)] BY <1>2
<1>4. \A i, j \in D : i < j => to[i] < to[j] BY <1>1, <1>2
<1>5. \A f \in FramesOf(new, s) : \E i \in D : to[i] = f
  <2> TAKE f \in FramesOf(new, s)
  <2>1. PICK i \in D : at[i] = f + d BY <1>1
  <2>2. to[i] = f BY <1>2, <2>1
  <2> QED BY <2>2
<1>6. \A i \in D : new[to[i]].what = h[i] BY <1>1, <1>2
<1> HIDE DEF to
<1> QED BY <1>3, <1>4, <1>5, <1>6 DEF Carries, D

(* Another stream's frame, or none at all, is written. *)
LEMMA CarriesOther ==
  ASSUME NEW S, NEW buf \in Seq(S), NEW u \in S, NEW s, u.kind = "yamux" => u.stream # s,
         NEW h, NEW n, Len(h) \in Nat, n \in Nat, Carries(buf, s, h, n)
  PROVE  Carries(Append(buf, u), s, h, n)
<1>1. /\ Append(buf, u) \in Seq(S) /\ Len(buf) \in Nat
      /\ Len(Append(buf, u)) = Len(buf) + 1 /\ Append(buf, u)[Len(buf) + 1] = u
      /\ \A i \in 1 .. Len(buf) : Append(buf, u)[i] = buf[i]
  BY AppendProperties, LenProperties
<1>2. DOMAIN buf = 1 .. Len(buf) /\ DOMAIN Append(buf, u) = 1 .. Len(buf) + 1
  BY <1>1, LenProperties
<1>3. FramesOf(buf, s) \subseteq Nat /\ FramesOf(Append(buf, u), s) \subseteq Nat
  BY <1>1, <1>2 DEF FramesOf
<1>4. \A f \in FramesOf(buf, s) : /\ f - 0 \in FramesOf(Append(buf, u), s)
                                  /\ Append(buf, u)[f - 0].what = buf[f].what
  BY <1>1, <1>2 DEF FramesOf
<1>5. \A f \in FramesOf(Append(buf, u), s) : f + 0 \in FramesOf(buf, s)
  BY <1>1, <1>2 DEF FramesOf
<1> QED BY <1>3, <1>4, <1>5, CarriesShift

(* The stream's next word is written. *)
LEMMA CarriesOwn ==
  ASSUME NEW S, NEW buf \in Seq(S), NEW u \in S, NEW s, u.kind = "yamux", u.stream = s,
         NEW T, NEW h \in Seq(T), u.what \in T, NEW n \in 0 .. Len(h), Carries(buf, s, h, n)
  PROVE  Carries(Append(buf, u), s, Append(h, u.what), n)
<1> DEFINE D    == n + 1 .. Len(h)
           new  == Append(buf, u)
           more == Append(h, u.what)
<1>1. /\ new \in Seq(S) /\ Len(buf) \in Nat /\ Len(new) = Len(buf) + 1
      /\ new[Len(buf) + 1] = u /\ \A i \in 1 .. Len(buf) : new[i] = buf[i]
  BY AppendProperties, LenProperties
<1>2. /\ Len(h) \in Nat /\ Len(more) = Len(h) + 1
      /\ more[Len(h) + 1] = u.what /\ \A i \in 1 .. Len(h) : more[i] = h[i]
  BY AppendProperties, LenProperties
<1>3. DOMAIN buf = 1 .. Len(buf) /\ DOMAIN new = 1 .. Len(buf) + 1
  BY <1>1, LenProperties
<1> HIDE DEF new, more
<1>4. FramesOf(new, s) = FramesOf(buf, s) \cup {Len(buf) + 1} BY <1>1, <1>3 DEF FramesOf
<1>5. FramesOf(buf, s) \subseteq 1 .. Len(buf) BY <1>3 DEF FramesOf
<1>6. PICK at \in [D -> FramesOf(buf, s)] :
        /\ \A i, j \in D : i < j => at[i] < at[j]
        /\ \A f \in FramesOf(buf, s) : \E i \in D : at[i] = f
        /\ \A i \in D : buf[at[i]].what = h[i]
  BY DEF Carries
<1> DEFINE E  == n + 1 .. Len(h) + 1
           to == [i \in E |-> IF i = Len(h) + 1 THEN Len(buf) + 1 ELSE at[i]]
<1>7. /\ E = D \cup {Len(h) + 1} /\ Len(h) + 1 \notin D /\ D \subseteq 1 .. Len(h)
      /\ \A i \in D : i \in Nat /\ i < Len(h) + 1
  BY <1>2
<1>8. to[Len(h) + 1] = Len(buf) + 1 /\ \A i \in D : to[i] = at[i] BY <1>7
<1>9. \A i \in D : at[i] \in FramesOf(buf, s) /\ at[i] \in 1 .. Len(buf) BY <1>5, <1>6
<1>10. to \in [E -> FramesOf(new, s)] BY <1>4, <1>7, <1>9
<1> HIDE DEF to, D
<1>11. \A i, j \in E : i < j => to[i] < to[j]
  <2> SUFFICES ASSUME NEW i \in E, NEW j \in E, i < j PROVE to[i] < to[j] OBVIOUS
  <2>1. i # Len(h) + 1 /\ i \in D BY <1>2, <1>7
  <2>2. CASE j = Len(h) + 1 BY <1>1, <1>8, <1>9, <2>1, <2>2
  <2>3. CASE j \in D BY <1>6, <1>8, <2>1, <2>3
  <2> QED BY <1>7, <2>2, <2>3
<1>12. \A f \in FramesOf(new, s) : \E i \in E : to[i] = f BY <1>4, <1>6, <1>7, <1>8
<1>13. \A i \in E : new[to[i]].what = more[i]
  <2>1. \A i \in D : new[to[i]].what = more[i] BY <1>1, <1>2, <1>6, <1>7, <1>8, <1>9
  <2>2. new[to[Len(h) + 1]].what = more[Len(h) + 1] BY <1>1, <1>2, <1>8
  <2> QED BY <1>7, <2>1, <2>2
<1>14. E = n + 1 .. Len(more) BY <1>2
<1> HIDE DEF E
<1> QED BY <1>10, <1>11, <1>12, <1>13, <1>14 DEF Carries, new, more

(* The next unit of the connection goes to another stream. *)
LEMMA CarriesTailOther ==
  ASSUME NEW S, NEW buf \in Seq(S), buf # <<>>, NEW s,
         Head(buf).kind = "yamux" => Head(buf).stream # s,
         NEW h, NEW n, Len(h) \in Nat, n \in Nat, Carries(buf, s, h, n)
  PROVE  Carries(Tail(buf), s, h, n)
<1>1. /\ Tail(buf) \in Seq(S) /\ Len(buf) \in Nat /\ Len(Tail(buf)) = Len(buf) - 1
      /\ Head(buf) = buf[1] /\ \A i \in 1 .. Len(Tail(buf)) : Tail(buf)[i] = buf[i + 1]
  BY HeadTailProperties, LenProperties
<1>2. DOMAIN buf = 1 .. Len(buf) /\ DOMAIN Tail(buf) = 1 .. Len(buf) - 1
  BY <1>1, LenProperties
<1>3. FramesOf(buf, s) \subseteq Nat /\ FramesOf(Tail(buf), s) \subseteq Nat
  BY <1>1, <1>2 DEF FramesOf
<1>4. \A f \in FramesOf(buf, s) :
        f - 1 \in FramesOf(Tail(buf), s) /\ Tail(buf)[f - 1].what = buf[f].what
  <2> TAKE f \in FramesOf(buf, s)
  <2>1. f \in 1 .. Len(buf) /\ f # 1 /\ buf[f].kind = "yamux" /\ buf[f].stream = s
    BY <1>1, <1>2 DEF FramesOf
  <2>2. f - 1 \in 1 .. Len(Tail(buf)) /\ f - 1 + 1 = f BY <1>1, <2>1
  <2>3. Tail(buf)[f - 1] = buf[f] BY <1>1, <2>2
  <2> QED BY <1>1, <1>2, <2>1, <2>2, <2>3 DEF FramesOf
<1>5. \A f \in FramesOf(Tail(buf), s) : f + 1 \in FramesOf(buf, s)
  BY <1>1, <1>2 DEF FramesOf
<1> QED BY <1>3, <1>4, <1>5, CarriesShift

(* It goes to the stream: it is the next word. *)
LEMMA CarriesTailOwn ==
  ASSUME NEW S, NEW buf \in Seq(S), buf # <<>>, NEW s,
         Head(buf).kind = "yamux", Head(buf).stream = s,
         NEW h, NEW n, Len(h) \in Nat, n \in Nat, Carries(buf, s, h, n)
  PROVE  /\ n + 1 \in 1 .. Len(h) /\ Head(buf).what = h[n + 1]
         /\ Carries(Tail(buf), s, h, n + 1)
<1> DEFINE D == n + 1 .. Len(h)
           E == n + 1 + 1 .. Len(h)
<1>1. /\ Tail(buf) \in Seq(S) /\ Len(buf) \in Nat /\ Len(buf) > 0 /\ Len(Tail(buf)) = Len(buf) - 1
      /\ Head(buf) = buf[1] /\ \A i \in 1 .. Len(Tail(buf)) : Tail(buf)[i] = buf[i + 1]
  BY HeadTailProperties, LenProperties, EmptySeq
<1>2. DOMAIN buf = 1 .. Len(buf) /\ DOMAIN Tail(buf) = 1 .. Len(buf) - 1
  BY <1>1, LenProperties
<1>3. 1 \in FramesOf(buf, s) BY <1>1, <1>2 DEF FramesOf
<1>4. FramesOf(buf, s) \subseteq 1 .. Len(buf) BY <1>2 DEF FramesOf
<1>5. PICK at \in [D -> FramesOf(buf, s)] :
        /\ \A i, j \in D : i < j => at[i] < at[j]
        /\ \A f \in FramesOf(buf, s) : \E i \in D : at[i] = f
        /\ \A i \in D : buf[at[i]].what = h[i]
  BY DEF Carries
<1>6. PICK i1 \in D : at[i1] = 1 BY <1>3, <1>5
<1>7. \A i \in D : at[i] \in FramesOf(buf, s) /\ at[i] \in 1 .. Len(buf) BY <1>4, <1>5
<1>8. n + 1 \in D /\ (i1 = n + 1 \/ n + 1 < i1) BY <1>6
<1>9. i1 = n + 1
  <2>1. ~(n + 1 < i1)
    <3> SUFFICES ASSUME n + 1 < i1 PROVE FALSE OBVIOUS
    <3>1. at[n + 1] < 1 /\ at[n + 1] \in 1 .. Len(buf) BY <1>5, <1>6, <1>7, <1>8
    <3> QED BY <1>1, <3>1
  <2> QED BY <1>8, <2>1
<1>10. at[n + 1] = 1 /\ Head(buf).what = h[n + 1] BY <1>1, <1>5, <1>6, <1>9
<1>11. E \subseteq D /\ D = E \cup {n + 1} /\ \A i \in E : n + 1 < i BY <1>8
<1> DEFINE to == [i \in E |-> at[i] - 1]
<1>12. \A i \in E : to[i] = at[i] - 1 OBVIOUS
<1> HIDE DEF D, E, to
<1>13. \A i \in E : /\ at[i] \in FramesOf(buf, s) /\ at[i] \in 1 .. Len(buf) /\ 1 < at[i]
  BY <1>5, <1>7, <1>8, <1>10, <1>11
<1>14. \A i \in E : to[i] \in FramesOf(Tail(buf), s) /\ Tail(buf)[to[i]] = buf[at[i]]
  <2> TAKE i \in E
  <2>1. to[i] \in 1 .. Len(Tail(buf)) /\ to[i] + 1 = at[i] BY <1>1, <1>12, <1>13
  <2>2. Tail(buf)[to[i]] = buf[at[i]] BY <1>1, <2>1
  <2>3. buf[at[i]].kind = "yamux" /\ buf[at[i]].stream = s BY <1>13 DEF FramesOf
  <2> QED BY <1>1, <1>2, <2>1, <2>2, <2>3 DEF FramesOf
<1>15. to \in [E -> FramesOf(Tail(buf), s)] BY <1>14 DEF to
<1>16. \A i, j \in E : i < j => to[i] < to[j] BY <1>5, <1>11, <1>12, <1>13
<1>17. \A f \in FramesOf(Tail(buf), s) : \E i \in E : to[i] = f
  <2> TAKE f \in FramesOf(Tail(buf), s)
  <2>1. f \in 1 .. Len(Tail(buf)) /\ Tail(buf)[f].kind = "yamux" /\ Tail(buf)[f].stream = s
    BY <1>1, <1>2 DEF FramesOf
  <2>2. f + 1 \in 1 .. Len(buf) /\ buf[f + 1] = Tail(buf)[f] BY <1>1, <2>1
  <2>3. f + 1 \in FramesOf(buf, s) BY <1>2, <2>1, <2>2 DEF FramesOf
  <2>4. PICK i \in D : at[i] = f + 1 BY <1>5, <2>3
  <2>5. i # n + 1 BY <1>10, <2>1, <2>4
  <2>6. i \in E BY <1>11, <2>5
  <2>7. to[i] = f BY <1>12, <2>1, <2>4, <2>6
  <2> QED BY <2>6, <2>7
<1>18. \A i \in E : Tail(buf)[to[i]].what = h[i] BY <1>5, <1>11, <1>14
<1>19. Carries(Tail(buf), s, h, n + 1) BY <1>15, <1>16, <1>17, <1>18 DEF Carries, E
<1>20. n + 1 \in 1 .. Len(h) BY <1>8 DEF D
<1> QED BY <1>10, <1>19, <1>20

(* A frame of the handshake in front of the streams' frames is read. *)
LEMMA CarriesAfter ==
  ASSUME NEW S, NEW f \in Seq(S), NEW rest \in Seq(S), NEW s, FramesOf(f, s) = {},
         NEW h, NEW n, Len(h) \in Nat, n \in Nat, Carries(f \o rest, s, h, n)
  PROVE  Carries(rest, s, h, n)
<1> DEFINE buf == f \o rest
           d   == Len(f)
<1>1. /\ buf \in Seq(S) /\ d \in Nat /\ Len(rest) \in Nat /\ Len(buf) = d + Len(rest)
      /\ \A i \in 1 .. d + Len(rest) : buf[i] = IF i <= d THEN f[i] ELSE rest[i - d]
  BY ConcatProperties, LenProperties
<1>2. DOMAIN buf = 1 .. d + Len(rest) /\ DOMAIN f = 1 .. d /\ DOMAIN rest = 1 .. Len(rest)
  BY <1>1, LenProperties
<1> HIDE DEF buf, d
<1>3. FramesOf(buf, s) \subseteq Nat /\ FramesOf(rest, s) \subseteq Nat
  BY <1>1, <1>2 DEF FramesOf
<1>4. \A k \in FramesOf(buf, s) : k - d \in FramesOf(rest, s) /\ rest[k - d].what = buf[k].what
  <2> TAKE k \in FramesOf(buf, s)
  <2>1. k \in 1 .. d + Len(rest) /\ buf[k].kind = "yamux" /\ buf[k].stream = s
    BY <1>2 DEF FramesOf
  <2>2. ~(k <= d)
    <3> SUFFICES ASSUME k <= d PROVE FALSE OBVIOUS
    <3>1. k \in 1 .. d /\ buf[k] = f[k] BY <1>1, <2>1
    <3> QED BY <1>2, <2>1, <3>1 DEF FramesOf
  <2>3. k - d \in 1 .. Len(rest) /\ buf[k] = rest[k - d] BY <1>1, <2>1, <2>2
  <2> QED BY <1>2, <2>1, <2>3 DEF FramesOf
<1>5. \A k \in FramesOf(rest, s) : k + d \in FramesOf(buf, s)
  <2> TAKE k \in FramesOf(rest, s)
  <2>1. k \in 1 .. Len(rest) /\ rest[k].kind = "yamux" /\ rest[k].stream = s
    BY <1>2 DEF FramesOf
  <2> DEFINE i == k + d
  <2>2. i \in 1 .. d + Len(rest) /\ ~(i <= d) /\ i - d = k BY <1>1, <2>1
  <2> HIDE DEF i
  <2>3. buf[i] = rest[i - d] BY <1>1, <2>2
  <2>4. i \in FramesOf(buf, s) BY <1>2, <2>1, <2>2, <2>3 DEF FramesOf
  <2> QED BY <2>4 DEF i
<1>6. Carries(buf, s, h, n) BY DEF buf
<1> QED BY <1>1, <1>3, <1>4, <1>5, <1>6, CarriesShift

-----------------------------------------------------------------------------
(* What can be in the connection.                                          *)

(* A frame of any message: units of the handshake, none of yamux. *)
LEMMA FrameUnits ==
  ASSUME NEW m \in Messages
  PROVE  /\ m.size \in Nat /\ payload_len(m) \in Nat
         /\ Frame(m) \in Seq(Pieces) /\ Len(Frame(m)) = 1 + m.size /\ Frame(m) # <<>>
         /\ Head(Frame(m)) = Header(PROTOCOL_VERSION, m.type, payload_len(m))
         /\ \A i \in 2 .. 1 + m.size : Frame(m)[i] = Piece(m)
         /\ \A i \in 1 .. 1 + m.size : Frame(m)[i].kind # "yamux"
<1> DEFINE h == Header(PROTOCOL_VERSION, m.type, payload_len(m))
           p == encode_payload(m)
           S == {h, Piece(m)}
<1>1. m.size \in Nat /\ Wrap \in Nat /\ Wrap > 0 BY CodecAssumption
<1>2. payload_len(m) \in Nat BY <1>1 DEF payload_len
<1>3. p \in Seq(S) /\ Len(p) = m.size /\ \A i \in 1 .. m.size : p[i] = Piece(m)
  <2>1. Piece(m) \in S OBVIOUS
  <2> HIDE DEF S
  <2> QED BY <1>1, <2>1 DEF encode_payload
<1>4. <<h>> \in Seq(S) /\ Len(<<h>>) = 1 /\ <<h>> # <<>> /\ Head(<<h>>) = h /\ <<h>>[1] = h
  <2>1. h \in S OBVIOUS
  <2> HIDE DEF h, S
  <2> QED BY <2>1
<1>5. Frame(m) = <<h>> \o p BY DEF Frame
<1>6. h.kind = "header" /\ Piece(m).kind = "payload" BY DEF Header, Piece
<1> HIDE DEF h, p, S
<1>7. /\ Frame(m) \in Seq(S) /\ Frame(m) # <<>> /\ Len(Frame(m)) = 1 + m.size
      /\ Head(Frame(m)) = h
      /\ \A i \in 1 .. 1 + m.size : Frame(m)[i] = IF i <= 1 THEN <<h>>[i] ELSE p[i - 1]
  BY <1>1, <1>3, <1>4, <1>5, Joined, ConcatProperties
<1>8. \A i \in 2 .. 1 + m.size : Frame(m)[i] = Piece(m)
  <2> TAKE i \in 2 .. 1 + m.size
  <2>1. i \in 1 .. 1 + m.size /\ ~(i <= 1) /\ i - 1 \in 1 .. m.size BY <1>1
  <2> QED BY <1>3, <1>7, <2>1
<1>9. Frame(m)[1] = h
  <2>1. 1 \in 1 .. 1 + m.size /\ 1 <= 1 BY <1>1
  <2> QED BY <1>4, <1>7, <2>1
<1>10. \A i \in 1 .. 1 + m.size : Frame(m)[i].kind # "yamux"
  <2> TAKE i \in 1 .. 1 + m.size
  <2>1. i = 1 \/ i \in 2 .. 1 + m.size BY <1>1
  <2> QED BY <1>6, <1>8, <1>9, <2>1
<1>11. Frame(m) \in Seq(Pieces)
  <2>1. DOMAIN Frame(m) = 1 .. 1 + m.size BY <1>7, LenProperties
  <2>2. \A i \in 1 .. 1 + m.size : Frame(m)[i] \in Range(Frame(m)) BY <2>1 DEF Range
  <2>3. Range(Frame(m)) \subseteq Pieces BY Zenon DEF Pieces
  <2> QED BY <1>7, <2>2, <2>3
<1> QED BY <1>1, <1>2, <1>7, <1>8, <1>10, <1>11 DEF h

LEMMA FrameNoStream ==
  ASSUME NEW m \in Messages, NEW s
  PROVE  FramesOf(Frame(m), s) = {}
<1>1. DOMAIN Frame(m) = 1 .. 1 + m.size BY FrameUnits, LenProperties
<1> QED BY <1>1, FrameUnits DEF FramesOf

LEMMA PieceKind ==
  ASSUME NEW u \in Pieces
  PROVE  u.kind # "yamux"
<1>1. PICK m \in Messages : u \in Range(Frame(m)) BY DEF Pieces
<1>2. DOMAIN Frame(m) = 1 .. 1 + m.size BY FrameUnits, LenProperties
<1> QED BY <1>1, <1>2, FrameUnits DEF Range

(* Both ways, all of it is in Units. *)
LEMMA AllUnits ==
  /\ Pieces \subseteq Units /\ Noise \subseteq Units /\ Up \subseteq Units /\ Down \subseteq Units
  /\ Seq(Noise) \subseteq Seq(Units) /\ Seq(Up) \subseteq Seq(Units)
  /\ Seq(Pieces \cup Down) \subseteq Seq(Units) /\ Seq(Pieces) \subseteq Seq(Units)
  /\ Seq(Pieces) \subseteq Seq(Pieces \cup Down) /\ Seq(Down) \subseteq Seq(Pieces \cup Down)
<1>1. Units = Pieces \cup Noise \cup Frames BY DEF Units
<1>2. Up \subseteq Frames /\ Down \subseteq Frames BY DEF Up, Down, Frames
<1>3. /\ Pieces \subseteq Units /\ Noise \subseteq Units /\ Up \subseteq Units
      /\ Down \subseteq Units /\ Pieces \cup Down \subseteq Units
      /\ Pieces \subseteq Pieces \cup Down /\ Down \subseteq Pieces \cup Down
  BY <1>1, <1>2, Zenon
<1> QED BY <1>3, SeqMonotonic, Zenon

-----------------------------------------------------------------------------
(* The handshake.                                                          *)

(* A message that is decoded is what the header and the payload say. *)
LEMMA DecodedSays ==
  ASSUME NEW buf, Decoded(buf) \in Messages
  PROVE  /\ ~BadHeader(Head(buf))
         /\ encode_payload(Decoded(buf)) = SubSeq(buf, 2, Head(buf).len + 1)
<1> DEFINE sent(m) == /\ m.type = Head(buf).type
                      /\ encode_payload(m) = SubSeq(buf, 2, Head(buf).len + 1)
<1>1. ~BadHeader(Head(buf)) /\ \E m \in Messages : sent(m)
  BY CodecAssumption DEF Decoded
<1>2. Decoded(buf) = CHOOSE m \in Messages : sent(m) BY <1>1 DEF Decoded
<1>3. sent(Decoded(buf)) BY <1>1, <1>2
<1> QED BY <1>1, <1>3

(* An AuthReq that is decoded was there from its first unit to its last. *)
LEMMA DecodedUnits ==
  ASSUME NEW S, NEW buf \in Seq(S), Decided(buf), Decoded(buf) \in AuthReqs,
         ~BadHeader(Head(buf)) => Head(buf).len \in Nat
  PROVE  LET m == Decoded(buf) IN
         /\ Head(buf).len = m.size /\ m.size \in 1 .. MaxPayload
         /\ buf[2] \in S /\ buf[2] = Piece(m)
<1> DEFINE m == Decoded(buf)
           l == Head(buf).len
<1>1. m \in Messages /\ m.size \in Nat /\ m.size > 0 BY LinkAssumption, CodecAssumption
<1>2. ~BadHeader(Head(buf)) /\ encode_payload(m) = SubSeq(buf, 2, l + 1) BY <1>1, DecodedSays
<1>3. l \in Nat /\ l <= MaxPayload /\ Len(buf) > l /\ Len(buf) \in Nat
  BY <1>2, LenProperties DEF BadHeader, Decided
<1>4. Len(encode_payload(m)) = m.size /\ encode_payload(m)[1] = Piece(m)
  BY <1>1 DEF encode_payload
<1> HIDE DEF m, l
<1>5. \A i \in 2 .. l + 1 : buf[i] \in S
  <2>1. \A i \in 2 .. l + 1 : i \in 1 .. Len(buf) BY <1>3
  <2> QED BY <2>1
<1>6. Len(SubSeq(buf, 2, l + 1)) = IF 2 <= l + 1 THEN l + 1 - 2 + 1 ELSE 0
  BY <1>3, <1>5, SubSeqProperties
<1>7. l = m.size /\ 2 <= l + 1 BY <1>1, <1>2, <1>3, <1>4, <1>6
<1>8. SubSeq(buf, 2, l + 1)[1] = buf[2]
  <2>1. 1 \in 1 .. l + 1 - 2 + 1 /\ 2 + 1 - 1 = 2 BY <1>3, <1>7
  <2> QED BY <1>3, <1>5, <1>7, <2>1, SubSeqProperties
<1>9. buf[2] \in S BY <1>3, <1>5, <1>7
<1>10. m.size \in 1 .. MaxPayload BY <1>1, <1>3, <1>7
<1> QED BY <1>2, <1>4, <1>7, <1>8, <1>9, <1>10 DEF m, l

(* A stranger passes for no client: it has no unit with the token. *)
LEMMA StrangerRefused ==
  ASSUME to_server \in Seq(Noise), Decided(to_server), Decoded(to_server) \in AuthReqs
  PROVE  ~Decoded(to_server).token_ok
<1>1. to_server # <<>> BY DEF Decided
<1>2. Head(to_server) \in Noise BY <1>1, HeadTailProperties
<1>3. ~BadHeader(Head(to_server)) => Head(to_server).len \in Nat
  BY <1>2, LinkAssumption DEF BadHeader
<1> QED BY <1>3, DecodedUnits, LinkAssumption

(* A client's AuthReq is decoded as what it is and taken from the          *)
(* connection, or not as an AuthReq at all.                                *)
LEMMA RequestRead ==
  ASSUME NEW r \in AuthReqs, Decided(Frame(r)), Decoded(Frame(r)) \in AuthReqs
  PROVE  r \in Sendable /\ Decoded(Frame(r)) = r /\ Remaining(Frame(r)) = <<>>
<1>1. r \in Messages /\ r.type = "AuthReq" BY LinkAssumption
<1>2. /\ Frame(r) \in Seq(Pieces) /\ Head(Frame(r)).len = payload_len(r)
      /\ payload_len(r) \in Nat /\ Len(Frame(r)) = 1 + r.size /\ r.size \in Nat
      /\ \A i \in 2 .. 1 + r.size : Frame(r)[i] = Piece(r)
  BY <1>1, FrameUnits DEF Header
<1> DEFINE m == Decoded(Frame(r))
<1>3. m.size = payload_len(r) /\ m.size \in 1 .. MaxPayload /\ Frame(r)[2] = Piece(m)
  BY <1>2, DecodedUnits
<1>4. Len(Frame(r)) > payload_len(r)
  <2>1. m \in Messages BY LinkAssumption
  <2>2. ~BadHeader(Head(Frame(r))) BY <2>1, DecodedSays
  <2> QED BY <1>2, <2>2 DEF Decided
<1>5. 2 \in 2 .. 1 + r.size BY <1>2, <1>3, <1>4
<1>6. Piece(m) = Piece(r) BY <1>2, <1>3, <1>5
<1>7. m = r BY <1>6 DEF Piece
<1>8. r \in Sendable BY <1>1, <1>3, <1>7 DEF Sendable, MessageType
<1>9. <<>> \in Seq(Pieces) /\ Frame(r) \o <<>> = Frame(r)
  BY <1>2, EmptySeq, ConcatEmptySeq
<1>10. Remaining(Frame(r)) = <<>> BY <1>8, <1>9, FrameRoundTrip
<1> QED BY <1>7, <1>8, <1>10

(* The answer to it can be sent, or is refused before it is. *)
LEMMA AnswerSendable ==
  ASSUME NEW r \in AuthReqs, r \in Sendable, ~TooLarge(AuthRes(r, r.token_ok))
  PROVE  AuthRes(r, r.token_ok) \in Sendable
<1> DEFINE a == AuthRes(r, r.token_ok)
<1>1. r.token_ok \in BOOLEAN /\ a \in Messages BY LinkAssumption
<1>2. /\ r.size \in Nat /\ r.size > 0 /\ r.size <= MaxPayload
      /\ MaxPayload \in Nat /\ Wrap \in Nat /\ 2 * MaxPayload < Wrap
  BY CodecAssumption DEF Sendable
<1>3. a.type = "AuthRes" /\ (a.size = 2 * r.size \/ a.size = 1) BY DEF AuthRes
<1> HIDE DEF a
<1>4. a.size \in Nat /\ a.size > 0 /\ a.size < Wrap BY <1>2, <1>3
<1>5. payload_len(a) = a.size BY <1>2, <1>4 DEF payload_len
<1>6. a.size <= MaxPayload BY <1>2, <1>4, <1>5 DEF TooLarge, a
<1> QED BY <1>1, <1>2, <1>3, <1>4, <1>6 DEF Sendable, MessageType, a

-----------------------------------------------------------------------------
(* One stream in a step.                                                   *)

(* A stream nobody has opened leaves no trace. *)
Unused(s) ==
  /\ srv[s] = "free" /\ purpose[s] = None /\ task[s] = "none"
  /\ inbuf[s] = <<>> /\ local[s] = <<>>
  /\ FramesOf(to_client, s) = {}

LEMMA UnusedStream ==
  ASSUME NEW s \in Streams
  PROVE  (Unused(s) => Stream(s)) /\ (Unused(s)' => Stream(s)')
<1>1. <<>> \in Seq(Words) /\ Len(<<>>) = 0 /\ DOMAIN <<>> = {} /\ Len(<<>>) \in Nat
  BY EmptySeq
<1>2. Unused(s) => Carries(to_client, s, <<>>, 0) BY <1>1, CarriesNothing DEF Unused
<1>3. Unused(s)' => Carries(to_client', s, <<>>, 0) BY <1>1, CarriesNothing DEF Unused
<1>4. Unused(s) => Purposes(s) /\ Story(s, <<>>) /\ Arrived(s, <<>>, 0)
  BY <1>1, LinkAssumption DEF Unused, Purposes, Story, Arrived, Opened
<1>5. Unused(s)' => Purposes(s)' /\ Story(s, <<>>)' /\ Arrived(s, <<>>, 0)'
  BY <1>1, LinkAssumption DEF Unused, Purposes, Story, Arrived, Opened
<1> QED BY <1>1, <1>2, <1>3, <1>4, <1>5 DEF Stream

LEMMA FreeUnused ==
  ASSUME IInv, NEW s \in Streams, srv[s] = "free"
  PROVE  Unused(s)
<1>1. PICK h \in Seq(Words), n \in Nat :
        Story(s, h) /\ Arrived(s, h, n) /\ Carries(to_client, s, h, n)
  BY DEF IInv, Stream
<1>2. Purposes(s) BY DEF IInv, Stream
<1>3. h = <<>> /\ Len(h) = 0 BY <1>1 DEF Story
<1>4. n = 0 BY <1>1, <1>3 DEF Arrived
<1>5. task[s] = "none" /\ inbuf[s] = <<>> BY <1>1, <1>4 DEF Arrived
<1>6. n + 1 .. Len(h) = {} BY <1>3, <1>4
<1>7. FramesOf(to_client, s) = {} BY <1>1, <1>6 DEF Carries
<1> QED BY <1>2, <1>5, <1>7 DEF Purposes, Unused

LEMMA UsedNat ==
  ASSUME IInv, NEW s \in Streams
  PROVE  Used(s) \in Nat /\ Used(s) > 0
<1>1. local[s] \in Seq(Upward) /\ supports_heartbeat \in BOOLEAN BY DEF IInv, TypeOK
<1>2. Len(local[s]) \in Nat BY <1>1, LenProperties
<1> DEFINE x == IF task[s] # "marker" /\ supports_heartbeat THEN 1 ELSE 0
           y == Len(local[s])
<1>3. (x = 0 \/ x = 1) /\ y \in Nat /\ Used(s) = 1 + x + y BY <1>2 DEF Used
<1> HIDE DEF x, y
<1>4. 1 + x + y \in Nat /\ 1 + x + y > 0 BY <1>3
<1> QED BY <1>3, <1>4

(* Nothing happens to a stream but that it may be answered or given up,    *)
(* and what it has in the connection stays.                                *)
LEMMA SameStream ==
  ASSUME IInv, NEW s \in Streams,
         supports_heartbeat' = supports_heartbeat, purpose'[s] = purpose[s],
         inbuf'[s] = inbuf[s], task'[s] = task[s], local'[s] = local[s],
         srv'[s] = srv[s] \/ (srv[s] \in Opened /\ srv'[s] \in {"answered", "failed"}),
         \A h, n : Len(h) \in Nat /\ n \in Nat /\ Carries(to_client, s, h, n)
                     => Carries(to_client', s, h, n)
  PROVE  Stream(s)'
<1>1. PICK h \in Seq(Words), n \in Nat :
        Story(s, h) /\ Arrived(s, h, n) /\ Carries(to_client, s, h, n)
  BY DEF IInv, Stream
<1>2. Purposes(s) BY DEF IInv, Stream
<1>3. Purposes(s)' BY <1>2 DEF Purposes, Opened
<1>4. Whole(s)' = Whole(s) /\ \A i : Word(s, i)' = Word(s, i) BY DEF Whole, Word
<1>5. Story(s, h)' BY <1>1, <1>4 DEF Story, Begun, Opened
<1>6. Used(s)' = Used(s) BY DEF Used
<1>7. Arrived(s, h, n)' BY <1>1, <1>6 DEF Arrived
<1>8. Len(h) \in Nat BY LenProperties
<1>9. Carries(to_client', s, h, n) BY <1>1, <1>8
<1> QED BY <1>3, <1>5, <1>7, <1>9 DEF Stream

-----------------------------------------------------------------------------
(* The steps of the handshake.                                             *)

LEMMA InitIInv == Init => IInv
<1> SUFFICES ASSUME Init PROVE IInv OBVIOUS
<1>1. <<>> \in Seq(Units) /\ <<>> \in Seq(Noise) /\ <<>> \in Seq(Pieces \cup Down)
      /\ <<>> \in Seq(Upward \cup {"reset"}) /\ <<>> \in Seq(Upward)
  BY EmptySeq
<1>2. TypeOK BY <1>1 DEF Init, TypeOK
<1>3. ServerSide BY <1>1 DEF Init, ServerSide, Opened
<1>4. ClientSide BY <1>1 DEF Init, ClientSide
<1>5. ASSUME NEW s \in Streams PROVE Stream(s)
  <2>1. DOMAIN to_client = {} BY DEF Init
  <2>2. Unused(s) BY <2>1 DEF Init, Unused, FramesOf
  <2> QED BY <2>2, UnusedStream
<1> QED BY <1>2, <1>3, <1>4, <1>5 DEF IInv

(* Steps that do nothing to any stream. *)
LEMMA StreamsStay ==
  ASSUME IInv, UNCHANGED <<supports_heartbeat, to_client, streams>>
  PROVE  \A s \in Streams : Stream(s)'
BY SameStream DEF streams

LEMMA SendAuthReqStep ==
  ASSUME IInv, SendAuthReq
  PROVE  IInv'
<1>1. /\ request \in AuthReqs /\ request \in Messages /\ request # None
      /\ to_server = <<>> /\ to_client = <<>>
      /\ client = "sending" /\ server # "serving"
  BY LinkAssumption DEF IInv, TypeOK, ClientSide, ServerSide, SendAuthReq
<1>2. Frame(request) \in Seq(Units) /\ to_server \o Frame(request) = Frame(request)
  BY <1>1, FrameUnits, AllUnits, ConcatEmptySeq, Zenon
<1>3. \/ client' = "closed" /\ to_server' = to_server
      \/ client' = "awaiting" /\ to_server' = Frame(request)
  BY <1>2 DEF SendAuthReq
<1>4. UNCHANGED <<request, server, supports_heartbeat, to_client, streams>> BY DEF SendAuthReq
<1>5. TypeOK' BY <1>2, <1>3, <1>4 DEF IInv, TypeOK, streams
<1>6. ServerSide' BY <1>1, <1>3, <1>4 DEF IInv, ServerSide, streams
<1>7. ClientSide'
  <2>1. Answer' BY <1>1, <1>4 DEF Answer
  <2> QED BY <1>1, <1>3, <1>4, <2>1 DEF IInv, ClientSide, streams
<1> QED BY <1>4, <1>5, <1>6, <1>7, StreamsStay DEF IInv

LEMMA SendNoiseStep ==
  ASSUME IInv, SendNoise
  PROVE  IInv'
<1>1. PICK u \in Noise : to_server' = Append(to_server, u) BY DEF SendNoise
<1>2. request = None /\ server # "serving"
  BY DEF IInv, ServerSide, SendNoise
<1>3. UNCHANGED <<handshake, to_client, streams>> BY DEF SendNoise
<1>4. to_server' \in Seq(Units)
  <2>1. u \in Units /\ to_server \in Seq(Units) BY AllUnits DEF IInv, TypeOK
  <2> QED BY <1>1, <2>1, AppendProperties
<1>5. server = "reading" => to_server' \in Seq(Noise)
  BY <1>1, <1>2, AppendProperties DEF IInv, ServerSide
<1>6. TypeOK' BY <1>3, <1>4 DEF IInv, TypeOK, handshake, streams
<1>7. ServerSide' BY <1>2, <1>3, <1>5 DEF IInv, ServerSide, handshake, streams
<1>8. ClientSide' BY <1>2, <1>3 DEF IInv, ClientSide, handshake, streams
<1> QED BY <1>3, <1>6, <1>7, <1>8, StreamsStay DEF IInv, handshake

(* The server gives up before the handover. *)
LEMMA CloseReading ==
  ASSUME IInv, server = "reading", server' = "closed",
         UNCHANGED <<request, client, supports_heartbeat, wires, streams>>
  PROVE  IInv'
<1>1. to_client = <<>> /\ \A s \in Streams : srv[s] \notin Opened
  BY DEF IInv, ServerSide, Opened
<1>2. TypeOK' BY DEF IInv, TypeOK, wires, streams
<1>3. ServerSide' BY <1>1 DEF ServerSide, wires, streams
<1>4. Answer' BY <1>1 DEF Answer, wires
<1>5. ClientSide' BY <1>4 DEF IInv, ClientSide, wires, streams
<1> QED BY <1>2, <1>3, <1>5, StreamsStay DEF IInv, wires

(* The server reads an AuthReq and answers it: the client's own, whole and *)
(* nothing more, or a stranger's that has no token.                        *)
LEMMA ReadAuthReqStep ==
  ASSUME IInv, ReadAuthReq
  PROVE  IInv'
<1> DEFINE m == Decoded(to_server)
           a == AuthRes(m, m.token_ok)
<1>1. CASE ~(m \in AuthReqs /\ ~TooLarge(a))
  BY <1>1, CloseReading DEF ReadAuthReq
<1>2. CASE m \in AuthReqs /\ ~TooLarge(a)
  <2>1. /\ server = "reading" /\ Decided(to_server)
        /\ to_client' = to_client \o Frame(a) /\ to_server' = Remaining(to_server)
        /\ server' = (IF m.token_ok THEN "serving" ELSE "closed")
        /\ supports_heartbeat' = m.version
        /\ UNCHANGED <<request, client, streams>>
    BY <1>2 DEF ReadAuthReq
  <2>2. m.token_ok \in BOOLEAN /\ m.version \in BOOLEAN /\ a \in Messages
    BY <1>2, LinkAssumption
  <2>3. to_client = <<>> /\ \A s \in Streams : srv[s] = "free"
    BY <2>1 DEF IInv, ServerSide
  <2>4. Frame(a) \in Seq(Pieces) /\ to_client' = Frame(a)
    BY <2>1, <2>2, <2>3, FrameUnits, ConcatEmptySeq
  <2>5. to_client' \in Seq(Units) /\ to_client' \in Seq(Pieces \cup Down)
    BY <2>4, AllUnits, Zenon
  <2>6. ASSUME request = None
        PROVE  server' = "closed" /\ client \in {"sending", "closed"}
    <3>1. to_server \in Seq(Noise) BY <2>1, <2>6 DEF IInv, ServerSide
    <3>2. ~m.token_ok BY <1>2, <2>1, <3>1, StrangerRefused
    <3> QED BY <2>1, <2>6, <3>2 DEF IInv, ClientSide
  <2>7. ASSUME request # None
        PROVE  /\ request \in Sendable /\ request \in AuthReqs /\ m = request
               /\ to_server' = <<>> /\ client # "sending" /\ client # "serving"
    <3>1. to_server = Frame(request) /\ to_server # <<>> /\ request \in AuthReqs
      BY <2>1, <2>7 DEF IInv, TypeOK, ServerSide, Decided
    <3>2. client # "sending" /\ client # "serving" BY <2>1, <2>7, <3>1 DEF IInv, ClientSide
    <3> QED BY <1>2, <2>1, <3>1, <3>2, RequestRead
  <2>8. to_server' \in Seq(Units)
    <3>1. CASE request # None BY <2>7, <3>1, EmptySeq
    <3>2. CASE request = None
      <4>1. to_server \in Seq(Noise) BY <2>1, <3>2 DEF IInv, ServerSide
      <4>2. to_server # <<>> BY <2>1 DEF Decided
      <4>3. Head(to_server) \in Noise BY <4>1, <4>2, HeadTailProperties
      <4>4. ~BadHeader(Head(to_server)) BY <1>2, LinkAssumption, DecodedSays
      <4>5. Head(to_server).len \in Nat BY <4>3, <4>4, LinkAssumption DEF BadHeader
      <4> DEFINE l == Head(to_server).len
      <4> HIDE DEF l
      <4>6. to_server \in Seq(Units) /\ Len(to_server) \in Nat
        BY <4>1, AllUnits, LenProperties
      <4>7. \A i \in l + 2 .. Len(to_server) : to_server[i] \in Units
        <5>1. \A i \in l + 2 .. Len(to_server) : i \in 1 .. Len(to_server) BY <4>5, <4>6 DEF l
        <5> QED BY <4>6, <5>1
      <4>8. SubSeq(to_server, l + 2, Len(to_server)) \in Seq(Units)
        BY <4>5, <4>6, <4>7, SubSeqProperties DEF l
      <4> QED BY <2>1, <4>8 DEF Remaining, l
    <3> QED BY <3>1, <3>2
  <2>9. TypeOK' BY <2>1, <2>2, <2>5, <2>8 DEF IInv, TypeOK, streams
  <2>10. ServerSide'
    <3>1. <<>> \in Seq(Up) BY EmptySeq
    <3>2. \A s \in Streams : srv'[s] \notin Opened BY <2>1, <2>3 DEF Opened, streams
    <3>3. server' # "reading" BY <2>1
    <3>4. server' = "serving" => request # None BY <2>6
    <3>5. server' = "serving" => request.token_ok /\ supports_heartbeat' = request.version
      BY <2>1, <2>7, <3>4
    <3>6. server' = "serving" => client # "sending" /\ to_server' \in Seq(Up)
      BY <2>7, <3>1, <3>4
    <3> QED BY <2>1, <3>2, <3>3, <3>4, <3>5, <3>6 DEF ServerSide
  <2>11. ASSUME request # None PROVE Answer'
    <3>1. /\ m = request /\ request \in AuthReqs /\ request \in Sendable
          /\ request.token_ok \in BOOLEAN
      BY <2>2, <2>7, <2>11
    <3>2. a \in Sendable BY <1>2, <3>1, AnswerSendable
    <3>3. <<>> \in Seq(Down) /\ Frame(a) \o <<>> = Frame(a)
      BY <2>4, EmptySeq, ConcatEmptySeq
    <3>4. server' # "reading" /\ supports_heartbeat' = request'.version BY <2>1, <3>1
    <3>5. request' = request BY <2>1
    <3>6. /\ AuthRes(request', request.token_ok) \in Sendable
          /\ to_client' = Frame(AuthRes(request', request.token_ok)) \o <<>>
      BY <2>4, <3>1, <3>2, <3>3, <3>5
    <3> QED BY <3>1, <3>3, <3>4, <3>6 DEF Answer
  <2>12. ClientSide'
    <3>1. request = None => client \in {"sending", "closed"} BY <2>6
    <3>2. request # None => client # "sending" /\ client # "serving" BY <2>7
    <3>3. \A s \in Streams : task'[s] = "none" BY <2>1, <2>3, FreeUnused DEF Unused, streams
    <3> QED BY <2>1, <2>5, <2>11, <3>1, <3>2, <3>3 DEF ClientSide
  <2>13. ASSUME NEW s \in Streams PROVE Stream(s)'
    <3>1. Unused(s) BY <2>3, FreeUnused
    <3>2. FramesOf(to_client', s) = {} BY <2>2, <2>4, FrameNoStream
    <3>3. Unused(s)' BY <2>1, <3>1, <3>2 DEF Unused, streams
    <3> QED BY <3>3, UnusedStream
  <2> QED BY <2>9, <2>10, <2>12, <2>13 DEF IInv
<1> QED BY <1>1, <1>2

(* The client reads the answer; what follows it are frames of streams. *)
LEMMA ReadAuthResStep ==
  ASSUME IInv, ReadAuthRes
  PROVE  IInv'
<1>1. /\ client = "awaiting" /\ Decided(to_client) /\ to_client # <<>>
      /\ UNCHANGED <<request, server, supports_heartbeat, to_server, streams>>
  BY DEF ReadAuthRes, Decided
<1>2. PICK ok \in BOOLEAN : \E rest \in Seq(Down) :
        AuthRes(request, ok) \in Sendable /\ to_client = Frame(AuthRes(request, ok)) \o rest
  BY <1>1 DEF IInv, ClientSide, Answer
<1> DEFINE a == AuthRes(request, ok)
<1>3. PICK rest \in Seq(Down) : a \in Sendable /\ to_client = Frame(a) \o rest BY <1>2
<1>4. Decoded(to_client) = a /\ Remaining(to_client) = rest BY <1>3, FrameRoundTrip
<1>5. a # Bad /\ a.type = "AuthRes" /\ a.ok = ok /\ a \in Messages
  BY <1>3, CodecAssumption DEF Sendable, AuthRes
<1>6. \/ client' = "serving" /\ to_client' = rest
      \/ client' = "closed" /\ to_client' = to_client
  BY <1>4, <1>5 DEF ReadAuthRes
<1>7. server # "reading" /\ supports_heartbeat = request.version
  BY <1>1 DEF IInv, ClientSide, Answer
<1>8. rest \in Seq(Units) /\ rest \in Seq(Pieces \cup Down) BY AllUnits, Zenon
<1>9. request # None BY <1>1 DEF IInv, ClientSide
<1>10. TypeOK' BY <1>1, <1>6, <1>8 DEF IInv, TypeOK, streams
<1>11. ServerSide' BY <1>1, <1>6, <1>7 DEF IInv, ServerSide, streams
<1>12. ClientSide' BY <1>1, <1>6, <1>7, <1>8, <1>9 DEF IInv, ClientSide
<1>13. ASSUME NEW s \in Streams PROVE Stream(s)'
  <2>1. ASSUME NEW h, NEW n, Len(h) \in Nat, n \in Nat, Carries(to_client, s, h, n)
        PROVE  Carries(rest, s, h, n)
    <3>1. Frame(a) \in Seq(Pieces) /\ FramesOf(Frame(a), s) = {}
      BY <1>5, FrameUnits, FrameNoStream
    <3>2. Frame(a) \in Seq(Pieces \cup Down) BY <3>1, AllUnits, Zenon
    <3>3. Carries(Frame(a) \o rest, s, h, n) BY <1>3, <2>1
    <3> HIDE DEF a
    <3> QED BY <1>8, <2>1, <3>1, <3>2, <3>3, CarriesAfter
  <2>2. \A h, n : Len(h) \in Nat /\ n \in Nat /\ Carries(to_client, s, h, n)
                    => Carries(to_client', s, h, n)
    BY <1>6, <2>1
  <2> QED BY <1>1, <2>2, SameStream DEF streams
<1> QED BY <1>10, <1>11, <1>12, <1>13 DEF IInv

-----------------------------------------------------------------------------
(* The ends of the two sides.                                              *)

LEMMA ServerEndsStep ==
  ASSUME IInv, ServerEnds
  PROVE  IInv'
<1>1. /\ server' = "closed"
      /\ UNCHANGED <<request, client, supports_heartbeat, wires, purpose, inbuf, task, local>>
      /\ srv' = [s \in Streams |-> IF srv[s] \in Opened THEN "failed" ELSE srv[s]]
  BY DEF ServerEnds
<1>2. TypeOK' BY <1>1 DEF IInv, TypeOK, wires, Opened
<1>3. ServerSide' BY <1>1 DEF ServerSide, Opened
<1>4. ClientSide'
  <2>1. server = "reading" => to_client = <<>> BY DEF IInv, ServerSide
  <2>2. client = "awaiting" => Answer' BY <1>1, <2>1 DEF IInv, ClientSide, Answer, wires
  <2> QED BY <1>1, <2>2 DEF IInv, ClientSide, wires
<1>5. ASSUME NEW s \in Streams PROVE Stream(s)'
  <2>1. srv'[s] = srv[s] \/ (srv[s] \in Opened /\ srv'[s] \in {"answered", "failed"}) BY <1>1
  <2> QED BY <1>1, <2>1, SameStream DEF wires
<1> QED BY <1>2, <1>3, <1>4, <1>5 DEF IInv

(* The client's end of a stream moves on; the server's does not. *)
LEMMA StreamMoves ==
  ASSUME IInv, NEW s \in Streams,
         supports_heartbeat' = supports_heartbeat, purpose'[s] = purpose[s], srv'[s] = srv[s],
         \A h, n : Len(h) \in Nat /\ n \in Nat /\ Story(s, h) /\ Arrived(s, h, n) => Arrived(s, h, n)',
         to_client' = to_client, Purposes(s)'
  PROVE  Stream(s)'
<1>1. PICK h \in Seq(Words), n \in Nat :
        Story(s, h) /\ Arrived(s, h, n) /\ Carries(to_client, s, h, n)
  BY DEF IInv, Stream
<1>2. Whole(s)' = Whole(s) /\ \A i : Word(s, i)' = Word(s, i) BY DEF Whole, Word
<1>3. Story(s, h)' BY <1>1, <1>2 DEF Story, Begun
<1>4. Len(h) \in Nat BY LenProperties
<1>5. Arrived(s, h, n)' BY <1>1, <1>4
<1> QED BY <1>1, <1>3, <1>5 DEF Stream

(* Its task ends: what it has not read is of no interest. *)
LEMMA StreamGone ==
  ASSUME IInv, NEW s \in Streams,
         UNCHANGED <<supports_heartbeat, to_client, purpose, srv>>,
         task[s] # "none", task'[s] = "gone", local'[s] = local[s]
  PROVE  Stream(s)'
<1>1. Purposes(s) BY DEF IInv, Stream
<1>2. Purposes(s)' BY <1>1 DEF Purposes
<1>3. \A h, n : Len(h) \in Nat /\ n \in Nat /\ Story(s, h) /\ Arrived(s, h, n) => Arrived(s, h, n)'
  BY DEF Arrived
<1> QED BY <1>2, <1>3, StreamMoves

LEMMA ClientEndsStep ==
  ASSUME IInv, ClientEnds
  PROVE  IInv'
<1>1. /\ client' = "closed"
      /\ UNCHANGED <<request, server, supports_heartbeat, wires, purpose, srv, inbuf, local>>
      /\ task' = [s \in Streams |-> IF task[s] = "none" THEN "none" ELSE "gone"]
  BY DEF ClientEnds
<1>2. TypeOK' BY <1>1 DEF IInv, TypeOK, wires
<1>3. ServerSide' BY <1>1 DEF IInv, ServerSide, wires
<1>4. ClientSide' BY <1>1 DEF IInv, ClientSide, wires
<1>5. ASSUME NEW s \in Streams PROVE Stream(s)'
  <2>1. CASE task[s] = "none"
    <3>1. task'[s] = task[s] BY <1>1, <2>1
    <3> QED BY <1>1, <3>1, SameStream DEF wires
  <2>2. CASE task[s] # "none"
    <3>1. task'[s] = "gone" BY <1>1, <2>2
    <3> QED BY <1>1, <2>2, <3>1, StreamGone DEF wires
  <2> QED BY <2>1, <2>2
<1> QED BY <1>2, <1>3, <1>4, <1>5 DEF IInv

-----------------------------------------------------------------------------
(* The server's end of a stream.                                           *)

(* The server writes to a stream: the other streams do not notice, nor     *)
(* does the handshake, whose answer is in front of every such frame.       *)
LEMMA WriteStep ==
  ASSUME IInv, NEW t \in Streams, NEW w \in Words, server = "serving", Write(t, w),
         UNCHANGED <<handshake, to_server, inbuf, task, local>>,
         purpose' \in [Streams -> {"proxy", "probe", None}],
         srv' \in [Streams -> Opened \cup {"free", "answered", "failed"}],
         \A s \in Streams \ {t} : purpose'[s] = purpose[s] /\ srv'[s] = srv[s],
         Stream(t)'
  PROVE  IInv'
<1> DEFINE u == Yamux(t, w)
<1>1. u \in Down /\ u.kind = "yamux" /\ u.stream = t BY DEF Yamux, Down
<1>2. u \in Units /\ u \in Pieces \cup Down BY <1>1, AllUnits, Zenon
<1> HIDE DEF u
<1>3. to_client' = Append(to_client, u) BY DEF Write, u
<1>4. to_client \in Seq(Units) /\ to_client \in Seq(Pieces \cup Down)
  BY DEF IInv, TypeOK, ClientSide
<1>5. to_client' \in Seq(Units) /\ to_client' \in Seq(Pieces \cup Down)
  BY <1>2, <1>3, <1>4, AppendProperties
<1>6. TypeOK' BY <1>5 DEF IInv, TypeOK, handshake
<1>7. ServerSide' BY DEF IInv, ServerSide, handshake
<1>8. ClientSide'
  <2>1. client = "serving" => to_client' \in Seq(Down)
    BY <1>1, <1>3, AppendProperties DEF IInv, ClientSide
  <2>2. ASSUME client = "awaiting" PROVE Answer'
    <3>1. PICK ok \in BOOLEAN : \E rest \in Seq(Down) :
            AuthRes(request, ok) \in Sendable /\ to_client = Frame(AuthRes(request, ok)) \o rest
      BY <2>2 DEF IInv, ClientSide, Answer
    <3> DEFINE a == AuthRes(request, ok)
    <3>2. PICK rest \in Seq(Down) : a \in Sendable /\ to_client = Frame(a) \o rest BY <3>1
    <3>3. Append(rest, u) \in Seq(Down) BY <1>1, AppendProperties
    <3>4. Frame(a) \in Seq(Pieces \cup Down) /\ rest \in Seq(Pieces \cup Down)
      <4>1. a \in Messages BY <3>2 DEF Sendable
      <4>2. Frame(a) \in Seq(Pieces) BY <4>1, FrameUnits
      <4> QED BY <4>2, AllUnits, Zenon
    <3>5. to_client' = Frame(a) \o Append(rest, u)
      <4> DEFINE f == Frame(a)
      <4> HIDE DEF f
      <4>1. <<u>> \in Seq(Pieces \cup Down) BY <1>2
      <4>2. f \in Seq(Pieces \cup Down) BY <3>4 DEF f
      <4>3. (f \o rest) \o <<u>> = f \o (rest \o <<u>>)
        BY <3>4, <4>1, <4>2, ConcatAssociative
      <4>4. Append(rest, u) = rest \o <<u>> BY <3>4, <1>2, AppendIsConcat
      <4>5. Append(to_client, u) = to_client \o <<u>> BY <1>2, <1>4, AppendIsConcat
      <4> QED BY <1>3, <3>2, <4>3, <4>4, <4>5 DEF f
    <3>6. server # "reading" /\ supports_heartbeat = request.version
      BY <2>2 DEF IInv, ClientSide, Answer
    <3>7. UNCHANGED <<request, server, supports_heartbeat>> BY DEF handshake
    <3> QED BY <3>2, <3>3, <3>5, <3>6, <3>7 DEF Answer
  <2>3. client # "sending" BY DEF IInv, ServerSide
  <2> QED BY <1>5, <2>1, <2>2, <2>3 DEF IInv, ClientSide, handshake
<1>9. ASSUME NEW s \in Streams \ {t} PROVE Stream(s)'
  <2>1. \A h, n : Len(h) \in Nat /\ n \in Nat /\ Carries(to_client, s, h, n)
                    => Carries(to_client', s, h, n)
    BY <1>1, <1>2, <1>3, <1>4, CarriesOther
  <2>2. purpose'[s] = purpose[s] /\ srv'[s] = srv[s] OBVIOUS
  <2> QED BY <2>1, <2>2, SameStream DEF handshake
<1> QED BY <1>6, <1>7, <1>8, <1>9 DEF IInv

(* The story of a stream goes on by one word. *)
LEMMA StoryGrows ==
  ASSUME NEW s \in Streams, NEW h, Story(s, h), NEW w \in Words, h # <<>>,
         supports_heartbeat' = supports_heartbeat, purpose'[s] = purpose[s],
         w = "reset" \/ (Len(h) + 1 <= Whole(s) /\ w = Word(s, Len(h) + 1)),
         srv'[s] # "free",
         srv'[s] \in Opened => srv[s] \in Opened /\ w # "reset" /\ Len(h) + 1 = Begun(s)'
  PROVE  Story(s, Append(h, w))'
<1> DEFINE g == Append(h, w)
<1>1. h \in Seq(Words) BY DEF Story
<1>2. /\ g \in Seq(Words) /\ Len(h) \in Nat /\ Len(h) > 0 /\ Len(g) = Len(h) + 1 /\ g # <<>>
      /\ g[Len(h) + 1] = w /\ \A i \in 1 .. Len(h) : g[i] = h[i]
  BY <1>1, AppendProperties, LenProperties, EmptySeq
<1>3. DOMAIN h = 1 .. Len(h) /\ DOMAIN g = 1 .. Len(h) + 1 BY <1>1, <1>2, LenProperties
<1> HIDE DEF g
<1>4. Whole(s)' = Whole(s) /\ \A i : Word(s, i)' = Word(s, i) BY DEF Whole, Word
<1>5. g[1] = "open" BY <1>2 DEF Story
<1>6. \A i \in DOMAIN g : g[i] = "reset" \/ (i <= Whole(s)' /\ g[i] = Word(s, i)')
  <2> TAKE i \in DOMAIN g
  <2>1. CASE i = Len(h) + 1 BY <1>2, <1>4, <2>1
  <2>2. CASE i # Len(h) + 1
    <3>1. i \in 1 .. Len(h) BY <1>2, <1>3, <2>2
    <3>2. g[i] = h[i] /\ i \in DOMAIN h BY <1>2, <1>3, <3>1
    <3> QED BY <1>4, <3>2 DEF Story
  <2> QED BY <2>1, <2>2
<1>7. ASSUME srv'[s] \in Opened
      PROVE  Len(g) = Begun(s)' /\ \A i \in DOMAIN g : g[i] # "reset"
  <2>1. \A i \in 1 .. Len(h) : h[i] # "reset" BY <1>3, <1>7 DEF Story
  <2>2. \A i \in DOMAIN g : i = Len(h) + 1 \/ i \in 1 .. Len(h) BY <1>2, <1>3
  <2> QED BY <1>2, <1>7, <2>1, <2>2
<1> QED BY <1>2, <1>5, <1>6, <1>7 DEF Story, g

(* The stream itself, when the server writes to it. *)
LEMMA StreamGrows ==
  ASSUME IInv, NEW t \in Streams, NEW w \in Words, Write(t, w), Purposes(t)',
         UNCHANGED <<handshake, inbuf, task, local>>,
         \A h \in Seq(Words) : Story(t, h) => Story(t, Append(h, w))'
  PROVE  Stream(t)'
<1>1. PICK h \in Seq(Words), n \in Nat :
        Story(t, h) /\ Arrived(t, h, n) /\ Carries(to_client, t, h, n)
  BY DEF IInv, Stream
<1> DEFINE g == Append(h, w)
<1>2. /\ g \in Seq(Words) /\ Len(h) \in Nat /\ Len(g) = Len(h) + 1
      /\ \A i \in 1 .. Len(h) : g[i] = h[i]
  BY AppendProperties, LenProperties
<1>3. Story(t, g)' BY <1>1
<1>4. n \in 0 .. Len(h) BY <1>1 DEF Arrived
<1>5. Carries(to_client', t, g, n)
  <2> DEFINE u == Yamux(t, w)
  <2>1. u \in Down /\ u.kind = "yamux" /\ u.stream = t /\ u.what = w BY DEF Yamux, Down
  <2>2. u \in Units /\ to_client \in Seq(Units) BY <2>1, AllUnits DEF IInv, TypeOK
  <2>3. to_client' = Append(to_client, u) BY DEF Write
  <2> HIDE DEF u
  <2> QED BY <1>1, <1>4, <2>1, <2>2, <2>3, CarriesOwn
<1> HIDE DEF g
<1>6. Used(t)' = Used(t) /\ Used(t) \in Nat /\ Used(t) > 0
  BY LenProperties DEF Used, IInv, TypeOK, handshake
<1>7. Arrived(t, g, n)'
  <2>1. inbuf[t] \in Seq(Upward \cup {"reset"}) /\ inbuf'[t] = inbuf[t] /\ task'[t] = task[t]
    BY DEF IInv, TypeOK
  <2>2. Len(inbuf[t]) \in Nat /\ DOMAIN inbuf[t] = 1 .. Len(inbuf[t]) BY <2>1, LenProperties
  <2>3. ASSUME task[t] \in {"marker", "connecting", "copying"}
        PROVE  /\ n = Used(t) + Len(inbuf[t])
               /\ \A i \in DOMAIN inbuf[t] : inbuf[t][i] = g[Used(t) + i]
    <3>1. /\ n = Used(t) + Len(inbuf[t])
          /\ \A i \in DOMAIN inbuf[t] : inbuf[t][i] = h[Used(t) + i]
      BY <1>1, <2>3 DEF Arrived
    <3>2. \A i \in DOMAIN inbuf[t] : Used(t) + i \in 1 .. Len(h) BY <1>2, <1>4, <1>6, <2>2, <3>1
    <3> QED BY <1>2, <3>1, <3>2
  <2>4. n \in 0 .. Len(g) BY <1>2, <1>4
  <2>5. (task[t] = "none" => n = 0 /\ inbuf[t] = <<>>) /\ (task[t] # "none" => n > 0)
    BY <1>1 DEF Arrived
  <2> QED BY <1>6, <2>1, <2>3, <2>4, <2>5 DEF Arrived
<1> QED BY <1>2, <1>3, <1>4, <1>5, <1>7 DEF Stream

(* A new stream begins with a frame that opens it. *)
LEMMA OpenStreamStep ==
  ASSUME IInv, NEW t \in Streams, OpenStream(t)
  PROVE  IInv'
<1>1. /\ server = "serving" /\ srv[t] = "free" /\ Write(t, "open")
      /\ UNCHANGED <<handshake, to_server, inbuf, task, local>>
  BY DEF OpenStream
<1>2. PICK p \in {"proxy", "probe"} :
        purpose' = [purpose EXCEPT ![t] = p] /\ (p = "probe" => supports_heartbeat)
  BY DEF OpenStream
<1>3. srv' = [srv EXCEPT ![t] = "opened"] BY DEF OpenStream, Becomes
<1>4. /\ purpose' \in [Streams -> {"proxy", "probe", None}] /\ purpose'[t] = p
      /\ srv' \in [Streams -> Opened \cup {"free", "answered", "failed"}] /\ srv'[t] = "opened"
      /\ \A s \in Streams \ {t} : purpose'[s] = purpose[s] /\ srv'[s] = srv[s]
  BY <1>2, <1>3 DEF IInv, TypeOK, Opened
<1>5. "open" \in Words BY DEF Words
<1>6. Unused(t) BY <1>1, FreeUnused
<1>7. Purposes(t)'
  <2>1. p # None BY LinkAssumption
  <2>2. UNCHANGED <<supports_heartbeat, task, local>> BY <1>1 DEF handshake
  <2> QED BY <1>2, <1>4, <1>6, <2>1, <2>2 DEF Purposes, Unused
<1>8. \A h \in Seq(Words) : Story(t, h) => Story(t, Append(h, "open"))'
  <2> SUFFICES ASSUME NEW h \in Seq(Words), Story(t, h) PROVE Story(t, Append(h, "open"))' OBVIOUS
  <2> DEFINE g == Append(h, "open")
  <2>1. h = <<>> /\ Len(h) = 0 BY <1>1 DEF Story
  <2>2. g \in Seq(Words) /\ Len(g) = 1 /\ g[1] = "open" BY <1>5, <2>1, AppendProperties
  <2>3. DOMAIN g = {1} /\ g # <<>> BY <2>2, LenProperties, EmptySeq
  <2> HIDE DEF g
  <2>4. 1 <= Whole(t)' /\ Word(t, 1)' = "open" BY DEF Whole, Word
  <2>5. Begun(t)' = 1 BY <1>4 DEF Begun
  <2> QED BY <1>4, <2>2, <2>3, <2>4, <2>5 DEF Story, g
<1>9. Stream(t)' BY <1>1, <1>5, <1>7, <1>8, StreamGrows
<1> QED BY <1>1, <1>4, <1>5, <1>9, WriteStep

(* What is so while a stream is open at the server's end. *)
LEMMA OpenFacts ==
  ASSUME IInv, NEW t \in Streams, srv[t] \in Opened
  PROVE  /\ server = "serving" /\ Purposes(t) /\ purpose[t] \in {"proxy", "probe"}
         /\ Whole(t) \in {2, 3}
         /\ \A h \in Seq(Words) : Story(t, h) => Len(h) = Begun(t) /\ h # <<>>
<1>1. server = "serving" BY DEF IInv, ServerSide
<1>2. Purposes(t) BY DEF IInv, Stream
<1>3. purpose[t] # None BY <1>2 DEF Purposes, Opened
<1>4. \A h \in Seq(Words) : Story(t, h) => Len(h) = Begun(t) /\ h # <<>> BY DEF Story, Opened
<1> QED BY <1>1, <1>2, <1>3, <1>4 DEF Whole, IInv, TypeOK

(* The next word of an open stream. *)
LEMMA NextWordStep ==
  ASSUME IInv, NEW t \in Streams, srv[t] \in Opened, NEW w \in Words, Write(t, w),
         NEW l \in Opened \cup {"failed"}, Becomes(t, l),
         UNCHANGED <<handshake, to_server, purpose, inbuf, task, local>>,
         IF l = "failed" THEN w = "reset"
         ELSE /\ w = Word(t, Begun(t) + 1) /\ w # "reset" /\ Begun(t) + 1 <= Whole(t)
              /\ Begun(t)' = Begun(t) + 1 /\ (l = "marked" => purpose[t] = "proxy")
  PROVE  IInv'
<1>1. /\ server = "serving" /\ Purposes(t) /\ purpose[t] \in {"proxy", "probe"}
      /\ \A h \in Seq(Words) : Story(t, h) => Len(h) = Begun(t) /\ h # <<>>
  BY OpenFacts
<1>2. /\ srv' \in [Streams -> Opened \cup {"free", "answered", "failed"}] /\ srv'[t] = l
      /\ \A s \in Streams \ {t} : srv'[s] = srv[s]
      /\ purpose' \in [Streams -> {"proxy", "probe", None}]
  BY DEF Becomes, IInv, TypeOK, Opened
<1>3. l # "free" BY DEF Opened
<1>4. supports_heartbeat' = supports_heartbeat BY DEF handshake
<1>5. Purposes(t)'
  <2>1. srv[t] # "free" BY DEF Opened
  <2> QED BY <1>1, <1>2, <1>3, <1>4, <2>1 DEF Purposes
<1>6. \A h \in Seq(Words) : Story(t, h) => Story(t, Append(h, w))'
  <2> SUFFICES ASSUME NEW h \in Seq(Words), Story(t, h) PROVE Story(t, Append(h, w))' OBVIOUS
  <2>1. Len(h) = Begun(t) /\ h # <<>> BY <1>1
  <2>2. w = "reset" \/ (Len(h) + 1 <= Whole(t) /\ w = Word(t, Len(h) + 1)) BY <2>1
  <2>3. srv'[t] # "free" BY <1>2, <1>3
  <2>4. srv'[t] \in Opened => srv[t] \in Opened /\ w # "reset" /\ Len(h) + 1 = Begun(t)'
    BY <1>2, <2>1 DEF Opened
  <2> QED BY <1>4, <2>1, <2>2, <2>3, <2>4, StoryGrows
<1>7. Stream(t)' BY <1>5, <1>6, StreamGrows
<1> QED BY <1>1, <1>2, <1>7, WriteStep

(* The marker goes to a client that knows it; for a legacy one the request *)
(* comes next.                                                             *)
LEMMA MarkRequestStep ==
  ASSUME IInv, NEW t \in Streams, MarkRequest(t)
  PROVE  IInv'
<1>1. /\ srv[t] = "opened" /\ srv[t] \in Opened /\ purpose[t] = "proxy" /\ Becomes(t, "marked")
      /\ UNCHANGED <<handshake, to_server, purpose, inbuf, task, local>>
  BY DEF MarkRequest, Opened
<1>2. srv'[t] = "marked" /\ srv' \in [Streams -> Opened \cup {"free", "answered", "failed"}]
      /\ \A s \in Streams \ {t} : srv'[s] = srv[s]
  BY <1>1 DEF Becomes, IInv, TypeOK, Opened
<1>3. CASE supports_heartbeat
  <2>1. Write(t, PROXY) BY <1>3 DEF MarkRequest
  <2>2. PROXY \in Words /\ PROXY # "reset" BY DEF Words, Upward, PROXY
  <2>3. Whole(t) = 3 /\ Whole(t)' = 3 BY <1>1, <1>3 DEF Whole, handshake
  <2>4. Begun(t) = 1 /\ Begun(t)' = 2 BY <1>1, <1>2, <2>3 DEF Begun
  <2>5. Word(t, 2) = PROXY BY <1>1, <2>3 DEF Word
  <2>6. PROXY = Word(t, Begun(t) + 1) /\ Begun(t) + 1 <= Whole(t) /\ Begun(t)' = Begun(t) + 1
    BY <2>3, <2>4, <2>5
  <2>7. "marked" \in Opened BY DEF Opened
  <2> QED BY <1>1, <2>1, <2>2, <2>6, <2>7, NextWordStep
<1>4. CASE ~supports_heartbeat
  <2>1. to_client' = to_client BY <1>4 DEF MarkRequest
  <2>2. Whole(t) = 2 /\ Whole(t)' = 2 BY <1>1, <1>4 DEF Whole, handshake
  <2>3. Begun(t) = 1 /\ Begun(t)' = 1 BY <1>1, <1>2, <2>2 DEF Begun
  <2>4. TypeOK' BY <1>1, <1>2, <2>1 DEF IInv, TypeOK, handshake
  <2>5. server = "serving" BY <1>1, OpenFacts
  <2>6. ServerSide' BY <1>1, <2>5 DEF IInv, ServerSide, handshake
  <2>7. ClientSide'
    <3>1. Answer => Answer' BY <1>1, <2>1 DEF Answer, handshake
    <3> QED BY <1>1, <2>1, <3>1 DEF IInv, ClientSide, handshake
  <2>8. ASSUME NEW s \in Streams \ {t} PROVE Stream(s)'
    <3>1. srv'[s] = srv[s] BY <1>2
    <3> QED BY <1>1, <2>1, <3>1, SameStream DEF handshake
  <2>9. Stream(t)'
    <3>1. PICK h \in Seq(Words), n \in Nat :
            Story(t, h) /\ Arrived(t, h, n) /\ Carries(to_client, t, h, n)
      BY DEF IInv, Stream
    <3>2. Purposes(t) BY DEF IInv, Stream
    <3>3. Purposes(t)' BY <1>1, <1>2, <3>2 DEF Purposes, handshake
    <3>4. Whole(t)' = Whole(t) /\ \A i : Word(t, i)' = Word(t, i)
      BY <1>1 DEF Whole, Word, handshake
    <3>5. Story(t, h)' BY <1>1, <1>2, <2>3, <3>1, <3>4 DEF Story
    <3>6. Arrived(t, h, n)' BY <1>1, <3>1 DEF Arrived, Used, handshake
    <3> QED BY <2>1, <3>1, <3>3, <3>5, <3>6 DEF Stream
  <2> QED BY <2>4, <2>6, <2>7, <2>8, <2>9 DEF IInv
<1> QED BY <1>3, <1>4

LEMMA SendRequestStep ==
  ASSUME IInv, NEW t \in Streams, SendRequest(t)
  PROVE  IInv'
<1>1. /\ srv[t] = "marked" /\ srv[t] \in Opened /\ Becomes(t, "waiting") /\ Write(t, "request")
      /\ UNCHANGED <<handshake, to_server, purpose, inbuf, task, local>>
  BY DEF SendRequest, Opened
<1>2. srv'[t] = "waiting" BY <1>1 DEF Becomes, IInv, TypeOK
<1>3. purpose[t] = "proxy" /\ Whole(t) \in {2, 3} BY <1>1, OpenFacts DEF Purposes
<1>4. Whole(t)' = Whole(t) BY <1>1 DEF Whole, handshake
<1>5. Begun(t) = Whole(t) - 1 /\ Begun(t)' = Whole(t) BY <1>1, <1>2, <1>4 DEF Begun
<1>6. Word(t, Whole(t)) = "request" BY <1>3 DEF Word
<1>7. Begun(t) + 1 = Whole(t) BY <1>3, <1>5
<1>8. "request" \in Words /\ "request" # "reset" /\ "waiting" \in Opened
  BY DEF Words, Upward, Opened
<1>9. /\ "request" = Word(t, Begun(t) + 1) /\ Begun(t) + 1 <= Whole(t)
      /\ Begun(t)' = Begun(t) + 1
  BY <1>3, <1>5, <1>6, <1>7
<1> QED BY <1>1, <1>8, <1>9, NextWordStep

LEMMA SendProbeStep ==
  ASSUME IInv, NEW t \in Streams, SendProbe(t)
  PROVE  IInv'
<1>1. /\ srv[t] = "opened" /\ srv[t] \in Opened /\ Becomes(t, "waiting") /\ Write(t, HEARTBEAT)
      /\ purpose[t] = "probe"
      /\ UNCHANGED <<handshake, to_server, purpose, inbuf, task, local>>
  BY DEF SendProbe, Opened
<1>2. srv'[t] = "waiting" BY <1>1 DEF Becomes, IInv, TypeOK
<1>3. Whole(t) = 2 /\ Whole(t)' = 2 BY <1>1 DEF Whole
<1>4. Begun(t) = 1 /\ Begun(t)' = 2 BY <1>1, <1>2, <1>3 DEF Begun
<1>5. Word(t, 2) = HEARTBEAT BY <1>1 DEF Word
<1>6. HEARTBEAT \in Words /\ HEARTBEAT # "reset" /\ "waiting" \in Opened
  BY DEF Words, Upward, Opened, HEARTBEAT
<1>7. /\ HEARTBEAT = Word(t, Begun(t) + 1) /\ Begun(t) + 1 <= Whole(t)
      /\ Begun(t)' = Begun(t) + 1
  BY <1>3, <1>4, <1>5
<1> QED BY <1>1, <1>6, <1>7, NextWordStep

LEMMA DropStreamStep ==
  ASSUME IInv, NEW t \in Streams, DropStream(t)
  PROVE  IInv'
<1>1. /\ srv[t] \in Opened /\ Becomes(t, "failed") /\ Write(t, "reset")
      /\ UNCHANGED <<handshake, to_server, purpose, inbuf, task, local>>
  BY DEF DropStream
<1>2. "reset" \in Words BY DEF Words
<1> QED BY <1>1, <1>2, NextWordStep

(* An answer of the client ends a stream, which keeps what it has read. *)
LEMMA ReceiveStep ==
  ASSUME IInv, Receive
  PROVE  IInv'
<1> DEFINE u == Head(to_server)
<1>1. /\ server = "serving" /\ to_server # <<>> /\ to_server' = Tail(to_server)
      /\ UNCHANGED <<handshake, to_client, purpose, inbuf, task, local>>
  BY DEF Receive
<1>2. to_server \in Seq(Up) BY <1>1 DEF IInv, ServerSide
<1>3. u \in Up /\ to_server' \in Seq(Up) BY <1>1, <1>2, HeadTailProperties
<1>4. u.stream \in Streams BY <1>3 DEF Up
<1> HIDE DEF u
<1>5. \/ srv' = srv
      \/ /\ srv[u.stream] \in Opened
         /\ \E l \in {"answered", "failed"} : srv' = [srv EXCEPT ![u.stream] = l]
  BY DEF Receive, Becomes, u
<1>6. \A s \in Streams :
        srv'[s] = srv[s] \/ (srv[s] \in Opened /\ srv'[s] \in {"answered", "failed"})
  BY <1>4, <1>5 DEF IInv, TypeOK
<1>7. srv' \in [Streams -> Opened \cup {"free", "answered", "failed"}]
  BY <1>4, <1>5 DEF IInv, TypeOK
<1>8. to_server' \in Seq(Units) BY <1>3, AllUnits
<1>9. TypeOK' BY <1>1, <1>7, <1>8 DEF IInv, TypeOK, handshake
<1>10. ServerSide' BY <1>1, <1>3 DEF IInv, ServerSide, handshake
<1>11. ClientSide'
  <2>1. client # "sending" BY <1>1 DEF IInv, ServerSide
  <2>2. Answer => Answer' BY <1>1 DEF Answer, handshake
  <2> QED BY <1>1, <2>1, <2>2 DEF IInv, ClientSide, handshake
<1>12. ASSUME NEW s \in Streams PROVE Stream(s)' BY <1>1, <1>6, SameStream DEF handshake
<1> QED BY <1>9, <1>10, <1>11, <1>12 DEF IInv

-----------------------------------------------------------------------------
(* The client's end of a stream.                                           *)

(* The first word is "open", and no other is. *)
LEMMA OpenIsFirst ==
  ASSUME NEW s \in Streams, NEW h, Story(s, h), NEW i \in DOMAIN h
  PROVE  h[i] = "open" <=> i = 1
<1>1. i # 1 => Word(s, i) # "open" BY DEF Word, PROXY, HEARTBEAT
<1>2. h # <<>> /\ i \in Nat
  <2>1. h \in Seq(Words) /\ DOMAIN h = 1 .. Len(h) BY LenProperties DEF Story
  <2>2. Len(h) \in Nat /\ i \in 1 .. Len(h) BY <2>1, LenProperties
  <2>3. Len(h) # 0 BY <2>2
  <2> QED BY <2>1, <2>2, <2>3, EmptySeq
<1> QED BY <1>1, <1>2 DEF Story

(* A frame is delivered: it is the next word of its stream.  The first one *)
(* starts the task, the others are kept for it.                            *)
LEMMA DeliverStream ==
  ASSUME IInv, Deliver, NEW t \in Streams, Head(to_client).stream = t
  PROVE  /\ Stream(t)'
         /\ Head(to_client).what # "open" => Head(to_client).what \in Upward \cup {"reset"}
<1> DEFINE u == Head(to_client)
<1>1. /\ client = "serving" /\ to_client # <<>> /\ u.kind = "yamux" /\ to_client' = Tail(to_client)
      /\ UNCHANGED <<handshake, to_server, purpose, srv, local>>
      /\ IF u.what = "open"
         THEN /\ task' = [task EXCEPT ![t] = IF request.version THEN "marker" ELSE "connecting"]
              /\ inbuf' = inbuf
         ELSE inbuf' = [inbuf EXCEPT ![t] = Append(@, u.what)] /\ task' = task
  BY DEF Deliver, Moves
<1>2. PICK h \in Seq(Words), n \in Nat :
        Story(t, h) /\ Arrived(t, h, n) /\ Carries(to_client, t, h, n)
  BY DEF IInv, Stream
<1>3. Purposes(t) BY DEF IInv, Stream
<1>4. to_client \in Seq(Units) /\ Len(h) \in Nat /\ DOMAIN h = 1 .. Len(h)
  BY LenProperties DEF IInv, TypeOK
<1>5. /\ n + 1 \in 1 .. Len(h) /\ u.what = h[n + 1] /\ Carries(to_client', t, h, n + 1)
  <2>1. u.stream = t OBVIOUS
  <2>2. /\ n + 1 \in 1 .. Len(h) /\ Head(to_client).what = h[n + 1]
        /\ Carries(Tail(to_client), t, h, n + 1)
    BY <1>1, <1>2, <1>4, <2>1, CarriesTailOwn
  <2> QED BY <1>1, <2>2
<1>6. u.what = "open" <=> n = 0 BY <1>2, <1>4, <1>5, OpenIsFirst
<1>7. u.what \in Words BY <1>4, <1>5
<1> HIDE DEF u
<1>8. supports_heartbeat' = supports_heartbeat /\ request.version = supports_heartbeat
  BY <1>1 DEF handshake, IInv, ClientSide
<1>9. Whole(t)' = Whole(t) /\ \A i : Word(t, i)' = Word(t, i) BY <1>1, <1>8 DEF Whole, Word
<1>10. Story(t, h)' BY <1>1, <1>2, <1>9 DEF Story, Begun
<1>11. /\ task[t] \in {"none", "marker", "connecting", "copying", "gone"}
       /\ inbuf[t] \in Seq(Upward \cup {"reset"}) /\ local[t] \in Seq(Upward)
       /\ purpose[t] \in {"proxy", "probe", None}
  BY DEF IInv, TypeOK
<1>12. CASE n = 0
  <2>1. task[t] = "none" /\ inbuf[t] = <<>> /\ local[t] = <<>>
    BY <1>2, <1>3, <1>12 DEF Arrived, Purposes
  <2>2. /\ inbuf'[t] = <<>> /\ local'[t] = <<>>
        /\ task'[t] = IF supports_heartbeat THEN "marker" ELSE "connecting"
    BY <1>1, <1>6, <1>8, <1>12, <2>1 DEF IInv, TypeOK
  <2>3. Used(t)' = 1 BY <1>8, <2>2 DEF Used
  <2>4. Arrived(t, h, 1)'
    <3>1. 1 \in 0 .. Len(h) /\ 1 > 0 /\ 1 = 1 + 0 BY <1>4, <1>5, <1>12
    <3>2. Len(<<>>) = 0 /\ DOMAIN <<>> = {} OBVIOUS
    <3>3. task'[t] # "none" BY <2>2
    <3> QED BY <2>2, <2>3, <3>1, <3>2, <3>3 DEF Arrived
  <2>5. srv[t] # "free" /\ purpose[t] # None
    <3>1. h # <<>> BY <1>4, <1>5, EmptySeq
    <3> QED BY <1>2, <1>3, <3>1 DEF Story, Purposes
  <2>6. Purposes(t)' BY <1>1, <1>3, <1>8, <1>11, <2>2, <2>5 DEF Purposes
  <2>7. n + 1 = 1 BY <1>12
  <2> QED BY <1>5, <1>6, <1>10, <1>12, <2>4, <2>6, <2>7 DEF Stream, u
<1>13. CASE n # 0
  <2>1. /\ task'[t] = task[t] /\ local'[t] = local[t] /\ task[t] # "none"
        /\ inbuf'[t] = Append(inbuf[t], u.what)
    BY <1>1, <1>2, <1>6, <1>13 DEF Arrived, IInv, TypeOK
  <2>2. u.what \in Upward \cup {"reset"} BY <1>6, <1>7, <1>13 DEF Words
  <2>3. /\ Len(inbuf[t]) \in Nat /\ Len(inbuf'[t]) = Len(inbuf[t]) + 1
        /\ DOMAIN inbuf[t] = 1 .. Len(inbuf[t]) /\ DOMAIN inbuf'[t] = 1 .. Len(inbuf[t]) + 1
        /\ inbuf'[t][Len(inbuf[t]) + 1] = u.what
        /\ \A i \in 1 .. Len(inbuf[t]) : inbuf'[t][i] = inbuf[t][i]
    <3> DEFINE b == inbuf[t]
               e == u.what
               S == Upward \cup {"reset"}
    <3>1. b \in Seq(S) /\ e \in S BY <1>11, <2>2
    <3> HIDE DEF b, e, S
    <3>2. /\ Append(b, e) \in Seq(S) /\ Len(Append(b, e)) = Len(b) + 1
          /\ Append(b, e)[Len(b) + 1] = e /\ \A i \in 1 .. Len(b) : Append(b, e)[i] = b[i]
      BY <3>1, AppendProperties
    <3>3. Len(b) \in Nat /\ DOMAIN b = 1 .. Len(b) /\ DOMAIN Append(b, e) = 1 .. Len(Append(b, e))
      BY <3>1, <3>2, LenProperties
    <3> QED BY <2>1, <3>2, <3>3 DEF b, e
  <2>4. Used(t)' = Used(t) /\ Used(t) \in Nat
    <3>1. Used(t)' = Used(t) BY <1>8, <2>1 DEF Used
    <3> QED BY <3>1, UsedNat
  <2>5. ASSUME task[t] \in {"marker", "connecting", "copying"}
        PROVE  /\ n + 1 = Used(t) + Len(inbuf'[t])
               /\ \A i \in DOMAIN inbuf'[t] : inbuf'[t][i] = h[Used(t) + i]
    <3>1. /\ n = Used(t) + Len(inbuf[t])
          /\ \A i \in 1 .. Len(inbuf[t]) : inbuf[t][i] = h[Used(t) + i]
      BY <1>2, <2>3, <2>5 DEF Arrived
    <3>2. n + 1 = Used(t) + Len(inbuf'[t]) BY <2>3, <2>4, <3>1
    <3>3. Used(t) + (Len(inbuf[t]) + 1) = n + 1 BY <2>3, <2>4, <3>1
    <3>4. ASSUME NEW i \in DOMAIN inbuf'[t] PROVE inbuf'[t][i] = h[Used(t) + i]
      <4>1. CASE i = Len(inbuf[t]) + 1 BY <1>5, <2>3, <3>3, <4>1
      <4>2. CASE i \in 1 .. Len(inbuf[t]) BY <2>3, <3>1, <4>2
      <4> QED BY <2>3, <4>1, <4>2
    <3> QED BY <3>2, <3>4
  <2>6. n + 1 \in 0 .. Len(h) /\ n + 1 > 0 /\ n + 1 \in Nat BY <1>4, <1>5
  <2>7. Arrived(t, h, n + 1)' BY <2>1, <2>4, <2>5, <2>6 DEF Arrived
  <2>8. Purposes(t)' BY <1>1, <1>3, <1>8, <2>1 DEF Purposes
  <2> QED BY <1>5, <1>10, <2>2, <2>6, <2>7, <2>8 DEF Stream, u
<1> QED BY <1>12, <1>13

LEMMA DeliverStep ==
  ASSUME IInv, Deliver
  PROVE  IInv'
<1> DEFINE u == Head(to_client)
<1>1. /\ client = "serving" /\ to_client # <<>> /\ u.kind = "yamux" /\ to_client' = Tail(to_client)
      /\ UNCHANGED <<handshake, to_server, purpose, srv, local>>
      /\ IF u.what = "open"
         THEN /\ task' = [task EXCEPT ![u.stream] = IF request.version THEN "marker" ELSE "connecting"]
              /\ inbuf' = inbuf
         ELSE inbuf' = [inbuf EXCEPT ![u.stream] = Append(@, u.what)] /\ task' = task
  BY DEF Deliver, Moves
<1>2. to_client \in Seq(Down) /\ server # "reading" BY <1>1 DEF IInv, ClientSide
<1>3. u \in Down /\ to_client' \in Seq(Down) BY <1>1, <1>2, HeadTailProperties
<1>4. PICK t \in Streams : u.stream = t BY <1>3 DEF Down
<1>5. to_client' \in Seq(Units) /\ to_client' \in Seq(Pieces \cup Down)
  BY <1>3, AllUnits, Zenon
<1>6. Stream(t)' /\ (u.what # "open" => u.what \in Upward \cup {"reset"}) BY <1>4, DeliverStream
<1> HIDE DEF u
<1>7. task' \in [Streams -> {"none", "marker", "connecting", "copying", "gone"}]
  BY <1>1, <1>4 DEF IInv, TypeOK
<1>8. inbuf' \in [Streams -> Seq(Upward \cup {"reset"})]
  <2>1. inbuf[t] \in Seq(Upward \cup {"reset"}) BY <1>4 DEF IInv, TypeOK
  <2>2. u.what # "open" => Append(inbuf[t], u.what) \in Seq(Upward \cup {"reset"})
    BY <1>6, <2>1, AppendProperties
  <2> QED BY <1>1, <1>4, <2>2 DEF IInv, TypeOK
<1>9. TypeOK' BY <1>1, <1>5, <1>7, <1>8 DEF IInv, TypeOK, handshake
<1>10. ServerSide' BY <1>1, <1>2 DEF IInv, ServerSide, handshake
<1>11. ClientSide' BY <1>1, <1>3, <1>5 DEF IInv, ClientSide, handshake
<1>12. ASSUME NEW s \in Streams \ {t} PROVE Stream(s)'
  <2>1. task'[s] = task[s] /\ inbuf'[s] = inbuf[s] BY <1>1, <1>4 DEF IInv, TypeOK
  <2>2. u.stream # s BY <1>4
  <2>3. \A h, n : Len(h) \in Nat /\ n \in Nat /\ Carries(to_client, s, h, n)
                    => Carries(to_client', s, h, n)
    BY <1>1, <1>2, <2>2, CarriesTailOther DEF u
  <2> QED BY <1>1, <2>1, <2>3, SameStream DEF handshake
<1> QED BY <1>6, <1>9, <1>10, <1>11, <1>12 DEF IInv

(* A task moves on and may write to the server: the handshake is over, and *)
(* the other streams do not notice.                                        *)
LEMMA TaskStep ==
  ASSUME IInv, NEW t \in Streams, task[t] # "none",
         UNCHANGED <<handshake, to_client, purpose, srv>>,
         task' \in [Streams -> {"none", "marker", "connecting", "copying", "gone"}],
         inbuf' \in [Streams -> Seq(Upward \cup {"reset"})],
         local' \in [Streams -> Seq(Upward)],
         to_server' = to_server \/ \E us \in Seq(Up) : to_server' = to_server \o us,
         \A s \in Streams \ {t} : task'[s] = task[s] /\ inbuf'[s] = inbuf[s] /\ local'[s] = local[s],
         Stream(t)'
  PROVE  IInv'
<1>1. server # "reading" /\ client \notin {"sending", "awaiting"}
  <2>1. server = "reading" => task[t] = "none" BY FreeUnused DEF IInv, ServerSide, Unused
  <2> QED BY <2>1 DEF IInv, ClientSide
<1>2. to_server' \in Seq(Units)
  <2>1. to_server \in Seq(Units) BY DEF IInv, TypeOK
  <2>2. ASSUME NEW us \in Seq(Up) PROVE to_server \o us \in Seq(Units)
    <3>1. us \in Seq(Units) BY AllUnits, Zenon
    <3> QED BY <2>1, <3>1, ConcatProperties
  <2> QED BY <2>1, <2>2
<1>3. server = "serving" => to_server' \in Seq(Up)
  <2>1. server = "serving" => to_server \in Seq(Up) BY DEF IInv, ServerSide
  <2>2. ASSUME NEW us \in Seq(Up), to_server \in Seq(Up) PROVE to_server \o us \in Seq(Up)
    BY <2>2, ConcatProperties
  <2> QED BY <2>1, <2>2
<1>4. TypeOK' BY <1>2 DEF IInv, TypeOK, handshake
<1>5. ServerSide' BY <1>1, <1>3 DEF IInv, ServerSide, handshake
<1>6. ClientSide' BY <1>1 DEF IInv, ClientSide, handshake
<1>7. ASSUME NEW s \in Streams \ {t} PROVE Stream(s)'
  <2>1. task'[s] = task[s] /\ inbuf'[s] = inbuf[s] /\ local'[s] = local[s] OBVIOUS
  <2> QED BY <2>1, SameStream DEF handshake
<1> QED BY <1>4, <1>5, <1>6, <1>7 DEF IInv

(* What the client writes. *)
LEMMA ReplyUnits ==
  ASSUME NEW t \in Streams, NEW v \in Replies, NEW w \in Replies
  PROVE  <<Yamux(t, v)>> \in Seq(Up) /\ <<Yamux(t, v), Yamux(t, w)>> \in Seq(Up)
<1>1. Yamux(t, v) \in Up /\ Yamux(t, w) \in Up BY DEF Yamux, Up
<1> DEFINE a == Yamux(t, v)
           b == Yamux(t, w)
<1> HIDE DEF a, b
<1>2. a \in Up /\ b \in Up BY <1>1 DEF a, b
<1>3. <<a>> \in Seq(Up) /\ <<a, b>> \in Seq(Up) BY <1>2
<1> QED BY <1>3 DEF a, b

(* A task ends. *)
LEMMA GoneStep ==
  ASSUME IInv, NEW t \in Streams, task[t] # "none", Moves(t, "gone"),
         UNCHANGED <<handshake, to_client, purpose, srv, local>>,
         inbuf' = inbuf \/ (inbuf[t] # <<>> /\ inbuf' = [inbuf EXCEPT ![t] = Tail(@)]),
         to_server' = to_server \/ \E us \in Seq(Up) : to_server' = to_server \o us
  PROVE  IInv'
<1>1. /\ task' \in [Streams -> {"none", "marker", "connecting", "copying", "gone"}]
      /\ task'[t] = "gone" /\ \A s \in Streams \ {t} : task'[s] = task[s]
  BY DEF Moves, IInv, TypeOK
<1>2. /\ inbuf' \in [Streams -> Seq(Upward \cup {"reset"})]
      /\ \A s \in Streams \ {t} : inbuf'[s] = inbuf[s]
  <2>1. inbuf[t] \in Seq(Upward \cup {"reset"}) BY DEF IInv, TypeOK
  <2>2. inbuf[t] # <<>> => Tail(inbuf[t]) \in Seq(Upward \cup {"reset"})
    BY <2>1, HeadTailProperties
  <2> QED BY <2>2 DEF IInv, TypeOK
<1>3. local' \in [Streams -> Seq(Upward)] /\ local' = local BY DEF IInv, TypeOK
<1>4. Stream(t)' BY <1>1, <1>3, StreamGone DEF handshake
<1> QED BY <1>1, <1>2, <1>3, <1>4, TaskStep

LEMMA MarkerTimeoutStep ==
  ASSUME IInv, NEW t \in Streams, MarkerTimeout(t)
  PROVE  IInv'
BY GoneStep, ReplyUnits DEF MarkerTimeout, Reply, Replies

LEMMA LocalEndsStep ==
  ASSUME IInv, NEW t \in Streams, LocalEnds(t)
  PROVE  IInv'
BY GoneStep, ReplyUnits DEF LocalEnds, Reply, Replies

(* What a task reads is the next word of the stream's story. *)
LEMMA NextRead ==
  ASSUME IInv, NEW t \in Streams, task[t] \in {"marker", "copying"}, inbuf[t] # <<>>,
         NEW h \in Seq(Words), NEW n \in Nat, Story(t, h), Arrived(t, h, n)
  PROVE  /\ Used(t) \in Nat /\ Used(t) > 0 /\ h # <<>>
         /\ Head(inbuf[t]) = h[Used(t) + 1] /\ Used(t) + 1 \in DOMAIN h
         /\ Tail(inbuf[t]) \in Seq(Upward \cup {"reset"})
         /\ n = Used(t) + 1 + Len(Tail(inbuf[t]))
         /\ \A i \in DOMAIN Tail(inbuf[t]) : Tail(inbuf[t])[i] = h[Used(t) + 1 + i]
<1> DEFINE b == inbuf[t]
           k == Used(t)
<1>1. b \in Seq(Upward \cup {"reset"}) /\ b # <<>> /\ local[t] \in Seq(Upward)
  BY DEF IInv, TypeOK
<1>2. k \in Nat /\ k > 0 BY UsedNat
<1>3. n = k + Len(b) /\ n <= Len(h) /\ \A i \in DOMAIN b : b[i] = h[k + i] BY DEF Arrived
<1> HIDE DEF b, k
<1>4. /\ Len(b) \in Nat /\ Len(b) > 0 /\ DOMAIN b = 1 .. Len(b) /\ Head(b) = b[1]
      /\ Tail(b) \in Seq(Upward \cup {"reset"}) /\ Len(Tail(b)) = Len(b) - 1
      /\ DOMAIN Tail(b) = 1 .. Len(b) - 1 /\ \A i \in 1 .. Len(b) - 1 : Tail(b)[i] = b[i + 1]
  BY <1>1, HeadTailProperties, LenProperties, EmptySeq
<1>5. Len(h) \in Nat /\ DOMAIN h = 1 .. Len(h) BY LenProperties
<1>6. Head(b) = h[k + 1] /\ k + 1 \in DOMAIN h BY <1>2, <1>3, <1>4, <1>5
<1>7. n = k + 1 + Len(Tail(b)) BY <1>2, <1>3, <1>4
<1>8. \A i \in DOMAIN Tail(b) : Tail(b)[i] = h[k + 1 + i]
  <2> TAKE i \in DOMAIN Tail(b)
  <2>1. i \in 1 .. Len(b) - 1 /\ i + 1 \in DOMAIN b /\ k + (i + 1) = k + 1 + i
    BY <1>2, <1>4
  <2>2. Tail(b)[i] = b[i + 1] BY <1>4, <2>1
  <2>3. b[i + 1] = h[k + (i + 1)] BY <1>3, <2>1
  <2> QED BY <2>1, <2>2, <2>3
<1>9. h # <<>> BY <1>5, <1>6
<1> QED BY <1>2, <1>4, <1>6, <1>7, <1>8, <1>9 DEF b, k

(* The first word: a probe is echoed, a reset ends the task, and anything  *)
(* else belongs to a request.                                              *)
LEMMA ReadMarkerStep ==
  ASSUME IInv, NEW t \in Streams, ReadMarker(t)
  PROVE  IInv'
<1>1. /\ task[t] = "marker" /\ inbuf[t] # <<>> /\ inbuf' = [inbuf EXCEPT ![t] = Tail(@)]
      /\ UNCHANGED <<handshake, to_client, purpose, srv, local>>
  BY DEF ReadMarker
<1>2. CASE Head(inbuf[t]) = HEARTBEAT
  <2>1. Moves(t, "gone") /\ Reply(<<Yamux(t, "echo"), Yamux(t, "end")>>)
    BY <1>2 DEF ReadMarker, HEARTBEAT
  <2>2. <<Yamux(t, "echo"), Yamux(t, "end")>> \in Seq(Up) BY ReplyUnits DEF Replies
  <2>3. \E us \in Seq(Up) : to_server' = to_server \o us BY <2>1, <2>2 DEF Reply
  <2> QED BY <1>1, <2>1, <2>3, GoneStep
<1>3. CASE Head(inbuf[t]) = "reset"
  <2>1. Moves(t, "gone") /\ to_server' = to_server BY <1>3 DEF ReadMarker, HEARTBEAT
  <2> QED BY <1>1, <2>1, GoneStep
<1>4. CASE Head(inbuf[t]) \notin {HEARTBEAT, "reset"}
  <2>1. Moves(t, "connecting") /\ to_server' = to_server BY <1>4 DEF ReadMarker
  <2>2. PICK h \in Seq(Words), n \in Nat :
          Story(t, h) /\ Arrived(t, h, n) /\ Carries(to_client, t, h, n)
    BY DEF IInv, Stream
  <2>3. /\ h # <<>> /\ Head(inbuf[t]) = h[Used(t) + 1] /\ Used(t) + 1 \in DOMAIN h
        /\ Tail(inbuf[t]) \in Seq(Upward \cup {"reset"})
    BY <1>1, <2>2, NextRead
  <2>4. Purposes(t) BY DEF IInv, Stream
  <2>5. local[t] = <<>> /\ supports_heartbeat BY <1>1, <2>4 DEF Purposes
  <2>6. Used(t) = 1
    <3>1. Len(<<>>) = 0 OBVIOUS
    <3> QED BY <1>1, <2>5, <3>1 DEF Used
  <2>7. purpose[t] = "proxy"
    <3>1. 1 + 1 = 2 /\ h[2] = Word(t, 2) BY <1>4, <2>2, <2>3, <2>6 DEF Story
    <3>2. purpose[t] # "probe" BY <1>4, <2>3, <2>6, <3>1 DEF Word
    <3>3. purpose[t] # None BY <2>2, <2>3, <2>4 DEF Story, Purposes
    <3> QED BY <3>2, <3>3 DEF IInv, TypeOK
  <2>8. /\ task' \in [Streams -> {"none", "marker", "connecting", "copying", "gone"}]
        /\ inbuf' \in [Streams -> Seq(Upward \cup {"reset"})]
        /\ local' \in [Streams -> Seq(Upward)]
        /\ task'[t] = "connecting" /\ inbuf'[t] = Tail(inbuf[t]) /\ local'[t] = <<>>
        /\ \A s \in Streams \ {t} :
             task'[s] = task[s] /\ inbuf'[s] = inbuf[s] /\ local'[s] = local[s]
    BY <1>1, <2>1, <2>3, <2>5 DEF Moves, IInv, TypeOK
  <2>9. supports_heartbeat' = supports_heartbeat BY <1>1 DEF handshake
  <2>10. Used(t)' = 1 + 1
    <3>1. Len(<<>>) = 0 OBVIOUS
    <3>2. task'[t] # "marker" /\ supports_heartbeat' BY <2>5, <2>8, <2>9
    <3> QED BY <2>8, <3>1, <3>2 DEF Used
  <2>11. Purposes(t)' BY <1>1, <2>4, <2>5, <2>7, <2>8, <2>9 DEF Purposes
  <2>12. ASSUME NEW g \in Seq(Words), NEW k \in Nat, Story(t, g), Arrived(t, g, k)
         PROVE  Arrived(t, g, k)'
    <3>1. /\ k = 1 + 1 + Len(Tail(inbuf[t]))
          /\ \A i \in DOMAIN Tail(inbuf[t]) : Tail(inbuf[t])[i] = g[1 + 1 + i]
      BY <1>1, <2>6, <2>12, NextRead
    <3>2. k \in 0 .. Len(g) /\ k > 0 BY <1>1, <2>12 DEF Arrived
    <3> QED BY <2>8, <2>10, <3>1, <3>2 DEF Arrived
  <2>13. \A g, k : Len(g) \in Nat /\ k \in Nat /\ Story(t, g) /\ Arrived(t, g, k)
                     => Arrived(t, g, k)'
    BY <2>12 DEF Story
  <2>14. Stream(t)' BY <1>1, <2>9, <2>11, <2>13, StreamMoves
  <2> QED BY <1>1, <2>1, <2>8, <2>14, TaskStep
<1> QED BY <1>2, <1>3, <1>4

(* Connecting reads nothing. *)
LEMMA ConnectLocalStep ==
  ASSUME IInv, NEW t \in Streams, ConnectLocal(t)
  PROVE  IInv'
<1>1. task[t] = "connecting" /\ UNCHANGED <<handshake, to_client, purpose, srv, inbuf, local>>
  BY DEF ConnectLocal
<1>2. CASE Moves(t, "gone") /\ Reply(<<Yamux(t, "end")>>)
  BY <1>1, <1>2, GoneStep, ReplyUnits DEF Reply, Replies
<1>3. CASE Moves(t, "copying") /\ to_server' = to_server
  <2>1. /\ task' \in [Streams -> {"none", "marker", "connecting", "copying", "gone"}]
        /\ task'[t] = "copying" /\ \A s \in Streams \ {t} : task'[s] = task[s]
    BY <1>3 DEF Moves, IInv, TypeOK
  <2>2. supports_heartbeat' = supports_heartbeat BY <1>1 DEF handshake
  <2>3. Purposes(t) BY DEF IInv, Stream
  <2>4. Purposes(t)' BY <1>1, <2>1, <2>2, <2>3 DEF Purposes
  <2>5. Used(t)' = Used(t) BY <1>1, <2>1, <2>2 DEF Used
  <2>6. \A g, k : Len(g) \in Nat /\ k \in Nat /\ Story(t, g) /\ Arrived(t, g, k)
                    => Arrived(t, g, k)'
    BY <1>1, <2>1, <2>5 DEF Arrived
  <2>7. Stream(t)' BY <1>1, <2>2, <2>4, <2>6, StreamMoves
  <2>8. inbuf' \in [Streams -> Seq(Upward \cup {"reset"})] /\ local' \in [Streams -> Seq(Upward)]
    BY <1>1 DEF IInv, TypeOK
  <2> QED BY <1>1, <1>3, <2>1, <2>7, <2>8, TaskStep
<1> QED BY <1>2, <1>3 DEF ConnectLocal

(* What is copied to the local service is the request, once. *)
LEMMA CopyUpStep ==
  ASSUME IInv, NEW t \in Streams, CopyUp(t)
  PROVE  IInv'
<1>1. /\ task[t] = "copying" /\ inbuf[t] # <<>> /\ inbuf' = [inbuf EXCEPT ![t] = Tail(@)]
      /\ UNCHANGED <<handshake, wires, purpose, srv>>
  BY DEF CopyUp
<1>2. CASE Head(inbuf[t]) = "reset"
  <2>1. Moves(t, "gone") /\ local' = local BY <1>2 DEF CopyUp
  <2> QED BY <1>1, <2>1, GoneStep DEF wires
<1>3. CASE Head(inbuf[t]) # "reset"
  <2>1. local' = [local EXCEPT ![t] = Append(@, Head(inbuf[t]))] /\ task' = task
    BY <1>3 DEF CopyUp
  <2>2. PICK h \in Seq(Words), n \in Nat :
          Story(t, h) /\ Arrived(t, h, n) /\ Carries(to_client, t, h, n)
    BY DEF IInv, Stream
  <2>3. /\ Used(t) \in Nat /\ Used(t) > 0
        /\ Head(inbuf[t]) = h[Used(t) + 1] /\ Used(t) + 1 \in DOMAIN h
        /\ Tail(inbuf[t]) \in Seq(Upward \cup {"reset"})
    BY <1>1, <2>2, NextRead
  <2>4. Purposes(t) BY DEF IInv, Stream
  <2>5. purpose[t] = "proxy" /\ local[t] \in {<<>>, <<"request">>}
    BY <1>1, <2>4 DEF Purposes
  <2>6. Used(t) + 1 <= Whole(t) /\ Head(inbuf[t]) = Word(t, Used(t) + 1)
    BY <1>3, <2>2, <2>3 DEF Story
  <2> DEFINE x == IF supports_heartbeat THEN 1 ELSE 0
             y == Len(local[t])
  <2>7. (x = 0 \/ x = 1) /\ Used(t) = 1 + x + y /\ Whole(t) = 2 + x
    BY <1>1, <2>5 DEF Used, Whole
  <2>8. Len(<<>>) = 0 /\ Len(<<"request">>) = 1 OBVIOUS
  <2>9. local[t] = <<>> /\ Used(t) + 1 = Whole(t) /\ Whole(t) \in Nat /\ Whole(t) # 1
    <3>1. (local[t] = <<>> /\ y = 0) \/ (local[t] = <<"request">> /\ y = 1) BY <2>5, <2>8
    <3> HIDE DEF x, y
    <3>2. y # 1 BY <2>6, <2>7
    <3> QED BY <2>7, <3>1, <3>2
  <2> HIDE DEF x
  <2>10. Head(inbuf[t]) = "request" BY <2>5, <2>6, <2>9 DEF Word
  <2>11. /\ local' \in [Streams -> Seq(Upward)] /\ local'[t] = <<"request">>
         /\ \A s \in Streams \ {t} : local'[s] = local[s]
    <3>1. "request" \in Upward BY DEF Upward
    <3>2. Append(<<>>, "request") = <<"request">> /\ <<"request">> \in Seq(Upward) BY <3>1
    <3> QED BY <2>1, <2>9, <2>10, <3>2 DEF IInv, TypeOK
  <2>12. /\ inbuf' \in [Streams -> Seq(Upward \cup {"reset"})] /\ inbuf'[t] = Tail(inbuf[t])
         /\ \A s \in Streams \ {t} : inbuf'[s] = inbuf[s]
    BY <1>1, <2>3 DEF IInv, TypeOK
  <2>13. supports_heartbeat' = supports_heartbeat BY <1>1 DEF handshake
  <2>14. Used(t)' = Used(t) + 1
    <3>1. Used(t)' = 1 + x + 1 BY <1>1, <2>1, <2>8, <2>11, <2>13 DEF Used, x
    <3> QED BY <2>7, <2>8, <2>9, <3>1
  <2>15. Purposes(t)' BY <1>1, <2>1, <2>4, <2>11, <2>13 DEF Purposes
  <2>16. ASSUME NEW g \in Seq(Words), NEW k \in Nat, Story(t, g), Arrived(t, g, k)
         PROVE  Arrived(t, g, k)'
    <3>1. /\ k = Used(t) + 1 + Len(Tail(inbuf[t]))
          /\ \A i \in DOMAIN Tail(inbuf[t]) : Tail(inbuf[t])[i] = g[Used(t) + 1 + i]
      BY <1>1, <2>16, NextRead
    <3>2. k \in 0 .. Len(g) /\ k > 0 BY <1>1, <2>16 DEF Arrived
    <3>3. task'[t] = "copying" BY <1>1, <2>1
    <3> QED BY <2>12, <2>14, <3>1, <3>2, <3>3 DEF Arrived
  <2>17. \A g, k : Len(g) \in Nat /\ k \in Nat /\ Story(t, g) /\ Arrived(t, g, k)
                     => Arrived(t, g, k)'
    BY <2>16 DEF Story
  <2>18. Stream(t)' BY <1>1, <2>13, <2>15, <2>17, StreamMoves DEF wires
  <2>19. task' \in [Streams -> {"none", "marker", "connecting", "copying", "gone"}]
         /\ \A s \in Streams \ {t} : task'[s] = task[s]
    BY <2>1 DEF IInv, TypeOK
  <2> QED BY <1>1, <2>11, <2>12, <2>18, <2>19, TaskStep DEF wires
<1> QED BY <1>2, <1>3

-----------------------------------------------------------------------------
(* The theorems.                                                           *)

LEMMA NextIInv == IInv /\ [Next]_vars => IInv'
<1> SUFFICES ASSUME IInv, [Next]_vars PROVE IInv' OBVIOUS
<1>1. CASE SendAuthReq BY <1>1, SendAuthReqStep
<1>2. CASE SendNoise BY <1>2, SendNoiseStep
<1>3. CASE AuthTimeout BY <1>3, CloseReading DEF AuthTimeout
<1>4. CASE ReadAuthReq BY <1>4, ReadAuthReqStep
<1>5. CASE ReadAuthRes BY <1>5, ReadAuthResStep
<1>6. CASE Receive BY <1>6, ReceiveStep
<1>7. CASE Deliver BY <1>7, DeliverStep
<1>8. CASE ServerEnds BY <1>8, ServerEndsStep
<1>9. CASE ClientEnds BY <1>9, ClientEndsStep
<1>10. ASSUME NEW s \in Streams, ServerStream(s) \/ OpenStream(s) \/ DropStream(s) PROVE IInv'
  BY <1>10, MarkRequestStep, SendRequestStep, SendProbeStep, OpenStreamStep, DropStreamStep
  DEF ServerStream
<1>11. ASSUME NEW s \in Streams, ClientTask(s) \/ MarkerTimeout(s) \/ LocalEnds(s) PROVE IInv'
  BY <1>11, ReadMarkerStep, ConnectLocalStep, CopyUpStep, MarkerTimeoutStep, LocalEndsStep
  DEF ClientTask
<1>12. CASE UNCHANGED vars
  <2>1. UNCHANGED <<handshake, wires, streams>> BY <1>12 DEF vars
  <2>2. \A s \in Streams : Stream(s)'
    BY <2>1, StreamsStay DEF handshake, wires
  <2>3. TypeOK' BY <2>1 DEF IInv, TypeOK, handshake, wires, streams
  <2>4. ServerSide' BY <2>1 DEF IInv, ServerSide, handshake, wires, streams
  <2>5. ClientSide' BY <2>1 DEF IInv, ClientSide, Answer, handshake, wires, streams
  <2> QED BY <2>2, <2>3, <2>4, <2>5 DEF IInv
<1> QED
  BY <1>1, <1>2, <1>3, <1>4, <1>5, <1>6, <1>7, <1>8, <1>9, <1>10, <1>11, <1>12 DEF Next, Loops

(* The codec never misreads what either side wrote, and the story of every *)
(* stream is told in order: an invariant for any messages, any noise and   *)
(* any number of streams.                                                  *)
THEOREM InductiveInvariant == Spec => []IInv
<1>1. Init => IInv BY InitIInv
<1>2. IInv /\ [Next]_vars => IInv' BY NextIInv
<1> QED BY <1>1, <1>2, PTL DEF Spec

(* The connection, the streams and the tasks of TunnelLink are what they   *)
(* are declared to be.                                                     *)
THEOREM TypeCorrect == Spec => []TypeOK
<1>1. IInv => TypeOK BY DEF IInv
<1> QED BY <1>1, InductiveInvariant, PTL

(* handle_tunnel_stream copies to the local service what follows the       *)
(* marker: the request, once, and nothing of a heartbeat, for this client  *)
(* and for a legacy one.                                                   *)
THEOREM ServiceGetsRequest == Spec => []OnlyTheRequest
<1>1. IInv => OnlyTheRequest BY DEF IInv, Stream, Purposes, OnlyTheRequest
<1> QED BY <1>1, InductiveInvariant, PTL

(* Short sequences, one after the other. *)
LEMMA ShortSequences ==
  ASSUME NEW T, NEW a \in T, NEW b \in T, NEW c \in T
  PROVE  /\ <<>> \o <<>> = <<>> /\ <<a>> \o <<>> = <<a>> /\ <<>> \o <<a>> = <<a>>
         /\ <<a>> \o <<b>> = <<a, b>> /\ <<a>> \o <<b, c>> = <<a, b, c>>
         /\ <<a, b>> \o <<>> = <<a, b>> /\ <<a, b>> \o <<c>> = <<a, b, c>>
<1>1. <<>> \in Seq(T) /\ <<a>> \in Seq(T) /\ <<b>> \in Seq(T) /\ <<c>> \in Seq(T)
      /\ <<a, b>> \in Seq(T) /\ <<b, c>> \in Seq(T) /\ <<a, b, c>> \in Seq(T)
  OBVIOUS
<1>2. \A s \in Seq(T) : s \o <<>> = s /\ <<>> \o s = s BY ConcatEmptySeq
<1>3. \A u, v \in T : <<u>> \o <<v>> = <<u, v>>
  <2> TAKE u \in T, v \in T
  <2> DEFINE w == <<u>> \o <<v>>
  <2>1. /\ <<u>> \in Seq(T) /\ <<v>> \in Seq(T) /\ <<u, v>> \in Seq(T)
        /\ Len(<<u>>) = 1 /\ Len(<<v>>) = 1 /\ Len(<<u, v>>) = 2
        /\ <<u>>[1] = u /\ <<v>>[1] = v /\ <<u, v>>[1] = u /\ <<u, v>>[2] = v
    OBVIOUS
  <2>2. /\ w \in Seq(T) /\ Len(w) = 1 + 1
        /\ \A i \in 1 .. 1 + 1 : w[i] = IF i <= 1 THEN <<u>>[i] ELSE <<v>>[i - 1]
    BY <2>1, ConcatProperties
  <2> HIDE DEF w
  <2>3. w[1] = u /\ w[2] = v BY <2>1, <2>2
  <2>4. \A i \in 1 .. Len(w) : w[i] = <<u, v>>[i] BY <2>1, <2>2, <2>3
  <2>5. w = <<u, v>> BY <2>1, <2>2, <2>4, SeqEqual
  <2> QED BY <2>5 DEF w
<1>4. <<a, b>> \o <<c>> = <<a, b, c>>
  <2> DEFINE w == <<a, b>> \o <<c>>
  <2>1. /\ Len(<<a, b>>) = 2 /\ Len(<<c>>) = 1 /\ Len(<<a, b, c>>) = 3
        /\ <<a, b>>[1] = a /\ <<a, b>>[2] = b /\ <<c>>[1] = c
        /\ <<a, b, c>>[1] = a /\ <<a, b, c>>[2] = b /\ <<a, b, c>>[3] = c
    OBVIOUS
  <2>2. /\ w \in Seq(T) /\ Len(w) = 2 + 1
        /\ \A i \in 1 .. 2 + 1 : w[i] = IF i <= 2 THEN <<a, b>>[i] ELSE <<c>>[i - 2]
    BY <1>1, <2>1, ConcatProperties
  <2> HIDE DEF w
  <2>3. w[1] = a /\ w[2] = b /\ w[3] = c BY <2>1, <2>2
  <2>4. \A i \in 1 .. Len(w) : w[i] = <<a, b, c>>[i] BY <2>1, <2>2, <2>3
  <2>5. w = <<a, b, c>> BY <1>1, <2>1, <2>2, <2>4, SeqEqual
  <2> QED BY <2>5 DEF w
<1>5. <<a>> \o <<b, c>> = <<a, b, c>>
  <2>1. <<a>> \o (<<b>> \o <<c>>) = (<<a>> \o <<b>>) \o <<c>> BY <1>1, ConcatAssociative
  <2> QED BY <1>3, <1>4, <2>1
<1> QED BY <1>1, <1>2, <1>3, <1>4, <1>5

LEMMA ShortFacts ==
  ASSUME NEW T, NEW a \in T, NEW b \in T, NEW c \in T, NEW p
  PROVE  /\ p = <<a>> => p \in Seq(T) /\ Len(p) = 1 /\ p[1] = a
         /\ p = <<a, b>> => p \in Seq(T) /\ Len(p) = 2 /\ p[1] = a /\ p[2] = b
         /\ p = <<a, b, c>> =>
              p \in Seq(T) /\ Len(p) = 3 /\ p[1] = a /\ p[2] = b /\ p[3] = c
<1>1. <<a>> \in Seq(T) /\ Len(<<a>>) = 1 /\ <<a>>[1] = a OBVIOUS
<1>2. <<a, b>> \in Seq(T) /\ Len(<<a, b>>) = 2 /\ <<a, b>>[1] = a /\ <<a, b>>[2] = b
  OBVIOUS
<1>3. /\ <<a, b, c>> \in Seq(T) /\ Len(<<a, b, c>>) = 3
      /\ <<a, b, c>>[1] = a /\ <<a, b, c>>[2] = b /\ <<a, b, c>>[3] = c
  OBVIOUS
<1> QED BY <1>1, <1>2, <1>3, Zenon

(* A stream the server has not given up has the story of Sent. *)
LEMMA SentIsStory ==
  ASSUME IInv, NEW s \in Streams, srv[s] \in Opened, NEW h \in Seq(Words), Story(s, h)
  PROVE  h = Sent(s)
<1>1. /\ Purposes(s) /\ purpose[s] \in {"proxy", "probe"} /\ Len(h) = Begun(s)
      /\ srv[s] \in {"opened", "marked", "waiting"}
  BY OpenFacts DEF Opened
<1>2. \A i \in 1 .. Len(h) : h[i] = Word(s, i) BY LenProperties DEF Story
<1>3. "open" \in Words /\ PROXY \in Words /\ HEARTBEAT \in Words /\ "request" \in Words
  BY DEF Words, Upward
<1>4. \A w \in Seq(Words) : Len(w) = Len(h) /\ (\A i \in 1 .. Len(h) : w[i] = Word(s, i)) => h = w
  BY <1>2, SeqEqual
<1>5. \A a \in Words : Len(h) = 1 /\ a = Word(s, 1) => h = <<a>>
  <2> SUFFICES ASSUME NEW a \in Words, Len(h) = 1, a = Word(s, 1) PROVE h = <<a>> OBVIOUS
  <2>1. <<a>> \in Seq(Words) /\ Len(<<a>>) = 1 /\ <<a>>[1] = a OBVIOUS
  <2>2. \A i \in 1 .. 1 : <<a>>[i] = Word(s, i) BY <2>1
  <2> QED BY <1>4, <2>1, <2>2
<1>6. \A a, b \in Words : Len(h) = 2 /\ a = Word(s, 1) /\ b = Word(s, 2) => h = <<a, b>>
  <2> SUFFICES ASSUME NEW a \in Words, NEW b \in Words,
                      Len(h) = 2, a = Word(s, 1), b = Word(s, 2)
               PROVE  h = <<a, b>>
    OBVIOUS
  <2>1. /\ <<a, b>> \in Seq(Words) /\ Len(<<a, b>>) = 2
        /\ <<a, b>>[1] = a /\ <<a, b>>[2] = b
    OBVIOUS
  <2>2. \A i \in 1 .. 2 : <<a, b>>[i] = Word(s, i) BY <2>1
  <2> QED BY <1>4, <2>1, <2>2
<1>7. \A a, b, c \in Words :
        Len(h) = 3 /\ a = Word(s, 1) /\ b = Word(s, 2) /\ c = Word(s, 3) => h = <<a, b, c>>
  <2> SUFFICES ASSUME NEW a \in Words, NEW b \in Words, NEW c \in Words,
                      Len(h) = 3, a = Word(s, 1), b = Word(s, 2), c = Word(s, 3)
               PROVE  h = <<a, b, c>>
    OBVIOUS
  <2>1. /\ <<a, b, c>> \in Seq(Words) /\ Len(<<a, b, c>>) = 3
        /\ <<a, b, c>>[1] = a /\ <<a, b, c>>[2] = b /\ <<a, b, c>>[3] = c
    OBVIOUS
  <2>2. \A i \in 1 .. 3 : <<a, b, c>>[i] = Word(s, i) BY <2>1
  <2> QED BY <1>4, <2>1, <2>2
<1>8. CASE Begun(s) = 1
  <2>1. h = <<"open">> BY <1>1, <1>3, <1>5, <1>8 DEF Word
  <2>2. srv[s] # "waiting" /\ (srv[s] = "marked" => ~supports_heartbeat)
    BY <1>1, <1>8 DEF Begun, Whole, Purposes
  <2>3. Sent(s) = <<"open">> BY <1>1, <1>3, <2>2, ShortSequences DEF Sent
  <2> QED BY <2>1, <2>3
<1>9. CASE Begun(s) = 2 /\ purpose[s] = "probe"
  <2>1. srv[s] = "waiting" BY <1>1, <1>9 DEF Begun, Purposes
  <2>2. h = <<"open", HEARTBEAT>> BY <1>1, <1>3, <1>6, <1>9 DEF Word
  <2>3. Sent(s) = <<"open", HEARTBEAT>> BY <1>3, <1>9, <2>1, ShortSequences DEF Sent
  <2> QED BY <2>2, <2>3
<1>10. CASE Begun(s) = 2 /\ purpose[s] = "proxy" /\ supports_heartbeat
  <2>1. Whole(s) = 3 /\ srv[s] = "marked" BY <1>1, <1>10 DEF Begun, Whole
  <2>2. h = <<"open", PROXY>> BY <1>1, <1>3, <1>6, <1>10, <2>1 DEF Word
  <2>3. Sent(s) = <<"open", PROXY>> BY <1>3, <1>10, <2>1, ShortSequences DEF Sent
  <2> QED BY <2>2, <2>3
<1>11. CASE Begun(s) = 2 /\ purpose[s] = "proxy" /\ ~supports_heartbeat
  <2>1. Whole(s) = 2 /\ srv[s] = "waiting" BY <1>1, <1>11 DEF Begun, Whole
  <2>2. h = <<"open", "request">> BY <1>1, <1>3, <1>6, <1>11, <2>1 DEF Word
  <2>3. Sent(s) = <<"open", "request">> BY <1>3, <1>11, <2>1, ShortSequences DEF Sent
  <2> QED BY <2>2, <2>3
<1>12. CASE Begun(s) = 3
  <2>1. /\ Whole(s) = 3 /\ srv[s] = "waiting" /\ purpose[s] = "proxy" /\ supports_heartbeat
    BY <1>1, <1>12 DEF Begun, Whole
  <2>2. h = <<"open", PROXY, "request">> BY <1>1, <1>3, <1>7, <1>12, <2>1 DEF Word
  <2>3. Sent(s) = <<"open">> \o (<<PROXY>> \o <<"request">>) BY <2>1 DEF Sent
  <2>4. <<PROXY>> \o <<"request">> = <<PROXY, "request">> BY <1>3, ShortSequences
  <2>5. Sent(s) = <<"open", PROXY, "request">> BY <1>3, <2>3, <2>4, ShortSequences
  <2> QED BY <2>2, <2>5
<1>13. Begun(s) \in {1, 2, 3} BY <1>1 DEF Begun, Whole
<1> QED BY <1>1, <1>8, <1>9, <1>10, <1>11, <1>12, <1>13

(* What the client's task has read of a stream that goes on is the first   *)
(* Used(s) words of it.                                                    *)
ReadOf(s) ==
  (<<"open">> \o (IF task[s] \in {"connecting", "copying"} /\ supports_heartbeat
                  THEN <<PROXY>> ELSE <<>>)) \o local[s]

LEMMA ReadSoFar ==
  ASSUME IInv, NEW s \in Streams, task[s] \in {"marker", "connecting", "copying"},
         srv[s] \in Opened
  PROVE  /\ ReadOf(s) \in Seq(Words) /\ Len(ReadOf(s)) = Used(s)
         /\ \A i \in 1 .. Used(s) : ReadOf(s)[i] = Word(s, i)
<1> DEFINE p == ReadOf(s)
<1> SUFFICES /\ p \in Seq(Words) /\ Len(p) = Used(s)
             /\ \A i \in 1 .. Used(s) : p[i] = Word(s, i)
  OBVIOUS
<1> HIDE DEF p
<1>1. Purposes(s) BY OpenFacts
<1>2. "open" \in Words /\ PROXY \in Words /\ "request" \in Words BY DEF Words, Upward
<1>3. Len(<<>>) = 0 /\ Len(<<"request">>) = 1 BY <1>2, ShortFacts, EmptySeq
<1>4. CASE task[s] = "marker"
  <2>1. local[s] = <<>> /\ supports_heartbeat BY <1>1, <1>4 DEF Purposes
  <2>2. p = (<<"open">> \o <<>>) \o <<>> BY <1>4, <2>1 DEF p, ReadOf
  <2>3. p = <<"open">> BY <1>2, <2>2, ShortSequences
  <2>4. Len(p) = 1 /\ p[1] = "open" /\ p \in Seq(Words) BY <1>2, <2>3, ShortFacts
  <2>5. Used(s) = 1 BY <1>3, <1>4, <2>1 DEF Used
  <2>6. \A i \in 1 .. 1 : p[i] = Word(s, i) BY <2>4 DEF Word
  <2> QED BY <2>4, <2>5, <2>6
<1>5. CASE task[s] \in {"connecting", "copying"} /\ supports_heartbeat
  <2>1. purpose[s] = "proxy" BY <1>1, <1>5 DEF Purposes
  <2>2. p = (<<"open">> \o <<PROXY>>) \o local[s] BY <1>5 DEF p, ReadOf
  <2>3. <<"open">> \o <<PROXY>> = <<"open", PROXY>> BY <1>2, ShortSequences
  <2>4. Whole(s) = 3 BY <1>5, <2>1 DEF Whole
  <2>5. Word(s, 1) = "open" /\ Word(s, 2) = PROXY /\ Word(s, 3) = "request"
    BY <2>1, <2>4 DEF Word
  <2>6. CASE local[s] = <<>>
    <3>1. p = <<"open", PROXY>> BY <1>2, <2>2, <2>3, <2>6, ShortSequences
    <3>2. Len(p) = 2 /\ p[1] = "open" /\ p[2] = PROXY /\ p \in Seq(Words)
      BY <1>2, <3>1, ShortFacts
    <3>3. Used(s) = 1 + 1 + Len(local[s]) BY <1>5 DEF Used
    <3>4. Used(s) = 2 BY <1>3, <2>6, <3>3
    <3>5. \A i \in 1 .. 2 : p[i] = Word(s, i) BY <2>5, <3>2
    <3> QED BY <3>2, <3>4, <3>5
  <2>7. CASE local[s] = <<"request">>
    <3>1. p = <<"open", PROXY, "request">> BY <1>2, <2>2, <2>3, <2>7, ShortSequences
    <3>2. Len(p) = 3 /\ p[1] = "open" /\ p[2] = PROXY /\ p[3] = "request" /\ p \in Seq(Words)
      BY <1>2, <3>1, ShortFacts
    <3>3. Used(s) = 1 + 1 + Len(local[s]) BY <1>5 DEF Used
    <3>4. Used(s) = 3 BY <1>3, <2>7, <3>3
    <3>5. \A i \in 1 .. 3 : p[i] = Word(s, i) BY <2>5, <3>2
    <3> QED BY <3>2, <3>4, <3>5
  <2> QED BY <1>1, <2>6, <2>7 DEF Purposes
<1>6. CASE task[s] \in {"connecting", "copying"} /\ ~supports_heartbeat
  <2>1. purpose[s] = "proxy" BY <1>1, <1>6 DEF Purposes
  <2>2. p = (<<"open">> \o <<>>) \o local[s] BY <1>6 DEF p, ReadOf
  <2>3. <<"open">> \o <<>> = <<"open">> BY <1>2, ShortSequences
  <2>4. Whole(s) = 2 BY <1>6, <2>1 DEF Whole
  <2>5. Word(s, 1) = "open" /\ Word(s, 2) = "request" BY <2>1, <2>4 DEF Word
  <2>6. CASE local[s] = <<>>
    <3>1. p = <<"open">> BY <1>2, <2>2, <2>3, <2>6, ShortSequences
    <3>2. Len(p) = 1 /\ p[1] = "open" /\ p \in Seq(Words) BY <1>2, <3>1, ShortFacts
    <3>3. Used(s) = 1 + 0 + Len(local[s]) BY <1>6 DEF Used
    <3>4. Used(s) = 1 BY <1>3, <2>6, <3>3
    <3>5. \A i \in 1 .. 1 : p[i] = Word(s, i) BY <2>5, <3>2
    <3> QED BY <3>2, <3>4, <3>5
  <2>7. CASE local[s] = <<"request">>
    <3>1. p = <<"open", "request">> BY <1>2, <2>2, <2>3, <2>7, ShortSequences
    <3>2. Len(p) = 2 /\ p[1] = "open" /\ p[2] = "request" /\ p \in Seq(Words)
      BY <1>2, <3>1, ShortFacts
    <3>3. Used(s) = 1 + 0 + Len(local[s]) BY <1>6 DEF Used
    <3>4. Used(s) = 2 BY <1>3, <2>7, <3>3
    <3>5. \A i \in 1 .. 2 : p[i] = Word(s, i) BY <2>5, <3>2
    <3> QED BY <3>2, <3>4, <3>5
  <2> QED BY <1>1, <2>6, <2>7 DEF Purposes
<1> QED BY <1>4, <1>5, <1>6

(* What has reached the client of a stream the server has not given up is  *)
(* the beginning of what was sent on it, and the rest is on its way.       *)
LEMMA ReachedOfSent ==
  ASSUME IInv, NEW s \in Streams, srv[s] \in Opened, task[s] # "gone"
  PROVE  IsPrefix(Reached(s), Sent(s)) /\ Carries(to_client, s, Sent(s), Len(Reached(s)))
<1>1. PICK h \in Seq(Words), n \in Nat :
        Story(s, h) /\ Arrived(s, h, n) /\ Carries(to_client, s, h, n)
  BY DEF IInv, Stream
<1>2. Purposes(s) BY OpenFacts
<1>3. h = Sent(s) BY <1>1, SentIsStory
<1>4. Len(h) \in Nat /\ DOMAIN h = 1 .. Len(h) /\ n \in 0 .. Len(h)
  BY <1>1, LenProperties DEF Arrived
<1>5. \A i \in 1 .. Len(h) : h[i] = Word(s, i) BY <1>1, <1>4 DEF Story
<1> DEFINE r == Reached(s)
<1>6. r \in Seq(Words) /\ Len(r) = n /\ \A i \in 1 .. n : r[i] = h[i]
  <2>1. CASE task[s] = "none"
    <3>1. local[s] = <<>> /\ inbuf[s] = <<>> /\ n = 0
      BY <1>1, <1>2, <2>1 DEF Purposes, Arrived
    <3>2. r = ((<<>> \o <<>>) \o <<>>) \o <<>> BY <2>1, <3>1 DEF Reached
    <3>3. <<>> \in Seq(Words) /\ Len(<<>>) = 0 BY EmptySeq
    <3>4. <<>> \o <<>> = <<>> BY <3>3, ConcatEmptySeq
    <3>5. r = <<>> BY <3>2, <3>4
    <3> HIDE DEF r
    <3> QED BY <3>1, <3>3, <3>5
  <2>2. CASE task[s] # "none"
    <3>1. task[s] \in {"marker", "connecting", "copying"} BY <2>2 DEF IInv, TypeOK
    <3> DEFINE p == ReadOf(s)
               b == inbuf[s]
               k == Used(s)
    <3>2. r = p \o b BY <2>2 DEF Reached, ReadOf
    <3>3. p \in Seq(Words) /\ Len(p) = k /\ \A i \in 1 .. k : p[i] = Word(s, i)
      BY <3>1, ReadSoFar
    <3>4. n = k + Len(b) /\ \A i \in DOMAIN b : b[i] = h[k + i] BY <1>1, <3>1 DEF Arrived
    <3>5. b \in Seq(Words)
      <4>1. b \in Seq(Upward \cup {"reset"}) BY DEF IInv, TypeOK
      <4>2. Upward \cup {"reset"} \subseteq Words BY DEF Words
      <4> HIDE DEF b
      <4> QED BY <4>1, <4>2
    <3>6. k \in Nat BY UsedNat
    <3> HIDE DEF r, p, b, k
    <3>7. Len(b) \in Nat /\ DOMAIN b = 1 .. Len(b) BY <3>5, LenProperties
    <3>8. /\ r \in Seq(Words) /\ Len(r) = n
          /\ \A i \in 1 .. n : r[i] = IF i <= k THEN p[i] ELSE b[i - k]
      BY <3>2, <3>3, <3>4, <3>5, ConcatProperties
    <3>9. ASSUME NEW i \in 1 .. n PROVE r[i] = h[i]
      <4>1. CASE i <= k
        <5>1. i \in 1 .. k /\ i \in 1 .. Len(h) BY <1>4, <3>6, <4>1
        <5> QED BY <1>5, <3>3, <3>8, <4>1, <5>1
      <4>2. CASE ~(i <= k)
        <5>1. i - k \in DOMAIN b /\ k + (i - k) = i BY <3>4, <3>6, <3>7, <4>2
        <5>2. b[i - k] = h[i] BY <3>4, <5>1
        <5> QED BY <3>8, <4>2, <5>2
      <4> QED BY <4>1, <4>2
    <3> QED BY <3>8, <3>9
  <2> QED BY <2>1, <2>2
<1> HIDE DEF r
<1>7. IsPrefix(r, h)
  <2> DEFINE a == SubSeq(r, 1, n)
             c == SubSeq(h, 1, n)
  <2>1. \A i \in 1 .. n : r[i] \in Words /\ h[i] \in Words
    <3>1. \A i \in 1 .. Len(h) : h[i] \in Words BY LenProperties, <1>4
    <3> QED BY <1>4, <1>6, <3>1
  <2>2. 1 \in Int /\ n \in Int /\ n - 1 + 1 = n /\ (IF 1 <= n THEN n - 1 + 1 ELSE 0) = n
    BY <1>4
  <2>3. /\ a \in Seq(Words) /\ Len(a) = IF 1 <= n THEN n - 1 + 1 ELSE 0
        /\ \A i \in 1 .. n - 1 + 1 : a[i] = r[1 + i - 1]
    BY <2>1, <2>2, SubSeqProperties
  <2>4. /\ c \in Seq(Words) /\ Len(c) = IF 1 <= n THEN n - 1 + 1 ELSE 0
        /\ \A i \in 1 .. n - 1 + 1 : c[i] = h[1 + i - 1]
    BY <2>1, <2>2, SubSeqProperties
  <2> HIDE DEF a, c
  <2>5. Len(a) = n /\ Len(c) = n /\ \A i \in 1 .. n : a[i] = r[i] /\ c[i] = h[i]
    BY <2>2, <2>3, <2>4
  <2>6. a = c BY <1>6, <2>3, <2>4, <2>5, SeqEqual
  <2> QED BY <1>4, <1>6, <2>6 DEF a, c, IsPrefix
<1> QED BY <1>1, <1>3, <1>6, <1>7 DEF r

(* write_message, read_message and the yamux connection built on the same  *)
(* socket share it exactly: neither takes a unit of the other, no AuthRes  *)
(* is mistaken, and no word on a stream is lost, repeated or overtaken     *)
(* between the server's end and the client's task.                         *)
THEOREM Handover == Spec => []HandoverExact
<1>1. ASSUME IInv, server = "serving"
      PROVE  /\ request # None /\ request.token_ok /\ supports_heartbeat = request.version
             /\ \A i \in DOMAIN to_server : to_server[i].kind = "yamux"
  <2>1. /\ request # None /\ request.token_ok /\ supports_heartbeat = request.version
        /\ to_server \in Seq(Up)
    BY <1>1 DEF IInv, ServerSide
  <2>2. \A i \in DOMAIN to_server : to_server[i] \in Up BY <2>1, LenProperties
  <2> QED BY <2>1, <2>2 DEF Up
<1>2. ASSUME IInv, client = "serving"
      PROVE  /\ server \in {"serving", "closed"}
             /\ \A i \in DOMAIN to_client : to_client[i].kind = "yamux"
  <2>1. server # "reading" /\ to_client \in Seq(Down) BY <1>2 DEF IInv, ClientSide
  <2>2. \A i \in DOMAIN to_client : to_client[i] \in Down BY <2>1, LenProperties
  <2> QED BY <1>2, <2>1, <2>2 DEF IInv, TypeOK, Down
<1>3. IInv => HandoverExact BY <1>1, <1>2, ReachedOfSent DEF HandoverExact
<1> QED BY <1>3, InductiveInvariant, PTL
=============================================================================
