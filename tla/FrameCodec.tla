------------------------------ MODULE FrameCodec ------------------------------
(***************************************************************************)
(* The frames of the handshake (Message, write_message, read_message): a   *)
(* header with version, type and payload length, then the payload.  A      *)
(* connection is a sequence of units: a header is one, a payload is as     *)
(* many as its length says, and whatever follows is not the codec's.       *)
(***************************************************************************)
EXTENDS Naturals, Sequences

CONSTANTS
  Messages,     \* records with a type, the size of the payload and its content
  MaxPayload,   \* MAX_PAYLOAD_SIZE
  Wrap,         \* the length field has 32 bits: 2^32
  Bad           \* read_message returns an error

ASSUME CodecAssumption ==
  /\ MaxPayload \in Nat /\ Wrap \in Nat /\ 2 * MaxPayload < Wrap
  /\ \A m \in Messages : m.size \in Nat /\ m.type \in STRING
  /\ Bad \notin Messages

PROTOCOL_VERSION == 1

(* What try_from accepts. *)
MessageType == {"AuthReq", "AuthRes", "NewConn", "Data", "Ping", "Pong", "Close",
                "Error", "AcceptConn"}

(* A frame's length field, which keeps the low bits of the size. *)
payload_len(m) == m.size % Wrap

Header(v, t, l) == [kind |-> "header", version |-> v, type |-> t, len |-> l]
Piece(m)        == [kind |-> "payload", of |-> m]

(* encode_payload: JSON, of which no proper prefix parses. *)
encode_payload(m) == [i \in 1 .. m.size |-> Piece(m)]

(* write_message refuses the payload, or writes the frame in one go. *)
TooLarge(m) == payload_len(m) > MaxPayload
Frame(m)    == <<Header(PROTOCOL_VERSION, m.type, payload_len(m))>> \o encode_payload(m)

(* read_message ends with an error at the header. *)
BadHeader(h) ==
  ~ /\ h.kind = "header"
    /\ h.version = PROTOCOL_VERSION
    /\ h.type \in MessageType
    /\ h.len <= MaxPayload

(* read_message returns: the header is bad, or all it announces is there. *)
Decided(buf) ==
  /\ buf # <<>>
  /\ ~BadHeader(Head(buf)) => Len(buf) > Head(buf).len

(* What it returns.  decode needs the whole payload, of the type announced. *)
Decoded(buf) ==
  LET h == Head(buf)
      sent(m) == m.type = h.type /\ encode_payload(m) = SubSeq(buf, 2, h.len + 1)
  IN  IF ~BadHeader(h) /\ \E m \in Messages : sent(m)
      THEN CHOOSE m \in Messages : sent(m)
      ELSE Bad

(* Fault: a buffered reader takes along what had already arrived. *)
Remaining_Buffered(buf) == <<>>

(* What it leaves in the connection after a message: read_exact takes no   *)
(* more than it was asked for.                                             *)
Remaining(buf) == SubSeq(buf, Head(buf).len + 2, Len(buf))
=============================================================================
