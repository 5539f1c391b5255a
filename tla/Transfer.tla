------------------------------ MODULE Transfer ------------------------------
(***************************************************************************)
(* One message, from the record its sender built to the record its         *)
(* receiver holds: encode, encode_frame, the connection, FrameReader::next, *)
(* decode_frame and decode. Between them a peer may write values no encoder*)
(* would, and the connection may damage the frame or close in its midst.   *)
(*                                                                         *)
(* The messages are one of each kind with every field set, and the records *)
(* that differ from it in one field, element or length.                    *)
(***************************************************************************)
EXTENDS Samples

CONSTANT Chunks(_)   \* how many of n outstanding units one read may return

VARIABLES
  kind,       \* the kind of message
  value,      \* what the sender holds
  varied,     \* it is another record than the one with every field set
  header,     \* the frame header on the connection
  payload,    \* the payload on the connection
  arriving,   \* how many units of the frame the connection delivers
  tampered,   \* "clean", "peer" (written by another encoder) or "line" (damaged)
  buffered,   \* FrameReader::buffered_, in units
  outcome,    \* "building", "unsendable", "reading", "closed", "refused", "accepted"
  loaded      \* what the receiver decoded

vars == <<kind, value, varied, header, payload, arriving, tampered, buffered, outcome, loaded>>

(* What is read and written of a message of each kind, and the message with *)
(* every field set                                                          *)
Message == [k \in Kinds |-> Rec(ReaderOf(k))]
Written == [k \in Kinds |-> WriterOf(k)]
Original == [k \in Kinds |-> Sample(Message[k], 1)]
Encoded(k, v) == PutAll(Written[k], v)

NoHeader == [magic |-> FALSE]

(* The frame around a message: exchange numbers the first request of a      *)
(* connection 1, and the coordinator's reply repeats the number; make_reply *)
(* sends what is not Ok (0) as a Failure.                                   *)
RequestId == 1
FrameOf(k, v) ==
  [type |-> IF k = "reply" /\ v.record.code # 0 THEN "failure" ELSE TypeOf(k),
   flags |-> IF k \in Replies THEN FrameFlags.reply ELSE FrameFlags.request,
   request_id |-> RequestId]

Init ==
  /\ kind \in Kinds
  /\ value = Original[kind] /\ varied = FALSE
  /\ header = NoHeader /\ payload = <<>> /\ arriving = 0 /\ buffered = 0
  /\ tampered = "clean" /\ outcome = "building" /\ loaded = <<>>

(* The sender holds another record.                                         *)
Build ==
  /\ outcome = "building" /\ ~varied
  /\ value' \in Variants(Message[kind], value) \ {value}
  /\ varied' = TRUE
  /\ UNCHANGED <<kind, header, payload, arriving, tampered, buffered, outcome, loaded>>

(* The encoder keeps its first error; encode_frame refuses what is too long.*)
Framed(stream) == IF Failed(stream) THEN Refused ELSE encode_frame(FrameOf(kind, value), stream)
Sent(frame) ==
  IF frame.ok
  THEN /\ header' = frame.val /\ payload' = frame.rest
       /\ arriving' = 1 + Len(payload')
       /\ outcome' = "reading"
  ELSE outcome' = "unsendable" /\ UNCHANGED <<header, payload, arriving>>
Send ==
  /\ outcome = "building"
  /\ Sent(Framed(Encoded(kind, value)))
  /\ UNCHANGED <<kind, value, varied, tampered, buffered, loaded>>

-----------------------------------------------------------------------------
(* What may happen to a frame before it is read; to the first message only. *)

Untouched == outcome = "reading" /\ buffered = 0 /\ tampered = "clean" /\ ~varied

(* Another encoder: one field with a value of its width, chosen without     *)
(* changing the layout of the fields that follow.                           *)
Others(field) ==
  CASE field.w = "u8"    -> {0, 1, 2, 255}
    [] field.w = "u16"   -> {0, 2, CustomKey, CustomKey + 1}
    [] field.w = "u32"   -> {0, WordMax, 2^kRejectionReasonCount}
    [] field.w = "u64"   -> {0, 1, WordMax}
    [] field.w = "count" -> {kCollectionLimit + 1}
    [] field.w = "tag"   -> {6}
    [] OTHER             -> {0, 2, kMaxIdentifierLength + 1, kMaxStringFieldBytes + 1}

PeerWrites ==
  /\ Untouched
  /\ \/ \E n \in DOMAIN payload : \E v \in Others(payload[n]) :
          payload' = [payload EXCEPT ![n].v = v]
     \/ payload' = Append(payload, [w |-> "u8", v |-> 0])
  /\ LET frame == encode_frame(FrameOf(kind, value), payload')
     IN frame.ok /\ header' = frame.val
  /\ arriving' = 1 + Len(payload')
  /\ tampered' = "peer"
  /\ UNCHANGED <<kind, value, varied, buffered, outcome, loaded>>

(* The connection changes one field of the payload or of the header. Behind *)
(* a frame whose length was raised, more bytes may follow or not.           *)
Damage ==
  /\ Untouched
  /\ \/ /\ \E n \in DOMAIN payload : payload' = [payload EXCEPT ![n].v = @ + 1]
        /\ UNCHANGED <<header, arriving>>
     \/ /\ header' \in
             {[header EXCEPT !.magic = FALSE], [header EXCEPT !.version = 2],
              [header EXCEPT !.reserved = 1], [header EXCEPT !.crc = <<>>]}
             \cup {[header EXCEPT !.type = t] :
                     t \in (MessageType \cup {"unassigned", "Invalid"}) \ {header.type}}
             \cup {[header EXCEPT !.flags = f] : f \in 0..7 \ {header.flags}}
             \cup {[header EXCEPT !.request_id = r] : r \in {0, RequestId + 1}}
             \cup {[header EXCEPT !.length = n] :
                     n \in {0, BytesOf(payload[1]), max_frame_bytes + 1} \ {header.length}}
        /\ UNCHANGED <<payload, arriving>>
     \/ /\ header' = [header EXCEPT !.length = @ + 1]
        /\ arriving' \in {arriving, arriving + 1}
        /\ UNCHANGED payload
  /\ tampered' = "line"
  /\ UNCHANGED <<kind, value, varied, buffered, outcome, loaded>>

(* The peer closes the connection with part of the frame written.           *)
Close ==
  /\ Untouched
  /\ \E n \in 0..Len(payload) : arriving' = n
  /\ tampered' = "line"
  /\ UNCHANGED <<kind, value, varied, header, payload, buffered, outcome, loaded>>

-----------------------------------------------------------------------------
(* FrameReader::next. A poll that returns nothing leaves buffered_ as it is.*)

(* The payload the header announces: all of it, only its beginning, or the  *)
(* byte behind it too.                                                      *)
Announced ==
  CASE header.length = PayloadBytes(payload) -> payload
    [] header.length = 0                     -> <<>>
    [] header.length < PayloadBytes(payload) -> <<payload[1]>>
    [] OTHER                                 -> Append(payload, [w |-> "u8", v |-> 0])
Total == 1 + Len(Announced)
Outstanding == IF buffered = 0 THEN 1 ELSE Total - buffered
Oversized == buffered >= 1 /\ header.length > max_frame_bytes

Read ==
  /\ outcome = "reading" /\ ~Oversized /\ Outstanding > 0 /\ buffered < arriving
  /\ \E n \in Chunks(Outstanding) :
       buffered' = IF buffered + n > arriving THEN arriving ELSE buffered + n
  /\ UNCHANGED <<kind, value, varied, header, payload, arriving, tampered, outcome, loaded>>

(* ConnectionClosed: the reader gives up what it buffered.                  *)
PeerClosed ==
  /\ outcome = "reading" /\ ~Oversized /\ Outstanding > 0 /\ buffered = arriving
  /\ outcome' = "closed"
  /\ UNCHANGED <<kind, value, varied, header, payload, arriving, tampered, buffered, loaded>>

TooLong ==
  /\ outcome = "reading" /\ Oversized
  /\ outcome' = "refused"
  /\ UNCHANGED <<kind, value, varied, header, payload, arriving, tampered, buffered, loaded>>

(* How a payload is read, by the type of its frame; {} when no decoder is   *)
(* called and the frame is refused.  dispatch does not look at the flags.   *)
dispatch(frame) ==
  CASE frame.type \in Kinds \ Replies -> {Message[frame.type]}
    [] frame.type \in Bodiless         -> {Rec(<<>>)}
    [] OTHER                           -> {}

(* A client takes the reply to its outstanding request, of the type it      *)
(* waits for, or a Failure in its place.                                    *)
exchange(frame) ==
  CASE frame.request_id # RequestId  -> {}
    [] frame.type = TypeOf(kind)     -> {Message[kind]}
    [] frame.type = "failure"        -> {Message["reply"]}
    [] OTHER                         -> {}

Reading(frame) == IF kind \in Replies THEN exchange(frame) ELSE dispatch(frame)

(* The decoder; only a Hello must be exhausted.                             *)
Decodes(type, message, rest) ==
  LET got == Get(message, rest)
  IN IF got.ok /\ (type = "hello" => got.rest = <<>>)
     THEN outcome' = "accepted" /\ loaded' = got.val
     ELSE outcome' = "refused" /\ UNCHANGED loaded

(* Bytes read as another message than they were written as have other       *)
(* fields: the decoder may find some record in them, the sample for one.    *)
Misreads(message) ==
  /\ message # Message[kind]
  /\ outcome' = "accepted" /\ loaded' = Sample(message, 1)

Receive ==
  /\ outcome = "reading" /\ buffered > 0 /\ ~Oversized /\ Outstanding = 0
  /\ LET frame == decode_frame(header, Announced)
         readings == IF frame.ok THEN Reading(frame.val) ELSE {}
     IN \/ readings = {} /\ outcome' = "refused" /\ UNCHANGED loaded
        \/ \E message \in readings :
             Decodes(frame.val.type, message, frame.rest) \/ Misreads(message)
  /\ buffered' = 0
  /\ UNCHANGED <<kind, value, varied, header, payload, arriving, tampered>>

Next ==
  \/ Build \/ Send
  \/ PeerWrites \/ Damage \/ Close
  \/ Read \/ PeerClosed \/ TooLong \/ Receive

Spec == Init /\ [][Next]_vars

-----------------------------------------------------------------------------
(* An undisturbed message arrives as it was sent: the receiver's record has *)
(* the encoding of the sender's, so no two fields are exchanged, dropped or *)
(* cut short, and a record within the receiver's limits is never refused.   *)
RoundTrip ==
  tampered = "clean" =>
    /\ outcome = "accepted" => Encoded(kind, loaded) = Encoded(kind, value)
    /\ outcome = "refused" => ~Admits(Message[kind], value)

(* Whatever a peer writes, what is decoded satisfies the limits and the     *)
(* validation of its type: decode never hands an illegal record on.         *)
LoadedIsAdmissible ==
  outcome = "accepted" => \A message \in Reading(header) : Admits(message, loaded)

(* protocol.cpp:294-298: whatever the connection does to a frame, one that  *)
(* is taken arrived whole with the payload that was sent.  The checksum     *)
(* covers the payload only: the type (another known one), the flags and, at *)
(* the coordinator, the request_id of a frame that is taken may be damaged; *)
(* a client takes no reply to another request, nor one of another type than *)
(* it waits for, a Failure excepted.                                        *)
AcceptedPayloadWasSent ==
  tampered = "line" /\ outcome = "accepted" =>
    LET sent == Framed(Encoded(kind, value)) IN
    /\ payload = sent.rest /\ arriving = 1 + Len(payload)
    /\ header = [sent.val EXCEPT !.type = header.type, !.flags = header.flags,
                                 !.request_id = header.request_id]
    /\ kind \in Replies => /\ header.request_id = RequestId
                           /\ header.type \in {TypeOf(kind), "failure"}

=============================================================================
