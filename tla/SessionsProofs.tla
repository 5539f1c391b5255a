--------------------------- MODULE SessionsProofs ---------------------------
(***************************************************************************)
(* Proofs about Sessions, for every set of identities and every bound: a   *)
(* process, the frames on its connection, the replies on their way back    *)
(* and the table of the coordinator agree on which numbers were accepted,  *)
(* whatever breaks, restarts, reloads or is answered late.                 *)
(***************************************************************************)
EXTENDS Sessions, GateProofs

PublicationKinds == {"register", "publish"}
Taken(k, n) == \E i \in DOMAIN accepted[k] : accepted[k][i] = n

(* The process, its table entry and what was accepted of it.  A process     *)
(* that waits for its hello has not taken a number yet.                     *)
ProcessInv(k) ==
  /\ session[k].last_accepted <= Watermark(k)
  /\ Watermark(k) <= session[k].sequence
  /\ Busy(k) /\ ~session[k].greeted =>
       session[k].sequence = 0 /\ session[k].last_accepted = 0

(* The accepted numbers ascend to the watermark, and include the reported.  *)
HistoryInv(k) ==
  /\ \A i \in DOMAIN accepted[k] : accepted[k][i] <= Watermark(k)
  /\ \A i, j \in DOMAIN accepted[k] : i < j => accepted[k][i] < accepted[k][j]
  /\ \A n \in reported[k] : Taken(k, n)

(* The publications on their way carry numbers that ascend from beyond the  *)
(* watermark, and the one that is awaited carries the last number taken.    *)
RequestsInv(k) ==
  LET r == channel[k].requests
  IN  /\ \A i \in DOMAIN r : r[i].kind \in PublicationKinds =>
           Watermark(k) < r[i].sequence /\ r[i].sequence <= session[k].sequence
      /\ \A i, j \in DOMAIN r :
           i < j /\ r[i].kind \in PublicationKinds /\ r[j].kind \in PublicationKinds =>
             r[i].sequence < r[j].sequence
      /\ session[k] # NoSession => \A i \in DOMAIN r : r[i].id <= session[k].next_request_id
      /\ \A i \in DOMAIN r : r[i].id = session[k].pending.id =>
           r[i].kind = session[k].pending.kind /\ r[i].sequence = session[k].sequence

(* The reply to the call that waits says what became of it; a reply to an   *)
(* earlier call has a smaller request_id.                                   *)
RepliesInv(k) ==
  LET r == channel[k].replies
  IN  /\ session[k] # NoSession => \A i \in DOMAIN r : r[i].id <= session[k].next_request_id
      /\ \A i \in DOMAIN r : r[i].id = session[k].pending.id /\ r[i].type = "Reply" =>
           /\ session[k].pending.kind = "hello" => r[i].value \in 0..MaxEpoch
           /\ session[k].pending.kind \in PublicationKinds =>
                r[i].value <= Watermark(k) /\ Taken(k, session[k].sequence)

KeyInv(k) == ProcessInv(k) /\ HistoryInv(k) /\ RequestsInv(k) /\ RepliesInv(k)

IInv == TypeOK /\ \A k \in Keys : KeyInv(k)

-----------------------------------------------------------------------------
(* The numbers that the invariant compares.                                 *)
LEMMA RecordNumbers ==
  /\ \A s \in Session :
       s.sequence \in Nat /\ s.last_accepted \in Nat /\ s.next_request_id \in Nat
  /\ \A f \in Frame : f.id \in Nat /\ f.id > 0 /\ f.sequence \in Nat
  /\ \A r \in Reply : r.id \in Nat /\ r.id > 0 /\ r.value \in Nat
  /\ Sequence \subseteq Nat
<1>1. \A s \in Session :
        s.sequence \in Nat /\ s.last_accepted \in Nat /\ s.next_request_id \in Nat
  BY GateAssumption, SessionsAssumption DEF Session, Sequence
<1>2. \A f \in Frame : f.id \in Nat /\ f.id > 0 /\ f.sequence \in Nat
  BY GateAssumption, SessionsAssumption DEF Frame, Sequence
<1>3. \A r \in Reply : r.id \in Nat /\ r.id > 0 /\ r.value \in Nat
  BY SessionsAssumption DEF Reply
<1>4. Sequence \subseteq Nat
  BY GateAssumption DEF Sequence
<1> QED BY <1>1, <1>2, <1>3, <1>4

(* What a connection carries.                                               *)
LEMMA ChannelItems ==
  ASSUME NEW c \in Channel
  PROVE  /\ \A i \in DOMAIN c.requests : c.requests[i] \in Frame
         /\ \A i \in DOMAIN c.replies : c.replies[i] \in Reply
         /\ c.requests \in Seq(Frame) /\ c.replies \in Seq(Reply)
<1>1. c.requests \in Seq(Frame) /\ c.replies \in Seq(Reply)
  BY DEF Channel
<1> QED BY <1>1

(* The numbers of one identity that the invariant compares.                 *)
LEMMA Numbers ==
  ASSUME TypeOK, NEW k \in Keys
  PROVE  /\ Watermark(k) \in Nat /\ Watermark(k) \in Sequence
         /\ session[k] \in Session /\ channel[k] \in Channel
         /\ session[k].sequence \in Nat /\ session[k].last_accepted \in Nat
         /\ session[k].next_request_id \in Nat
         /\ accepted[k] \in Seq(Sequence)
         /\ \A i \in DOMAIN accepted[k] : accepted[k][i] \in Nat
         /\ \A i \in DOMAIN channel[k].requests :
              /\ channel[k].requests[i].id \in Nat /\ channel[k].requests[i].id > 0
              /\ channel[k].requests[i].sequence \in Nat
         /\ \A i \in DOMAIN channel[k].replies :
              channel[k].replies[i].id \in Nat /\ channel[k].replies[i].id > 0
<1>1. Watermark(k) \in Sequence
  BY GateAssumption DEF TypeOK, GateTypeOK, Watermark, Known, PublisherAuthority, Sequence
<1>2. /\ session[k] \in Session /\ channel[k] \in Channel /\ accepted[k] \in Seq(Sequence)
  BY DEF TypeOK
<1>3. \A i \in DOMAIN accepted[k] : accepted[k][i] \in Sequence
  BY <1>2
<1>4. /\ \A i \in DOMAIN channel[k].requests : channel[k].requests[i] \in Frame
      /\ \A i \in DOMAIN channel[k].replies : channel[k].replies[i] \in Reply
  BY <1>2, ChannelItems
<1> QED BY <1>1, <1>2, <1>3, <1>4, RecordNumbers

(* What is claimed of one identity depends on its own state only.           *)
LEMMA KeyUntouched ==
  ASSUME NEW k \in Keys, KeyInv(k),
         session'[k] = session[k], channel'[k] = channel[k], accepted'[k] = accepted[k],
         reported'[k] = reported[k], Watermark(k)' = Watermark(k)
  PROVE  KeyInv(k)'
<1>1. ProcessInv(k)'
  BY DEF KeyInv, ProcessInv, Busy
<1>2. HistoryInv(k)'
  BY DEF KeyInv, HistoryInv, Taken
<1>3. RequestsInv(k)'
  BY DEF KeyInv, RequestsInv
<1>4. RepliesInv(k)'
  BY DEF KeyInv, RepliesInv, Taken
<1> QED BY <1>1, <1>2, <1>3, <1>4 DEF KeyInv

(* Frames that were cut off, or taken, from a connection leave the others   *)
(* in their order.                                                          *)
LEMMA RequestsKept ==
  ASSUME TypeOK, NEW k \in Keys, RequestsInv(k), Watermark(k)' = Watermark(k),
         session'[k] \in Session, channel'[k] \in Channel,
         NEW shift \in {0, 1},
         \A i \in DOMAIN channel'[k].requests :
           /\ i \in Nat /\ i + shift \in DOMAIN channel[k].requests
           /\ channel'[k].requests[i] = channel[k].requests[i + shift],
         session'[k].sequence >= session[k].sequence,
         session'[k] # NoSession =>
           session[k] # NoSession /\ session'[k].next_request_id >= session[k].next_request_id,
         \/ /\ session'[k].pending = session[k].pending
            /\ session'[k].sequence = session[k].sequence
         \/ session'[k].pending = NoRequest
  PROVE  RequestsInv(k)'
<1> DEFINE r == channel[k].requests
           q == channel'[k].requests
<1>0. /\ session'[k].sequence \in Nat /\ session'[k].next_request_id \in Nat
      /\ session[k].sequence \in Nat /\ session[k].next_request_id \in Nat
      /\ \A i \in DOMAIN q : q[i].id > 0 /\ q[i].id \in Nat /\ q[i].sequence \in Nat
  BY Numbers, ChannelItems, RecordNumbers
<1>1. ASSUME NEW i \in DOMAIN q, q[i].kind \in PublicationKinds
      PROVE  Watermark(k) < q[i].sequence /\ q[i].sequence <= session'[k].sequence
  <2>1. Watermark(k) < q[i].sequence /\ q[i].sequence <= session[k].sequence
    BY <1>1 DEF RequestsInv
  <2> QED BY <1>0, <2>1
<1>2. ASSUME NEW i \in DOMAIN q, NEW j \in DOMAIN q, i < j,
             q[i].kind \in PublicationKinds, q[j].kind \in PublicationKinds
      PROVE  q[i].sequence < q[j].sequence
  <2>1. i + shift < j + shift
    BY <1>2
  <2> QED BY <1>2, <2>1 DEF RequestsInv
<1>3. ASSUME session'[k] # NoSession, NEW i \in DOMAIN q
      PROVE  q[i].id <= session'[k].next_request_id
  <2>1. q[i].id <= session[k].next_request_id
    BY <1>3 DEF RequestsInv
  <2> QED BY <1>0, <1>3, <2>1
<1>4. ASSUME NEW i \in DOMAIN q, q[i].id = session'[k].pending.id
      PROVE  q[i].kind = session'[k].pending.kind /\ q[i].sequence = session'[k].sequence
  <2>1. session'[k].pending # NoRequest
    BY <1>0, <1>4 DEF NoRequest
  <2> QED BY <1>4, <2>1 DEF RequestsInv
<1> QED BY <1>1, <1>2, <1>3, <1>4 DEF RequestsInv

(* Replies that are read or cut off leave the others as they are.           *)
LEMMA RepliesKept ==
  ASSUME TypeOK, NEW k \in Keys, RepliesInv(k), Watermark(k)' = Watermark(k),
         accepted'[k] = accepted[k],
         session'[k] \in Session, channel'[k] \in Channel,
         NEW shift \in {0, 1},
         \A i \in DOMAIN channel'[k].replies :
           /\ i \in Nat /\ i + shift \in DOMAIN channel[k].replies
           /\ channel'[k].replies[i] = channel[k].replies[i + shift],
         session'[k] # NoSession =>
           session[k] # NoSession /\ session'[k].next_request_id >= session[k].next_request_id,
         \/ /\ session'[k].pending = session[k].pending
            /\ session'[k].sequence = session[k].sequence
         \/ session'[k].pending = NoRequest
  PROVE  RepliesInv(k)'
<1> DEFINE r == channel[k].replies
           q == channel'[k].replies
<1>0. /\ session'[k].next_request_id \in Nat /\ session[k].next_request_id \in Nat
      /\ \A i \in DOMAIN q : q[i].id > 0 /\ q[i].id \in Nat
  BY Numbers, ChannelItems, RecordNumbers
<1>1. ASSUME session'[k] # NoSession, NEW i \in DOMAIN q
      PROVE  q[i].id <= session'[k].next_request_id
  <2>1. q[i].id <= session[k].next_request_id
    BY <1>1 DEF RepliesInv
  <2> QED BY <1>0, <1>1, <2>1
<1>2. ASSUME NEW i \in DOMAIN q, q[i].id = session'[k].pending.id, q[i].type = "Reply"
      PROVE  /\ session'[k].pending.kind = "hello" => q[i].value \in 0..MaxEpoch
             /\ session'[k].pending.kind \in PublicationKinds =>
                  q[i].value <= Watermark(k)' /\ Taken(k, session[k].sequence)
                  /\ session'[k].sequence = session[k].sequence
  <2>1. session'[k].pending # NoRequest
    BY <1>0, <1>2 DEF NoRequest
  <2> QED BY <1>2, <2>1 DEF RepliesInv
<1>3. Taken(k, session[k].sequence) /\ session'[k].sequence = session[k].sequence
        => Taken(k, session[k].sequence)'
  BY DEF Taken
<1> QED BY <1>1, <1>2, <1>3 DEF RepliesInv

(* A step of one process or of its connection, which the table and the      *)
(* other identities do not notice.                                          *)
LEMMA LocalStep ==
  ASSUME IInv, NEW k \in Keys, NEW s \in Session, NEW c \in Channel,
         session' = [session EXCEPT ![k] = s], channel' = [channel EXCEPT ![k] = c],
         UNCHANGED <<gateVars, accepted>>,
         reported' \in [Keys -> SUBSET Sequence],
         \A d \in Keys \ {k} : reported'[d] = reported[d],
         KeyInv(k)'
  PROVE  IInv'
<1>1. TypeOK'
  BY DEF IInv, TypeOK, GateTypeOK, gateVars
<1>2. \A d \in Keys : Watermark(d)' = Watermark(d)
  BY DEF gateVars, Watermark, Known
<1>3. \A d \in Keys \ {k} : session'[d] = session[d] /\ channel'[d] = channel[d]
  BY DEF IInv, TypeOK
<1>4. \A d \in Keys \ {k} : KeyInv(d)'
  BY <1>2, <1>3, KeyUntouched DEF IInv
<1> QED BY <1>1, <1>4 DEF IInv

(* Tail and SubSeq, as the lemmas above ask for them.                       *)
LEMMA Shifts ==
  ASSUME NEW T, NEW r \in Seq(T)
  PROVE  /\ \A i \in DOMAIN r : i \in Nat /\ i + 0 \in DOMAIN r /\ r[i] = r[i + 0]
         /\ r # <<>> => /\ Tail(r) \in Seq(T)
                        /\ \A i \in DOMAIN Tail(r) :
                             i \in Nat /\ i + 1 \in DOMAIN r /\ Tail(r)[i] = r[i + 1]
         /\ \A n \in 0..Len(r) :
              /\ SubSeq(r, 1, n) \in Seq(T)
              /\ \A i \in DOMAIN SubSeq(r, 1, n) :
                   i \in Nat /\ i + 0 \in DOMAIN r /\ SubSeq(r, 1, n)[i] = r[i + 0]
<1>1. DOMAIN r = 1..Len(r) /\ Len(r) \in Nat
  OBVIOUS
<1>2. \A i \in DOMAIN r : i \in Nat /\ i + 0 \in DOMAIN r /\ r[i] = r[i + 0]
  BY <1>1
<1>3. ASSUME r # <<>>
      PROVE  /\ Tail(r) \in Seq(T)
             /\ \A i \in DOMAIN Tail(r) :
                  i \in Nat /\ i + 1 \in DOMAIN r /\ Tail(r)[i] = r[i + 1]
  BY <1>1, <1>3
<1>4. ASSUME NEW n \in 0..Len(r)
      PROVE  /\ SubSeq(r, 1, n) \in Seq(T)
             /\ \A i \in DOMAIN SubSeq(r, 1, n) :
                  i \in Nat /\ i + 0 \in DOMAIN r /\ SubSeq(r, 1, n)[i] = r[i + 0]
  BY <1>1, <1>4
<1> QED BY <1>2, <1>3, <1>4

(* A process whose call ends, or that goes away, while its connection is    *)
(* left alone or loses some of what was last sent on it.                    *)
LEMMA EndOfCall ==
  ASSUME IInv, NEW k \in Keys, NEW s \in Session, NEW c \in Channel,
         NEW a \in {0, 1}, NEW b \in {0, 1},
         session' = [session EXCEPT ![k] = s], channel' = [channel EXCEPT ![k] = c],
         \A i \in DOMAIN c.requests :
           i \in Nat /\ i + a \in DOMAIN channel[k].requests
           /\ c.requests[i] = channel[k].requests[i + a],
         \A i \in DOMAIN c.replies :
           i \in Nat /\ i + b \in DOMAIN channel[k].replies
           /\ c.replies[i] = channel[k].replies[i + b],
         s.sequence >= session[k].sequence, s.last_accepted <= Watermark(k),
         s # NoSession =>
           session[k] # NoSession /\ s.next_request_id >= session[k].next_request_id,
         \/ /\ s.pending = session[k].pending /\ s.sequence = session[k].sequence
            /\ s.last_accepted = session[k].last_accepted /\ s.greeted = session[k].greeted
         \/ s.pending = NoRequest,
         UNCHANGED <<gateVars, accepted>>,
         reported' \in [Keys -> SUBSET Sequence],
         \A d \in Keys \ {k} : reported'[d] = reported[d],
         \A n \in reported'[k] : n \in reported[k] \/ Taken(k, n)
  PROVE  IInv'
<1>0. TypeOK /\ KeyInv(k)
  BY DEF IInv
<1>1. session'[k] = s /\ channel'[k] = c
  BY <1>0 DEF TypeOK
<1>2. Watermark(k)' = Watermark(k) /\ accepted'[k] = accepted[k]
  BY DEF gateVars, Watermark, Known
<1>3. RequestsInv(k)'
  BY <1>0, <1>1, <1>2, RequestsKept DEF KeyInv
<1>4. RepliesInv(k)'
  BY <1>0, <1>1, <1>2, RepliesKept DEF KeyInv
<1>5. ProcessInv(k)'
  <2>1. s.sequence \in Nat /\ session[k].sequence \in Nat /\ Watermark(k) \in Nat
    BY <1>0, Numbers, RecordNumbers
  <2> QED BY <1>0, <1>1, <1>2, <2>1 DEF KeyInv, ProcessInv, Busy
<1>6. HistoryInv(k)'
  BY <1>0, <1>2 DEF KeyInv, HistoryInv, Taken
<1>7. KeyInv(k)'
  BY <1>3, <1>4, <1>5, <1>6 DEF KeyInv
<1> QED BY <1>7, LocalStep

(* The same when the process learns nothing and the connection keeps what   *)
(* it carries, or a first part of it.                                       *)
LEMMA QuietEnd ==
  ASSUME IInv, NEW k \in Keys, NEW s \in Session, NEW c \in Channel,
         session' = [session EXCEPT ![k] = s], channel' = [channel EXCEPT ![k] = c],
         \/ c.requests = channel[k].requests
         \/ \E n \in 0..Len(channel[k].requests) :
              c.requests = SubSeq(channel[k].requests, 1, n),
         \/ c.replies = channel[k].replies
         \/ \E n \in 0..Len(channel[k].replies) :
              c.replies = SubSeq(channel[k].replies, 1, n),
         s.sequence >= session[k].sequence, s.last_accepted <= Watermark(k),
         s # NoSession =>
           session[k] # NoSession /\ s.next_request_id >= session[k].next_request_id,
         \/ /\ s.pending = session[k].pending /\ s.sequence = session[k].sequence
            /\ s.last_accepted = session[k].last_accepted /\ s.greeted = session[k].greeted
         \/ s.pending = NoRequest,
         UNCHANGED <<gateVars, accepted, reported>>
  PROVE  IInv'
<1>0. TypeOK /\ channel[k] \in Channel
  BY DEF IInv, TypeOK
<1>1. channel[k].requests \in Seq(Frame) /\ channel[k].replies \in Seq(Reply)
  BY <1>0, ChannelItems
<1>2. \A i \in DOMAIN c.requests :
        i \in Nat /\ i + 0 \in DOMAIN channel[k].requests
        /\ c.requests[i] = channel[k].requests[i + 0]
  BY <1>1, Shifts
<1>3. \A i \in DOMAIN c.replies :
        i \in Nat /\ i + 0 \in DOMAIN channel[k].replies
        /\ c.replies[i] = channel[k].replies[i + 0]
  BY <1>1, Shifts
<1>4. reported' \in [Keys -> SUBSET Sequence] /\ reported' = reported
  BY <1>0 DEF TypeOK
<1>5. 0 \in {0, 1}
  OBVIOUS
<1> QED BY <1>2, <1>3, <1>4, <1>5, EndOfCall

-----------------------------------------------------------------------------
(* The steps of a process.                                                  *)
LEMMA ConnectKeeps ==
  ASSUME IInv, NEW k \in Keys, connect(k)
  PROVE  IInv'
<1> DEFINE f == [id |-> 1, kind |-> "hello", epoch |-> 0, sequence |-> 0]
           p == [id |-> 1, kind |-> "hello"]
           s == [NoSession EXCEPT !.connected = TRUE, !.next_request_id = 1, !.pending = p]
           c == [open |-> TRUE, replies |-> <<>>, requests |-> <<f>>]
<1>0. TypeOK /\ KeyInv(k) /\ session[k] = NoSession
  BY DEF IInv, connect
<1>1. session' = [session EXCEPT ![k] = s] /\ channel' = [channel EXCEPT ![k] = c]
      /\ UNCHANGED <<gateVars, accepted, reported>>
  BY <1>0 DEF connect, TypeOK
<1>2. f \in Frame
  BY GateAssumption, SessionsAssumption DEF Frame, Kind, Sequence
<1>3. c \in Channel /\ c.replies = <<>> /\ c.requests = <<f>>
  BY <1>2 DEF Channel
<1>4. s \in Session /\ s.sequence = 0 /\ s.last_accepted = 0 /\ s.next_request_id = 1
      /\ s.pending = p
  <2>1. p \in [id: 0..MaxRequests, kind: Kind] /\ 1 \in 0..MaxRequests
    BY SessionsAssumption DEF Kind
  <2>2. NoRequest \in [id: 0..MaxRequests, kind: Kind] /\ 0 \in 0..MaxRequests
    BY SessionsAssumption DEF Kind, NoRequest
  <2>3. 0 \in Sequence /\ 0 \in 0..MaxEpoch
    BY GateAssumption DEF Sequence
  <2>4. NoSession \in Session /\ NoSession.sequence = 0 /\ NoSession.last_accepted = 0
    BY <2>2, <2>3 DEF Session, NoSession
  <2> HIDE DEF p
  <2> QED BY <2>1, <2>4 DEF Session
<1>5. session'[k] = s /\ channel'[k] = c
  BY <1>0, <1>1 DEF TypeOK
<1>6. Watermark(k)' = Watermark(k) /\ Watermark(k) \in Nat
  BY <1>0, <1>1, Numbers DEF gateVars, Watermark, Known
<1>7. NoSession.sequence = 0 /\ NoSession.last_accepted = 0
  BY DEF NoSession
<1>8. ProcessInv(k)'
  BY <1>0, <1>4, <1>5, <1>6, <1>7 DEF KeyInv, ProcessInv
<1>9. HistoryInv(k)'
  BY <1>0, <1>1, <1>6 DEF KeyInv, HistoryInv, Taken
<1>10. RequestsInv(k)'
  <2>1. DOMAIN <<f>> = {1} /\ <<f>>[1] = f
    OBVIOUS
  <2>2. f.id = 1 /\ f.kind = "hello" /\ f.sequence = 0 /\ p.id = 1 /\ p.kind = "hello"
    OBVIOUS
  <2>3. f.kind \notin PublicationKinds
    BY <2>2 DEF PublicationKinds
  <2>4. channel'[k].requests = <<f>> /\ session'[k].pending = p /\ session'[k].sequence = 0
        /\ session'[k].next_request_id = 1
    BY <1>3, <1>4, <1>5
  <2> HIDE DEF f, p, s, c
  <2> QED BY <2>1, <2>2, <2>3, <2>4 DEF RequestsInv
<1>11. RepliesInv(k)'
  BY <1>3, <1>5 DEF RepliesInv
<1>12. KeyInv(k)'
  BY <1>8, <1>9, <1>10, <1>11 DEF KeyInv
<1> HIDE DEF s, c
<1> QED BY <1>0, <1>1, <1>3, <1>4, <1>12, LocalStep DEF TypeOK

(* exchange: a number newly taken is larger than any on its way.            *)
LEMMA ExchangeKeeps ==
  ASSUME IInv, NEW k \in Keys, NEW s \in Session, NEW kind \in Kind,
         session[k].greeted, ~Busy(k),
         s.greeted = session[k].greeted, s.pending = session[k].pending,
         s.next_request_id = session[k].next_request_id,
         s.last_accepted = session[k].last_accepted,
         s.sequence >= session[k].sequence,
         kind \in PublicationKinds => s.sequence > session[k].sequence,
         exchange(k, s, kind), UNCHANGED <<gateVars, accepted, reported>>
  PROVE  IInv'
<1> DEFINE id == s.next_request_id + 1
           f == [id |-> id, kind |-> kind, epoch |-> s.epoch, sequence |-> s.sequence]
           p == [id |-> id, kind |-> kind]
<1>0. TypeOK /\ KeyInv(k)
  BY DEF IInv
<1>1. id \in 1..MaxRequests /\ id \in 0..MaxRequests
  BY RecordNumbers, SessionsAssumption DEF exchange
<1>2. session[k] # NoSession /\ NoSession.greeted = FALSE /\ session[k].pending = NoRequest
  BY DEF NoSession, Busy
<1>3. /\ session[k].next_request_id \in Nat /\ session[k].sequence \in Nat /\ s.sequence \in Nat
      /\ id > session[k].next_request_id /\ Watermark(k) \in Nat
      /\ s.last_accepted <= Watermark(k)
  BY <1>0, <1>1, Numbers, RecordNumbers DEF KeyInv, ProcessInv
<1>4. CASE /\ session' = [session EXCEPT ![k] = [s EXCEPT !.next_request_id = id, !.pending = p]]
           /\ channel' = [channel EXCEPT ![k].requests =
                            IF channel[k].open THEN Append(@, f) ELSE @]
  <2> DEFINE s2 == [s EXCEPT !.next_request_id = id, !.pending = p]
             q == IF channel[k].open THEN Append(channel[k].requests, f)
                  ELSE channel[k].requests
             c2 == [channel[k] EXCEPT !.requests = q]
  <2>1. s2 \in Session /\ s2.next_request_id = id /\ s2.pending = p /\ s2.sequence = s.sequence
        /\ s2.last_accepted = s.last_accepted /\ s2.greeted = s.greeted
    BY <1>1 DEF Session
  <2>2. f \in Frame /\ f.id = id /\ f.kind = kind /\ f.sequence = s.sequence /\ p.id = id
        /\ p.kind = kind
    BY <1>1 DEF Frame, Session
  <2>3. channel[k] \in Channel /\ channel[k].requests \in Seq(Frame)
    BY <1>0, Numbers DEF Channel
  <2>4. q \in Seq(Frame)
    BY <2>2, <2>3
  <2>5. c2 \in Channel /\ c2.requests = q /\ c2.replies = channel[k].replies
    BY <2>3, <2>4 DEF Channel
  <2>6. \A i \in DOMAIN q :
          \/ i \in DOMAIN channel[k].requests /\ q[i] = channel[k].requests[i]
          \/ /\ q[i] = f
             /\ \A j \in DOMAIN channel[k].requests : j < i
             /\ \A j \in DOMAIN q : j > i => FALSE
    BY <2>2, <2>3
  <2>7. session' = [session EXCEPT ![k] = s2] /\ channel' = [channel EXCEPT ![k] = c2]
    BY <1>0, <1>4, <2>3 DEF TypeOK
  <2>8. session'[k] = s2 /\ channel'[k] = c2
    BY <1>0, <2>7 DEF TypeOK
  <2>9. Watermark(k)' = Watermark(k) /\ accepted'[k] = accepted[k] /\ reported'[k] = reported[k]
    BY DEF gateVars, Watermark, Known
  <2> HIDE DEF s2, c2, q, f, p, id
  <2>10. ProcessInv(k)'
    <3>1. Watermark(k) <= session[k].sequence
      BY <1>0 DEF KeyInv, ProcessInv
    <3>2. Watermark(k) <= s.sequence
      BY <1>3, <3>1
    <3>3. session'[k].greeted /\ session'[k].sequence = s.sequence
          /\ session'[k].last_accepted = s.last_accepted
      BY <2>1, <2>8
    <3> QED BY <1>3, <2>9, <3>2, <3>3 DEF ProcessInv
  <2>11. HistoryInv(k)'
    BY <1>0, <2>9 DEF KeyInv, HistoryInv, Taken
  <2>12. RequestsInv(k)'
    <3> DEFINE r == channel[k].requests
    <3>0. \A i \in DOMAIN r : r[i].id \in Nat /\ r[i].sequence \in Nat /\ i \in Nat
                              /\ r[i].id < id
      <4>1. \A i \in DOMAIN r : r[i].id \in Nat /\ r[i].sequence \in Nat /\ i \in Nat
        BY <1>0, <2>3, Numbers
      <4>2. \A i \in DOMAIN r : r[i].id <= session[k].next_request_id
        BY <1>0, <1>2 DEF KeyInv, RequestsInv
      <4> QED BY <1>1, <1>3, <4>1, <4>2
    <3>1. ASSUME NEW i \in DOMAIN q, q[i].kind \in PublicationKinds
          PROVE  Watermark(k) < q[i].sequence /\ q[i].sequence <= s.sequence
      <4>1. CASE i \in DOMAIN r /\ q[i] = r[i]
        <5>1. Watermark(k) < r[i].sequence /\ r[i].sequence <= session[k].sequence
          BY <1>0, <3>1, <4>1 DEF KeyInv, RequestsInv
        <5> QED BY <1>3, <3>0, <4>1, <5>1
      <4>2. CASE q[i] = f
        <5>1. Watermark(k) <= session[k].sequence
          BY <1>0 DEF KeyInv, ProcessInv
        <5> QED BY <1>3, <2>2, <3>1, <4>2, <5>1
      <4> QED BY <2>6, <4>1, <4>2
    <3>2. ASSUME NEW i \in DOMAIN q, NEW j \in DOMAIN q, i < j,
                 q[i].kind \in PublicationKinds, q[j].kind \in PublicationKinds
          PROVE  q[i].sequence < q[j].sequence
      <4>0. j > i
        BY <2>4, <3>2
      <4>1. i \in DOMAIN r /\ q[i] = r[i]
        BY <2>6, <3>2, <4>0
      <4>2. CASE j \in DOMAIN r /\ q[j] = r[j]
        BY <1>0, <3>2, <4>1, <4>2 DEF KeyInv, RequestsInv
      <4>3. CASE q[j] = f
        <5>1. r[i].sequence <= session[k].sequence
          BY <1>0, <3>2, <4>1 DEF KeyInv, RequestsInv
        <5> QED BY <1>3, <2>2, <3>0, <3>2, <4>1, <4>3, <5>1
      <4> QED BY <2>6, <4>2, <4>3
    <3>3. ASSUME NEW i \in DOMAIN q
          PROVE  /\ q[i].id <= id
                 /\ q[i].id = id => q[i].kind = kind /\ q[i].sequence = s.sequence
      <4>1. CASE i \in DOMAIN r /\ q[i] = r[i]
        BY <1>1, <3>0, <4>1
      <4>2. CASE q[i] = f
        BY <1>1, <2>2, <4>2
      <4> QED BY <2>6, <4>1, <4>2
    <3> HIDE DEF r
    <3> QED BY <2>1, <2>2, <2>5, <2>8, <2>9, <3>1, <3>2, <3>3 DEF RequestsInv
  <2>13. RepliesInv(k)'
    <3>1. \A i \in DOMAIN channel[k].replies : channel[k].replies[i].id < id
      <4>1. \A i \in DOMAIN channel[k].replies : channel[k].replies[i].id \in Nat
        BY <1>0, Numbers
      <4>2. \A i \in DOMAIN channel[k].replies :
              channel[k].replies[i].id <= session[k].next_request_id
        BY <1>0, <1>2 DEF KeyInv, RepliesInv
      <4> QED BY <1>1, <1>3, <4>1, <4>2
    <3>2. \A i \in DOMAIN channel[k].replies :
            channel[k].replies[i].id <= id /\ channel[k].replies[i].id # id
      <4>1. \A i \in DOMAIN channel[k].replies : channel[k].replies[i].id \in Nat
        BY <1>0, Numbers
      <4> QED BY <1>1, <3>1, <4>1
    <3> QED BY <2>1, <2>2, <2>5, <2>8, <3>2 DEF RepliesInv
  <2>14. KeyInv(k)'
    BY <2>10, <2>11, <2>12, <2>13 DEF KeyInv
  <2>15. reported' \in [Keys -> SUBSET Sequence]
    BY <1>0 DEF TypeOK
  <2> QED BY <2>1, <2>5, <2>7, <2>14, <2>15, LocalStep
<1>5. CASE session' = [session EXCEPT ![k] = [s EXCEPT !.next_request_id = id]]
           /\ UNCHANGED channel
  <2> DEFINE s2 == [s EXCEPT !.next_request_id = id]
  <2>1. s2 \in Session /\ s2.next_request_id = id /\ s2.pending = NoRequest
        /\ s2.sequence = s.sequence /\ s2.last_accepted = s.last_accepted
    BY <1>1, <1>2 DEF Session
  <2>2. channel' = [channel EXCEPT ![k] = channel[k]] /\ channel[k] \in Channel
    BY <1>0, <1>5 DEF TypeOK
  <2>3. s2.next_request_id >= session[k].next_request_id
    BY <1>1, <1>3, <2>1
  <2> HIDE DEF s2, id
  <2>4. session' = [session EXCEPT ![k] = s2]
    BY <1>5 DEF s2
  <2> QED BY <1>2, <1>3, <2>1, <2>2, <2>3, <2>4, QuietEnd
<1>6. CASE /\ session' = [session EXCEPT ![k] =
                            [s EXCEPT !.next_request_id = id, !.connected = FALSE]]
           /\ channel' = [channel EXCEPT ![k].open = FALSE]
  <2> DEFINE s2 == [s EXCEPT !.next_request_id = id, !.connected = FALSE]
             c2 == [channel[k] EXCEPT !.open = FALSE]
  <2>1. s2 \in Session /\ s2.next_request_id = id /\ s2.pending = NoRequest
        /\ s2.sequence = s.sequence /\ s2.last_accepted = s.last_accepted
    BY <1>1, <1>2 DEF Session
  <2>2. channel[k] \in Channel
    BY <1>0 DEF TypeOK
  <2>3. channel' = [channel EXCEPT ![k] = c2] /\ c2 \in Channel
        /\ c2.requests = channel[k].requests /\ c2.replies = channel[k].replies
    BY <1>0, <1>6, <2>2 DEF TypeOK, Channel
  <2>4. s2.next_request_id >= session[k].next_request_id
    BY <1>1, <1>3, <2>1
  <2> HIDE DEF s2, c2, id
  <2>5. session' = [session EXCEPT ![k] = s2]
    BY <1>6 DEF s2
  <2> QED BY <1>2, <1>3, <2>1, <2>3, <2>4, <2>5, QuietEnd
<1> QED BY <1>4, <1>5, <1>6 DEF exchange

(* publish: the number is taken whatever becomes of the exchange.           *)
LEMMA PublishKeeps ==
  ASSUME IInv, NEW k \in Keys, NEW kind \in PublicationKinds, publish(k, kind)
  PROVE  IInv'
<1> DEFINE n == session[k].sequence + 1
           s == [session[k] EXCEPT !.sequence = n]
<1>0. TypeOK /\ KeyInv(k) /\ session[k] \in Session /\ channel[k] \in Channel
  BY DEF IInv, TypeOK
<1>1. session[k].sequence \in Nat /\ session[k].next_request_id \in Nat
  BY <1>0, RecordNumbers
<1>2. n \in Sequence /\ n \in Nat /\ n > session[k].sequence /\ n >= session[k].sequence
  BY <1>1, GateAssumption DEF publish, Sequence
<1>3. /\ s \in Session /\ s.sequence = n /\ s.greeted = session[k].greeted
      /\ s.pending = session[k].pending /\ s.last_accepted = session[k].last_accepted
      /\ s.next_request_id = session[k].next_request_id
  <2> HIDE DEF n
  <2> QED BY <1>0, <1>2 DEF Session
<1>4. /\ session[k].greeted /\ ~Busy(k)
      /\ exchange(k, s, kind) \/ refuse_exchange(k, s)
      /\ UNCHANGED <<gateVars, accepted, reported>>
  BY DEF publish, next_sequence
<1>5. kind \in Kind
  BY DEF PublicationKinds, Kind
<1> HIDE DEF s, n
<1>6. CASE exchange(k, s, kind)
  BY <1>2, <1>3, <1>4, <1>5, <1>6, ExchangeKeeps
<1>7. CASE refuse_exchange(k, s)
  <2>1. session' = [session EXCEPT ![k] = s] /\ channel' = [channel EXCEPT ![k] = channel[k]]
    BY <1>0, <1>7 DEF refuse_exchange, TypeOK
  <2>2. session[k] # NoSession /\ s.pending = NoRequest
    BY <1>3, <1>4 DEF NoSession, Busy
  <2>3. s.last_accepted <= Watermark(k) /\ s.next_request_id >= session[k].next_request_id
    BY <1>0, <1>1, <1>3 DEF KeyInv, ProcessInv
  <2> QED BY <1>0, <1>2, <1>3, <1>4, <2>1, <2>2, <2>3, QuietEnd
<1> QED BY <1>4, <1>6, <1>7

(* heartbeat: a query takes a request_id and no number.                     *)
LEMMA HeartbeatKeeps ==
  ASSUME IInv, NEW k \in Keys, heartbeat(k)
  PROVE  IInv'
<1>0. session[k] \in Session
  BY DEF IInv, TypeOK
<1>1. session[k].sequence >= session[k].sequence
  BY <1>0, RecordNumbers
<1>2. "query" \in Kind /\ "query" \notin PublicationKinds
  BY DEF Kind, PublicationKinds
<1>3. /\ session[k].greeted /\ ~Busy(k) /\ exchange(k, session[k], "query")
      /\ UNCHANGED <<gateVars, accepted, reported>>
  BY DEF heartbeat
<1> QED BY <1>0, <1>1, <1>2, <1>3, ExchangeKeeps

(* Types of a process that has not connected.                               *)
LEMMA NoSessionType ==
  /\ NoSession \in Session /\ NoRequest \in [id: 0..MaxRequests, kind: Kind]
  /\ NoSession.sequence = 0 /\ NoSession.last_accepted = 0 /\ NoSession.pending = NoRequest
  /\ NoSession.greeted = FALSE /\ [NoSession EXCEPT !.connected = FALSE] = NoSession
<1>1. NoRequest \in [id: 0..MaxRequests, kind: Kind] /\ 0 \in 0..MaxRequests
  BY SessionsAssumption DEF Kind, NoRequest
<1>2. 0 \in Sequence /\ 0 \in 0..MaxEpoch
  BY GateAssumption DEF Sequence
<1>3. /\ NoSession \in Session
      /\ NoSession.sequence = 0 /\ NoSession.last_accepted = 0 /\ NoSession.pending = NoRequest
      /\ NoSession.greeted = FALSE
  BY <1>1, <1>2 DEF Session, NoSession
<1>4. [NoSession EXCEPT !.connected = FALSE] = NoSession
  <2>1. NoSession.connected = FALSE
    BY DEF NoSession
  <2> QED BY <1>3, <2>1 DEF Session
<1> QED BY <1>1, <1>3, <1>4

(* A call that fails leaves the numbers as they are, or leaves no process.  *)
LEMMA FailedType ==
  ASSUME IInv, NEW k \in Keys, Busy(k)
  PROVE  LET s == Failed(session[k])
         IN  /\ s \in Session /\ s.pending = NoRequest
             /\ s.sequence = session[k].sequence
             /\ s.last_accepted <= Watermark(k)
             /\ session[k] # NoSession
             /\ s # NoSession => s.next_request_id = session[k].next_request_id
             /\ s # NoSession => [s EXCEPT !.connected = FALSE].next_request_id
                                   = session[k].next_request_id
             /\ s = NoSession => [s EXCEPT !.connected = FALSE] = NoSession
             /\ [s EXCEPT !.connected = FALSE] \in Session
             /\ [s EXCEPT !.connected = FALSE].sequence = session[k].sequence
             /\ [s EXCEPT !.connected = FALSE].pending = NoRequest
             /\ [s EXCEPT !.connected = FALSE].last_accepted <= Watermark(k)
<1>0. TypeOK /\ KeyInv(k) /\ session[k] \in Session /\ Watermark(k) \in Nat
  <2>1. TypeOK /\ KeyInv(k)
    BY DEF IInv
  <2> QED BY <2>1, Numbers
<1>1. session[k] # NoSession /\ session[k].last_accepted <= Watermark(k)
  BY <1>0, NoSessionType DEF Busy, KeyInv, ProcessInv
<1>2. CASE session[k].greeted
  <2> DEFINE s == [session[k] EXCEPT !.pending = NoRequest]
             t == [s EXCEPT !.connected = FALSE]
  <2>1. s \in Session /\ s.pending = NoRequest /\ s.sequence = session[k].sequence
        /\ s.last_accepted = session[k].last_accepted /\ s.greeted = TRUE
        /\ s.next_request_id = session[k].next_request_id
    BY <1>0, <1>2, NoSessionType DEF Session
  <2> HIDE DEF s
  <2>2. t \in Session /\ t.pending = NoRequest /\ t.sequence = session[k].sequence
        /\ t.last_accepted = session[k].last_accepted
        /\ t.next_request_id = session[k].next_request_id
    BY <2>1 DEF Session
  <2>3. s # NoSession
    BY <2>1, NoSessionType
  <2>4. Failed(session[k]) = s
    BY <1>2 DEF Failed, s
  <2> QED BY <1>1, <2>1, <2>2, <2>3, <2>4
<1>3. CASE ~session[k].greeted
  <2>1. session[k].sequence = 0 /\ session[k].last_accepted = 0
    BY <1>0, <1>3 DEF KeyInv, ProcessInv
  <2>2. Failed(session[k]) = NoSession
    BY <1>3 DEF Failed
  <2> QED BY <1>0, <1>1, <2>1, <2>2, NoSessionType
<1> QED BY <1>2, <1>3

(* A wait that ends in an error of the socket.                              *)
LEMMA ErrorKeeps ==
  ASSUME IInv, NEW k \in Keys, receive_error(k) \/ receive_closed(k)
  PROVE  IInv'
<1> DEFINE s == Failed(session[k])
           t == [s EXCEPT !.connected = FALSE]
<1>0. /\ TypeOK /\ Busy(k) /\ session[k] \in Session /\ channel[k] \in Channel
      /\ channel' = [channel EXCEPT ![k] = channel[k]]
      /\ UNCHANGED <<gateVars, accepted, reported>>
  BY DEF IInv, TypeOK, receive_error, receive_closed
<1>1. session' = [session EXCEPT ![k] = s] \/ session' = [session EXCEPT ![k] = t]
  BY DEF receive_error, receive_closed
<1>2. session[k].sequence >= session[k].sequence
      /\ session[k].next_request_id >= session[k].next_request_id
  BY <1>0, RecordNumbers
<1>3. /\ s \in Session /\ s.pending = NoRequest /\ s.sequence = session[k].sequence
      /\ s.last_accepted <= Watermark(k) /\ session[k] # NoSession
      /\ s # NoSession => s.next_request_id = session[k].next_request_id
  BY <1>0, FailedType
<1>4. /\ t \in Session /\ t.pending = NoRequest /\ t.sequence = session[k].sequence
      /\ t.last_accepted <= Watermark(k)
      /\ t # NoSession => t.next_request_id = session[k].next_request_id
  BY <1>0, FailedType
<1> HIDE DEF s, t
<1>5. CASE session' = [session EXCEPT ![k] = s]
  BY <1>0, <1>2, <1>3, <1>5, QuietEnd
<1>6. CASE session' = [session EXCEPT ![k] = t]
  BY <1>0, <1>2, <1>3, <1>4, <1>6, QuietEnd
<1> QED BY <1>1, <1>5, <1>6

(* The connection ends, and the process with it or not.                     *)
LEMMA DisconnectKeeps ==
  ASSUME IInv, NEW k \in Keys, close(k) \/ Die(k)
  PROVE  IInv'
<1> DEFINE s == [session[k] EXCEPT !.connected = FALSE]
           t == [session[k] EXCEPT !.connected = FALSE, !.greeted = FALSE,
                                   !.pending = NoRequest]
<1>0. TypeOK /\ KeyInv(k) /\ session[k] \in Session /\ channel[k] \in Channel
      /\ Disconnect(k) /\ UNCHANGED <<gateVars, accepted, reported>>
  BY DEF IInv, TypeOK, close, Die
<1>1. /\ session[k].sequence >= session[k].sequence
      /\ session[k].next_request_id >= session[k].next_request_id
      /\ session[k].last_accepted <= Watermark(k)
  BY <1>0, RecordNumbers DEF KeyInv, ProcessInv
<1>2. session[k] # NoSession
  BY NoSessionType DEF close, Die
<1>3. PICK n \in 0..Len(channel[k].requests) :
        channel' = [channel EXCEPT ![k] =
          [open |-> FALSE, replies |-> <<>>, requests |-> SubSeq(@.requests, 1, n)]]
  BY <1>0 DEF Disconnect
<1> DEFINE c == [open |-> FALSE, replies |-> <<>>,
                 requests |-> SubSeq(channel[k].requests, 1, n)]
<1>4. channel' = [channel EXCEPT ![k] = c]
  BY <1>3
<1>5. channel[k].requests \in Seq(Frame) /\ channel[k].replies \in Seq(Reply)
  BY <1>0, ChannelItems
<1>6. SubSeq(channel[k].requests, 1, n) \in Seq(Frame)
  BY <1>5, Shifts
<1>7. SubSeq(channel[k].replies, 1, 0) = <<>> /\ 0 \in 0..Len(channel[k].replies)
  BY <1>5
<1>8. c \in Channel /\ c.requests = SubSeq(channel[k].requests, 1, n) /\ c.replies = <<>>
  BY <1>6 DEF Channel
<1>9. /\ s \in Session /\ s.sequence = session[k].sequence /\ s.greeted = session[k].greeted
      /\ s.last_accepted = session[k].last_accepted /\ s.pending = session[k].pending
      /\ s.next_request_id = session[k].next_request_id
  BY <1>0 DEF Session
<1>10. /\ t \in Session /\ t.sequence = session[k].sequence
       /\ t.last_accepted = session[k].last_accepted /\ t.pending = NoRequest
       /\ t.next_request_id = session[k].next_request_id
  BY <1>0, NoSessionType DEF Session
<1>11. session' = [session EXCEPT ![k] = s] \/ session' = [session EXCEPT ![k] = t]
  BY <1>0 DEF close, Die, TypeOK
<1> HIDE DEF s, t, c
<1>12. CASE session' = [session EXCEPT ![k] = s]
  BY <1>0, <1>1, <1>2, <1>4, <1>7, <1>8, <1>9, <1>12, QuietEnd
<1>13. CASE session' = [session EXCEPT ![k] = t]
  BY <1>0, <1>1, <1>2, <1>4, <1>7, <1>8, <1>10, <1>13, QuietEnd
<1> QED BY <1>11, <1>12, <1>13

(* The connection breaks under both ends.                                   *)
LEMMA BreakKeeps ==
  ASSUME IInv, NEW k \in Keys, Break(k)
  PROVE  IInv'
<1>0. TypeOK /\ KeyInv(k) /\ session[k] \in Session /\ channel[k] \in Channel
      /\ UNCHANGED <<gateVars, accepted, reported>>
      /\ session' = [session EXCEPT ![k] = session[k]]
  BY DEF IInv, TypeOK, Break
<1>1. /\ session[k].sequence >= session[k].sequence
      /\ session[k].next_request_id >= session[k].next_request_id
      /\ session[k].last_accepted <= Watermark(k)
  BY <1>0, RecordNumbers DEF KeyInv, ProcessInv
<1>2. PICK n \in 0..Len(channel[k].requests), m \in 0..Len(channel[k].replies) :
        channel' = [channel EXCEPT ![k] =
          [open |-> FALSE, requests |-> SubSeq(@.requests, 1, n),
           replies |-> SubSeq(@.replies, 1, m)]]
  BY DEF Break
<1> DEFINE c == [open |-> FALSE, requests |-> SubSeq(channel[k].requests, 1, n),
                 replies |-> SubSeq(channel[k].replies, 1, m)]
<1>3. channel' = [channel EXCEPT ![k] = c]
  BY <1>2
<1>4. channel[k].requests \in Seq(Frame) /\ channel[k].replies \in Seq(Reply)
  BY <1>0, ChannelItems
<1>5. SubSeq(channel[k].requests, 1, n) \in Seq(Frame)
      /\ SubSeq(channel[k].replies, 1, m) \in Seq(Reply)
  BY <1>4, Shifts
<1>6. c \in Channel /\ c.requests = SubSeq(channel[k].requests, 1, n)
      /\ c.replies = SubSeq(channel[k].replies, 1, m)
  BY <1>5 DEF Channel
<1> HIDE DEF c
<1> QED BY <1>0, <1>1, <1>3, <1>6, QuietEnd

(* A reply is read: what the process is told was accepted, and the          *)
(* watermark it learns is not ahead of the table.                           *)
LEMMA ReceiveKeeps ==
  ASSUME IInv, NEW k \in Keys, receive(k)
  PROVE  IInv'
<1>0. /\ TypeOK /\ KeyInv(k) /\ session[k] \in Session /\ channel[k] \in Channel
      /\ Busy(k) /\ channel[k].replies # <<>> /\ Watermark(k) \in Nat
      /\ UNCHANGED <<gateVars, accepted>>
  <2>1. TypeOK /\ KeyInv(k)
    BY DEF IInv
  <2> QED BY <2>1, Numbers DEF receive
<1>1. PICK reply \in Reply : reply = Head(channel[k].replies)
      /\ reply = channel[k].replies[1] /\ 1 \in DOMAIN channel[k].replies
  <2>1. channel[k].replies \in Seq(Reply)
    BY <1>0, ChannelItems
  <2> QED BY <1>0, <2>1
<1> DEFINE c == [channel[k] EXCEPT !.replies = Tail(channel[k].replies)]
           s == Learnt(session[k], reply)
           success == /\ session[k].pending.kind \in PublicationKinds
                      /\ Answers(reply, session[k].pending) /\ reply.type = "Reply"
<1>2. channel[k].requests \in Seq(Frame) /\ channel[k].replies \in Seq(Reply)
      /\ Tail(channel[k].replies) \in Seq(Reply)
  BY <1>0, ChannelItems, Shifts
<1>3. c \in Channel /\ c.requests = channel[k].requests
      /\ c.replies = Tail(channel[k].replies)
  BY <1>0, <1>2 DEF Channel
<1>4. session' = [session EXCEPT ![k] = s] /\ channel' = [channel EXCEPT ![k] = c]
      /\ reported' = [reported EXCEPT ![k] =
                        IF success THEN @ \cup {session[k].sequence} ELSE @]
  BY <1>0, <1>1 DEF receive, TypeOK, PublicationKinds
<1>5. /\ session[k] # NoSession /\ session[k].sequence \in Sequence
      /\ session[k].sequence >= session[k].sequence
      /\ session[k].next_request_id >= session[k].next_request_id
      /\ session[k].last_accepted <= Watermark(k)
  BY <1>0, NoSessionType, RecordNumbers DEF Busy, Session, KeyInv, ProcessInv
<1>6. reply.id = session[k].pending.id /\ reply.type = "Reply" =>
        /\ session[k].pending.kind = "hello" => reply.value \in 0..MaxEpoch
        /\ session[k].pending.kind \in PublicationKinds =>
             reply.value <= Watermark(k) /\ Taken(k, session[k].sequence)
  BY <1>0, <1>1 DEF KeyInv, RepliesInv
<1>7. /\ s \in Session /\ s.pending = NoRequest /\ s.sequence = session[k].sequence
      /\ s.last_accepted <= Watermark(k)
      /\ s # NoSession => s.next_request_id = session[k].next_request_id
  <2> DEFINE done == [session[k] EXCEPT !.pending = NoRequest]
  <2>1. /\ done \in Session /\ done.pending = NoRequest
        /\ done.sequence = session[k].sequence
        /\ done.last_accepted = session[k].last_accepted
        /\ done.next_request_id = session[k].next_request_id
    BY <1>0, NoSessionType DEF Session
  <2>2. CASE s = Failed(session[k])
    BY <1>0, <2>2, FailedType
  <2>3. CASE s # Failed(session[k])
    <3>1. Answers(reply, session[k].pending) /\ reply.type # "Failure"
      BY <2>3 DEF Learnt
    <3>2. reply.id = session[k].pending.id /\ reply.type = "Reply"
      BY <3>1 DEF Answers, Reply
    <3>3. CASE session[k].pending.kind = "hello"
      <4>1. s = [done EXCEPT !.epoch = reply.value, !.greeted = TRUE]
        BY <3>1, <3>3 DEF Learnt
      <4>2. reply.value \in 0..MaxEpoch
        BY <1>6, <3>2, <3>3
      <4> HIDE DEF done
      <4> QED BY <1>5, <2>1, <4>1, <4>2 DEF Session
    <3>4. CASE session[k].pending.kind = "query"
      <4>1. s = done
        BY <3>1, <3>4 DEF Learnt
      <4> QED BY <1>5, <2>1, <4>1
    <3>5. CASE session[k].pending.kind \in PublicationKinds
      <4>1. s = [done EXCEPT !.last_accepted = reply.value]
        BY <3>1, <3>5 DEF Learnt, PublicationKinds
      <4>2. reply.value <= Watermark(k)
        BY <1>6, <3>2, <3>5
      <4>3. reply.value \in Sequence
        <5>1. Watermark(k) \in Sequence /\ reply.value \in Nat
          BY <1>0, Numbers, RecordNumbers
        <5> QED BY <4>2, <5>1, GateAssumption DEF Sequence
      <4> HIDE DEF done
      <4> QED BY <1>5, <2>1, <4>1, <4>2, <4>3 DEF Session
    <3>6. session[k].pending.kind \in Kind
      BY <1>0 DEF Session
    <3> QED BY <3>3, <3>4, <3>5, <3>6 DEF Kind, PublicationKinds
  <2> QED BY <2>2, <2>3
<1>8. /\ \A i \in DOMAIN c.requests :
           i \in Nat /\ i + 0 \in DOMAIN channel[k].requests
           /\ c.requests[i] = channel[k].requests[i + 0]
      /\ \A i \in DOMAIN c.replies :
           i \in Nat /\ i + 1 \in DOMAIN channel[k].replies
           /\ c.replies[i] = channel[k].replies[i + 1]
  BY <1>0, <1>2, <1>3, Shifts
<1>9. success => Taken(k, session[k].sequence)
  BY <1>6 DEF Answers
<1> HIDE DEF s, c, success
<1>10. /\ reported' \in [Keys -> SUBSET Sequence]
       /\ \A d \in Keys \ {k} : reported'[d] = reported[d]
       /\ \A n \in reported'[k] : n \in reported[k] \/ Taken(k, n)
  BY <1>0, <1>4, <1>5, <1>9 DEF TypeOK
<1>11. 0 \in {0, 1} /\ 1 \in {0, 1}
  OBVIOUS
<1> QED BY <1>0, <1>3, <1>4, <1>5, <1>7, <1>8, <1>10, <1>11, EndOfCall

-----------------------------------------------------------------------------
(* Append keeps what a sequence holds, and puts one item after it.          *)
LEMMA Appended ==
  ASSUME NEW T, NEW s \in Seq(T), NEW x \in T
  PROVE  /\ Append(s, x) \in Seq(T)
         /\ \A i \in DOMAIN s : i \in DOMAIN Append(s, x) /\ Append(s, x)[i] = s[i]
         /\ \A i \in DOMAIN Append(s, x) :
              \/ i \in DOMAIN s /\ Append(s, x)[i] = s[i]
              \/ /\ Append(s, x)[i] = x
                 /\ \A j \in DOMAIN Append(s, x) : j <= i
         /\ Len(s) + 1 \in DOMAIN Append(s, x) /\ Append(s, x)[Len(s) + 1] = x
<1>1. DOMAIN s = 1..Len(s) /\ Len(s) \in Nat
  OBVIOUS
<1>2. DOMAIN Append(s, x) = 1..(Len(s) + 1)
  OBVIOUS
<1>3. \A i \in 1..Len(s) : Append(s, x)[i] = s[i]
  OBVIOUS
<1>4. Append(s, x) \in Seq(T) /\ Append(s, x)[Len(s) + 1] = x
  OBVIOUS
<1>5. ASSUME NEW i \in 1..(Len(s) + 1)
      PROVE  i \in 1..Len(s) \/ (i = Len(s) + 1 /\ \A j \in 1..(Len(s) + 1) : j <= i)
  BY <1>1
<1> QED BY <1>1, <1>2, <1>3, <1>4, <1>5

(* The steps of the coordinator.  A frame is taken from a connection, and   *)
(* its number accepted or not; its answer says so, and may be lost.         *)
LEMMA Dispatched ==
  ASSUME IInv, NEW k \in Keys, NEW c \in Channel, NEW frame \in Frame, NEW reply \in Reply,
         channel[k].requests # <<>>, frame = channel[k].requests[1],
         channel' = [channel EXCEPT ![k] = c], c.requests = Tail(channel[k].requests),
         \/ c.replies = channel[k].replies
         \/ c.replies = Append(channel[k].replies, reply),
         UNCHANGED <<session, reported>>, GateTypeOK',
         accepted' \in [Keys -> Seq(Sequence)],
         \A d \in Keys \ {k} : accepted'[d] = accepted[d] /\ Watermark(d)' = Watermark(d),
         \/ Watermark(k)' = Watermark(k) /\ accepted'[k] = accepted[k]
         \/ /\ frame.kind \in PublicationKinds /\ Watermark(k)' = frame.sequence
            /\ accepted'[k] = Append(accepted[k], frame.sequence),
         reply.id = frame.id,
         reply.type = "Reply" =>
           /\ frame.kind = "hello" => reply.value \in 0..MaxEpoch
           /\ frame.kind \in PublicationKinds =>
                /\ reply.value = frame.sequence /\ Watermark(k)' = frame.sequence
                /\ accepted'[k] = Append(accepted[k], frame.sequence)
  PROVE  IInv'
<1> DEFINE r == channel[k].requests
           p == channel[k].replies
           a == accepted[k]
           b == accepted'[k]
<1>0. TypeOK /\ KeyInv(k) /\ channel[k] \in Channel /\ session[k] \in Session
  BY DEF IInv, TypeOK
<1>1. r \in Seq(Frame) /\ p \in Seq(Reply) /\ a \in Seq(Sequence)
  BY <1>0, ChannelItems DEF TypeOK
<1>2. session'[k] = session[k] /\ reported'[k] = reported[k] /\ channel'[k] = c
  BY <1>0 DEF TypeOK
<1>3. TypeOK'
  BY <1>0 DEF TypeOK
<1>4. /\ Watermark(k) \in Nat /\ frame.sequence \in Nat /\ frame.id \in Nat /\ frame.id > 0
      /\ session[k].sequence \in Nat /\ session[k].last_accepted \in Nat
      /\ session[k].next_request_id \in Nat
  BY <1>0, Numbers, RecordNumbers
<1>5. 1 \in DOMAIN r /\ r[1] = frame
  BY <1>1
<1>6. frame.kind \in PublicationKinds =>
        Watermark(k) < frame.sequence /\ frame.sequence <= session[k].sequence
  BY <1>0, <1>5 DEF KeyInv, RequestsInv
<1>7. /\ Watermark(k)' \in Nat /\ Watermark(k) <= Watermark(k)'
      /\ Watermark(k)' <= session[k].sequence
  <2>1. Watermark(k) <= session[k].sequence
    BY <1>0 DEF KeyInv, ProcessInv
  <2> QED BY <1>4, <1>6, <2>1
<1>8. ProcessInv(k)'
  <2>1. session[k].last_accepted <= Watermark(k)
    BY <1>0 DEF KeyInv, ProcessInv
  <2>2. session[k].last_accepted <= Watermark(k)'
    BY <1>4, <1>7, <2>1
  <2> QED BY <1>0, <1>2, <1>7, <2>2 DEF KeyInv, ProcessInv, Busy
<1>f. frame.sequence \in Sequence
  BY DEF Frame
<1>9. \A i \in DOMAIN b : \/ i \in DOMAIN a /\ b[i] = a[i]
                          \/ /\ b[i] = frame.sequence
                             /\ frame.kind \in PublicationKinds
                             /\ Watermark(k)' = frame.sequence
                             /\ \A j \in DOMAIN b : j <= i
  <2>1. CASE b = a
    BY <2>1
  <2>2. CASE /\ frame.kind \in PublicationKinds /\ Watermark(k)' = frame.sequence
             /\ b = Append(a, frame.sequence)
    <3> HIDE DEF a, b
    <3> QED BY <1>1, <1>f, <2>2, Appended
  <2> QED BY <2>1, <2>2
<1>10. \A i \in DOMAIN a : i \in DOMAIN b /\ b[i] = a[i]
  <2>1. b = a \/ b = Append(a, frame.sequence)
    OBVIOUS
  <2> HIDE DEF a, b
  <2> QED BY <1>1, <1>f, <2>1, Appended
<1>11. \A i \in DOMAIN a : a[i] \in Nat /\ a[i] <= Watermark(k)
  <2>1. \A i \in DOMAIN a : a[i] \in Nat
    BY <1>0, Numbers
  <2> QED BY <1>0, <2>1 DEF KeyInv, HistoryInv
<1>12. \A n : Taken(k, n) => Taken(k, n)'
  BY <1>10 DEF Taken
<1>13. HistoryInv(k)'
  <2>1. \A i \in DOMAIN b : b[i] <= Watermark(k)'
    BY <1>4, <1>7, <1>9, <1>11
  <2>2. ASSUME NEW i \in DOMAIN b, NEW j \in DOMAIN b, i < j
        PROVE  b[i] < b[j]
    <3>1. i \in DOMAIN a /\ b[i] = a[i]
      <4>1. i \in Nat /\ j \in Nat
        BY <1>1
      <4>2. ~(j <= i)
        BY <2>2, <4>1
      <4> QED BY <1>9, <4>2
    <3>2. CASE j \in DOMAIN a /\ b[j] = a[j]
      BY <1>0, <2>2, <3>1, <3>2 DEF KeyInv, HistoryInv
    <3>3. CASE b[j] = frame.sequence /\ frame.kind \in PublicationKinds
      BY <1>4, <1>6, <1>11, <3>1, <3>3
    <3> QED BY <1>9, <3>2, <3>3
  <2>3. \A n \in reported[k] : Taken(k, n)'
    BY <1>0, <1>12 DEF KeyInv, HistoryInv
  <2> QED BY <1>2, <2>1, <2>2, <2>3 DEF HistoryInv
<1>14. RequestsInv(k)'
  <2> DEFINE q == c.requests
  <2>0. \A i \in DOMAIN q : i \in Nat /\ i + 1 \in DOMAIN r /\ q[i] = r[i + 1] /\ 1 < i + 1
    <3>1. \A i \in DOMAIN q : i \in Nat /\ i + 1 \in DOMAIN r /\ q[i] = r[i + 1]
      BY <1>1, Shifts
    <3>2. \A i \in DOMAIN q : i \in 1..Len(q)
      BY <1>1, ChannelItems
    <3> QED BY <3>1, <3>2
  <2>1. ASSUME NEW i \in DOMAIN q, q[i].kind \in PublicationKinds
        PROVE  Watermark(k)' < q[i].sequence /\ q[i].sequence <= session[k].sequence
    <3>1. Watermark(k) < r[i + 1].sequence /\ r[i + 1].sequence <= session[k].sequence
      BY <1>0, <2>0, <2>1 DEF KeyInv, RequestsInv
    <3>2. frame.kind \in PublicationKinds => frame.sequence < r[i + 1].sequence
      BY <1>0, <1>5, <2>0, <2>1 DEF KeyInv, RequestsInv
    <3> QED BY <2>0, <3>1, <3>2
  <2>2. ASSUME NEW i \in DOMAIN q, NEW j \in DOMAIN q, i < j,
               q[i].kind \in PublicationKinds, q[j].kind \in PublicationKinds
        PROVE  q[i].sequence < q[j].sequence
    <3>1. i + 1 < j + 1
      BY <2>0, <2>2
    <3> QED BY <1>0, <2>0, <2>2, <3>1 DEF KeyInv, RequestsInv
  <2>3. session[k] # NoSession => \A i \in DOMAIN q : q[i].id <= session[k].next_request_id
    BY <1>0, <2>0 DEF KeyInv, RequestsInv
  <2>4. \A i \in DOMAIN q : q[i].id = session[k].pending.id =>
          q[i].kind = session[k].pending.kind /\ q[i].sequence = session[k].sequence
    BY <1>0, <2>0 DEF KeyInv, RequestsInv
  <2> HIDE DEF r
  <2> QED BY <1>2, <2>1, <2>2, <2>3, <2>4 DEF RequestsInv
<1>15. RepliesInv(k)'
  <2> DEFINE q == c.replies
  <2>0. \A i \in DOMAIN q : (i \in DOMAIN p /\ q[i] = p[i]) \/ q[i] = reply
    <3>1. q = p \/ q = Append(p, reply)
      OBVIOUS
    <3> HIDE DEF p, q
    <3> QED BY <1>1, <3>1, Appended
  <2>1. ASSUME session[k] # NoSession, NEW i \in DOMAIN q
        PROVE  q[i].id <= session[k].next_request_id
    <3>1. CASE i \in DOMAIN p /\ q[i] = p[i]
      BY <1>0, <2>1, <3>1 DEF KeyInv, RepliesInv
    <3>2. CASE q[i] = reply
      BY <1>0, <1>5, <2>1, <3>2 DEF KeyInv, RequestsInv
    <3> QED BY <2>0, <3>1, <3>2
  <2>2. ASSUME NEW i \in DOMAIN q, q[i].id = session[k].pending.id, q[i].type = "Reply"
        PROVE  /\ session[k].pending.kind = "hello" => q[i].value \in 0..MaxEpoch
               /\ session[k].pending.kind \in PublicationKinds =>
                    q[i].value <= Watermark(k)' /\ Taken(k, session[k].sequence)'
    <3>1. CASE i \in DOMAIN p /\ q[i] = p[i]
      <4>1. /\ session[k].pending.kind = "hello" => q[i].value \in 0..MaxEpoch
            /\ session[k].pending.kind \in PublicationKinds =>
                 q[i].value <= Watermark(k) /\ Taken(k, session[k].sequence)
        BY <1>0, <2>2, <3>1 DEF KeyInv, RepliesInv
      <4>2. q[i].value \in Nat
        BY <1>1, <3>1, RecordNumbers
      <4>3. q[i].value <= Watermark(k) => q[i].value <= Watermark(k)'
        BY <1>4, <1>7, <4>2
      <4>4. Taken(k, session[k].sequence) => Taken(k, session[k].sequence)'
        BY <1>2, <1>10 DEF Taken
      <4> QED BY <4>1, <4>3, <4>4
    <3>2. CASE q[i] = reply
      <4>1. frame.kind = session[k].pending.kind /\ frame.sequence = session[k].sequence
        BY <1>0, <1>5, <2>2, <3>2 DEF KeyInv, RequestsInv
      <4>2. frame.kind = "hello" => reply.value \in 0..MaxEpoch
        BY <2>2, <3>2
      <4>3. ASSUME frame.kind \in PublicationKinds
            PROVE  reply.value <= Watermark(k)' /\ Taken(k, session[k].sequence)'
        <5>1. reply.value = frame.sequence /\ Watermark(k)' = frame.sequence
              /\ b = Append(a, frame.sequence)
          BY <2>2, <3>2, <4>3
        <5>2. Len(a) + 1 \in DOMAIN b /\ b[Len(a) + 1] = frame.sequence
          <6> HIDE DEF a, b
          <6> QED BY <1>1, <1>f, <5>1, Appended
        <5>3. reply.value <= Watermark(k)'
          BY <1>4, <5>1
        <5>4. \E i1 \in DOMAIN b : b[i1] = session[k].sequence
          BY <4>1, <5>2
        <5>5. Taken(k, session[k].sequence)'
          BY <5>4 DEF Taken
        <5> QED BY <5>3, <5>5
      <4> QED BY <3>2, <4>1, <4>2, <4>3
    <3> QED BY <2>0, <3>1, <3>2
  <2> HIDE DEF p
  <2> QED BY <1>2, <2>1, <2>2 DEF RepliesInv
<1>16. KeyInv(k)'
  BY <1>8, <1>13, <1>14, <1>15 DEF KeyInv
<1>17. \A d \in Keys \ {k} : KeyInv(d)'
  <2>1. \A d \in Keys \ {k} : channel'[d] = channel[d] /\ KeyInv(d)
    BY <1>0 DEF TypeOK, IInv
  <2> QED BY <2>1, KeyUntouched
<1> QED BY <1>3, <1>16, <1>17 DEF IInv

(* What the gate's contract says of a publication that is accepted.         *)
LEMMA AcceptedByGate ==
  ASSUME TypeOK, NEW ctx \in PublicationContext,
         \/ register_publisher(ctx)
         \/ check_authority(ctx) /\ finish(ctx) /\ coordinator_epoch' = coordinator_epoch
  PROVE  /\ GateTypeOK' /\ Watermark(ctx.key)' = ctx.sequence
         /\ ctx.sequence >= Watermark(ctx.key)
         /\ \A d \in Keys \ {ctx.key} : Watermark(d)' = Watermark(d)
<1>0. GateTypeOK /\ ctx.key \in Keys
  BY DEF TypeOK, PublicationContext
<1>1. GateTypeOK'
  BY <1>0, RegisterType, FinishType
<1>2. Contract!Accept(ctx.key, ctx.sequence) /\ Watermark(ctx.key)' = ctx.sequence
  BY <1>0, RegisterAccepts, FinishAccepts
<1>3. /\ ctx.sequence >= [x \in Keys |-> Watermark(x)][ctx.key]
      /\ [x \in Keys |-> Watermark(x)]' =
           [[x \in Keys |-> Watermark(x)] EXCEPT ![ctx.key] = ctx.sequence]
  BY <1>2 DEF Contract!Accept
<1>4. \A d \in Keys : [x \in Keys |-> Watermark(x)]'[d] = Watermark(d)'
  OBVIOUS
<1>5. \A d \in Keys \ {ctx.key} : Watermark(d)' = Watermark(d)
  BY <1>3, <1>4
<1>6. ctx.sequence >= Watermark(ctx.key)
  BY <1>0, <1>3
<1> QED BY <1>1, <1>2, <1>5, <1>6

(* dispatch: each kind of frame, and the refusals.                          *)
LEMMA DispatchKeeps ==
  ASSUME IInv, NEW k \in Keys, dispatch(k)
  PROVE  IInv'
<1>0. /\ TypeOK /\ KeyInv(k) /\ channel[k] \in Channel /\ channel[k].requests # <<>>
      /\ UNCHANGED <<session, reported>>
      /\ accepted[k] \in Seq(Sequence) /\ accepted \in [Keys -> Seq(Sequence)]
  BY DEF IInv, TypeOK, dispatch
<1>1. channel[k].requests \in Seq(Frame) /\ channel[k].replies \in Seq(Reply)
  BY <1>0, ChannelItems
<1>2. PICK frame \in Frame : frame = Head(channel[k].requests)
      /\ frame = channel[k].requests[1]
  BY <1>0, <1>1
<1> DEFINE ctx == Context(k, frame)
<1>3. /\ ctx \in PublicationContext /\ ctx.key = k /\ ctx.sequence = frame.sequence
  BY SessionsAssumption DEF Context, PublicationContext, Frame
<1>4. ASSUME NEW type \in {"Reply", "Failure"}, NEW value \in Nat, AnswerWith(k, type, value),
             GateTypeOK', accepted' \in [Keys -> Seq(Sequence)],
             \A d \in Keys \ {k} : accepted'[d] = accepted[d] /\ Watermark(d)' = Watermark(d),
             \/ Watermark(k)' = Watermark(k) /\ accepted'[k] = accepted[k]
             \/ /\ frame.kind \in PublicationKinds /\ Watermark(k)' = frame.sequence
                /\ accepted'[k] = Append(accepted[k], frame.sequence),
             type = "Reply" =>
               /\ frame.kind = "hello" => value \in 0..MaxEpoch
               /\ frame.kind \in PublicationKinds =>
                    /\ value = frame.sequence /\ Watermark(k)' = frame.sequence
                    /\ accepted'[k] = Append(accepted[k], frame.sequence)
      PROVE  IInv'
  <2> DEFINE reply == [id |-> frame.id, type |-> type, value |-> value]
             t == Tail(channel[k].requests)
             p == IF channel[k].open THEN Append(channel[k].replies, reply)
                  ELSE channel[k].replies
             c == [channel[k] EXCEPT !.requests = t, !.replies = p]
  <2>1. reply \in Reply /\ reply.id = frame.id /\ reply.type = type /\ reply.value = value
    BY DEF Reply, Frame
  <2>2. t \in Seq(Frame)
    BY <1>0, <1>1
  <2>3. p \in Seq(Reply) /\ (p = channel[k].replies \/ p = Append(channel[k].replies, reply))
    <3> HIDE DEF reply
    <3> QED BY <1>1, <2>1, Appended
  <2>4. channel' = [channel EXCEPT ![k].requests = t, ![k].replies = p]
    BY <1>2, <1>4 DEF AnswerWith
  <2> HIDE DEF reply, t, p
  <2>5. channel' = [channel EXCEPT ![k] = c]
    BY <1>0, <2>4 DEF TypeOK
  <2>6. c \in Channel /\ c.requests = t /\ c.replies = p
    BY <1>0, <2>2, <2>3 DEF Channel
  <2> HIDE DEF c
  <2>7. c.requests = Tail(channel[k].requests)
        /\ (c.replies = channel[k].replies \/ c.replies = Append(channel[k].replies, reply))
    BY <2>3, <2>6 DEF t
  <2>8. reply.type = "Reply" =>
          /\ frame.kind = "hello" => reply.value \in 0..MaxEpoch
          /\ frame.kind \in PublicationKinds =>
               /\ reply.value = frame.sequence /\ Watermark(k)' = frame.sequence
               /\ accepted'[k] = Append(accepted[k], frame.sequence)
    BY <1>4, <2>1
  <2> QED BY <1>0, <1>2, <1>4, <2>1, <2>5, <2>6, <2>7, <2>8, Dispatched
<1>5. ASSUME UNCHANGED <<gateVars, accepted>>
      PROVE  /\ GateTypeOK' /\ accepted' \in [Keys -> Seq(Sequence)]
             /\ \A d \in Keys : accepted'[d] = accepted[d] /\ Watermark(d)' = Watermark(d)
  BY <1>0, <1>5 DEF TypeOK, GateTypeOK, gateVars, Watermark, Known
<1>6. CASE frame.kind = "hello" /\ DispatchHello(k)
  <2>1. AnswerWith(k, "Reply", coordinator_epoch) /\ UNCHANGED <<gateVars, accepted>>
    BY <1>6 DEF DispatchHello
  <2>2. coordinator_epoch \in Nat /\ coordinator_epoch \in 0..MaxEpoch
    BY <1>0, GateAssumption DEF TypeOK, GateTypeOK, Epoch
  <2>3. frame.kind \notin PublicationKinds
    BY <1>6 DEF PublicationKinds
  <2> QED BY <1>4, <1>5, <2>1, <2>2, <2>3
<1>7. CASE frame.kind = "query" /\ DispatchQuery(k)
  <2>1. AnswerWith(k, "Reply", 0) /\ UNCHANGED <<gateVars, accepted>>
    BY <1>7 DEF DispatchQuery
  <2>2. frame.kind \notin PublicationKinds /\ frame.kind # "hello"
    BY <1>7 DEF PublicationKinds
  <2> QED BY <1>4, <1>5, <2>1, <2>2
<1>8. CASE Refuse(k)
  <2>1. AnswerWith(k, "Failure", 0) /\ UNCHANGED <<gateVars, accepted>>
    BY <1>8 DEF Refuse
  <2> QED BY <1>4, <1>5, <2>1
<1>9. CASE \/ frame.kind = "register" /\ DispatchRegister(k, ctx)
           \/ frame.kind = "publish" /\ DispatchPublish(k, ctx)
  <2>1. /\ \/ register_publisher(ctx)
           \/ check_authority(ctx) /\ finish(ctx) /\ coordinator_epoch' = coordinator_epoch
        /\ AnswerWith(k, "Reply", Raise(Watermark(k), ctx.sequence)) /\ Accept(k, ctx)
        /\ frame.kind \in PublicationKinds /\ frame.kind # "hello"
    BY <1>9 DEF DispatchRegister, DispatchPublish, PublicationKinds
  <2> HIDE DEF ctx
  <2>2. /\ GateTypeOK' /\ Watermark(k)' = frame.sequence /\ frame.sequence >= Watermark(k)
        /\ \A d \in Keys \ {k} : Watermark(d)' = Watermark(d)
    BY <1>0, <1>3, <2>1, AcceptedByGate
  <2>3. Watermark(k) \in Nat /\ frame.sequence \in Nat /\ frame.sequence \in Sequence
    BY <1>0, Numbers, RecordNumbers DEF Frame
  <2>4. Raise(Watermark(k), ctx.sequence) = frame.sequence
    BY <1>3, <2>2, <2>3 DEF Raise
  <2>5. accepted' = [accepted EXCEPT ![k] = Append(accepted[k], frame.sequence)]
    BY <1>3, <2>1 DEF Accept
  <2>6. Append(accepted[k], frame.sequence) \in Seq(Sequence)
    BY <1>0, <2>3, Appended
  <2>7. /\ accepted' \in [Keys -> Seq(Sequence)]
        /\ accepted'[k] = Append(accepted[k], frame.sequence)
        /\ \A d \in Keys \ {k} : accepted'[d] = accepted[d]
    BY <1>0, <2>5, <2>6
  <2> QED BY <1>4, <2>1, <2>2, <2>3, <2>4, <2>7
<1> QED BY <1>2, <1>6, <1>7, <1>8, <1>9 DEF dispatch

(* A fence, or a load of a state: no watermark moves.                       *)
LEMMA TableStepKeeps ==
  ASSUME IInv, Reload \/ \E k \in Keys : Fence(k)
  PROVE  IInv'
<1>0. TypeOK /\ GateTypeOK /\ UNCHANGED <<session, channel, accepted, reported>>
  BY DEF IInv, TypeOK, Reload, Fence
<1>1. GateTypeOK'
  BY <1>0, FenceType, RestoreType DEF Reload, Fence
<1>2. [x \in Keys |-> Watermark(x)]' = [x \in Keys |-> Watermark(x)]
  BY <1>0, FenceFences, RestoreAdvances DEF Reload, Fence, Contract!Fence, Contract!NewEpoch
<1>3. \A d \in Keys : Watermark(d)' = Watermark(d)
  <2>1. \A d \in Keys : [x \in Keys |-> Watermark(x)]'[d] = Watermark(d)'
    OBVIOUS
  <2> QED BY <1>2, <2>1
<1>4. \A d \in Keys : KeyInv(d)'
  BY <1>0, <1>3, KeyUntouched DEF IInv
<1> QED BY <1>0, <1>1, <1>4 DEF IInv, TypeOK

(* A restart: every connection ends and what was not dispatched is lost.    *)
LEMMA RestartKeeps ==
  ASSUME IInv, Restart
  PROVE  IInv'
<1>0. /\ TypeOK /\ GateTypeOK /\ UNCHANGED <<session, accepted, reported>>
      /\ RestoreAuthority
  BY DEF IInv, TypeOK, Restart
<1>1. GateTypeOK'
  BY <1>0, RestoreType
<1>2. [x \in Keys |-> Watermark(x)]' = [x \in Keys |-> Watermark(x)]
  BY <1>0, RestoreAdvances DEF Contract!NewEpoch
<1>3. \A d \in Keys : Watermark(d)' = Watermark(d)
  <2>1. \A d \in Keys : [x \in Keys |-> Watermark(x)]'[d] = Watermark(d)'
    OBVIOUS
  <2> QED BY <1>2, <2>1
<1>4. \A k \in Keys : /\ channel'[k] \in Channel /\ channel'[k].requests = <<>>
                      /\ channel'[k].replies = channel[k].replies
  <2> TAKE k \in Keys
  <2>1. channel'[k] = [channel[k] EXCEPT !.open = FALSE, !.requests = <<>>]
    BY DEF Restart
  <2>2. channel[k] \in Channel /\ <<>> \in Seq(Frame)
    BY <1>0 DEF TypeOK
  <2>3. PICK none \in Seq(Frame) : none = <<>>
    BY <2>2
  <2>4. [channel[k] EXCEPT !.open = FALSE, !.requests = none] \in Channel
        /\ [channel[k] EXCEPT !.open = FALSE, !.requests = none].requests = none
        /\ [channel[k] EXCEPT !.open = FALSE, !.requests = none].replies = channel[k].replies
    BY <2>2 DEF Channel
  <2> QED BY <2>1, <2>3, <2>4
<1>5. TypeOK'
  <2>1. channel' = [k \in Keys |-> channel'[k]]
    BY DEF Restart
  <2> QED BY <1>0, <1>1, <1>4, <2>1 DEF TypeOK
<1>6. ASSUME NEW k \in Keys
      PROVE  KeyInv(k)'
  <2>0. KeyInv(k) /\ Watermark(k)' = Watermark(k)
    BY <1>3 DEF IInv
  <2>1. ProcessInv(k)'
    BY <1>0, <2>0 DEF KeyInv, ProcessInv, Busy
  <2>2. HistoryInv(k)'
    BY <1>0, <2>0 DEF KeyInv, HistoryInv, Taken
  <2>3. RequestsInv(k)'
    <3>1. DOMAIN channel'[k].requests = {}
      BY <1>4
    <3> QED BY <3>1 DEF RequestsInv
  <2>4. RepliesInv(k)'
    BY <1>0, <1>4, <2>0 DEF KeyInv, RepliesInv, Taken
  <2> QED BY <2>1, <2>2, <2>3, <2>4 DEF KeyInv
<1> QED BY <1>5, <1>6 DEF IInv

-----------------------------------------------------------------------------
(* Nothing has been taken, sent or accepted.                                *)
LEMMA InitIInv == Init => IInv
<1> SUFFICES ASSUME Init PROVE IInv
  OBVIOUS
<1> DEFINE c == [open |-> FALSE, requests |-> <<>>, replies |-> <<>>]
<1>1. GateTypeOK /\ \A k \in Keys : Watermark(k) = 0
  BY GateInitContract DEF Init, GateInit, Watermark, Known
<1>2. c \in Channel /\ c.requests = <<>> /\ c.replies = <<>>
  BY DEF Channel
<1> HIDE DEF c
<1>3. \A k \in Keys : /\ session[k] = NoSession /\ channel[k] = c
                      /\ accepted[k] = <<>> /\ reported[k] = {}
  BY DEF Init, c
<1>4. TypeOK
  BY <1>1, <1>2, NoSessionType DEF Init, TypeOK, c
<1>5. ASSUME NEW k \in Keys
      PROVE  KeyInv(k)
  <2>1. ProcessInv(k)
    BY <1>1, <1>3, NoSessionType DEF ProcessInv, Busy
  <2>2. HistoryInv(k)
    BY <1>3 DEF HistoryInv
  <2>3. RequestsInv(k) /\ RepliesInv(k)
    BY <1>2, <1>3 DEF RequestsInv, RepliesInv
  <2> QED BY <2>1, <2>2, <2>3 DEF KeyInv
<1> QED BY <1>4, <1>5 DEF IInv

(* Every step keeps the invariant.                                          *)
LEMMA NextKeepsIInv == IInv /\ [Next]_vars => IInv'
<1> SUFFICES ASSUME IInv, [Next]_vars PROVE IInv'
  OBVIOUS
<1>1. ASSUME NEW k \in Keys, connect(k) PROVE IInv'
  BY <1>1, ConnectKeeps
<1>2. ASSUME NEW k \in Keys, publish(k, "register") \/ publish(k, "publish") PROVE IInv'
  <2>1. "register" \in PublicationKinds /\ "publish" \in PublicationKinds
    BY DEF PublicationKinds
  <2> QED BY <1>2, <2>1, PublishKeeps
<1>3. ASSUME NEW k \in Keys, heartbeat(k) PROVE IInv'
  BY <1>3, HeartbeatKeeps
<1>4. ASSUME NEW k \in Keys, receive(k) PROVE IInv'
  BY <1>4, ReceiveKeeps
<1>5. ASSUME NEW k \in Keys, receive_error(k) \/ receive_closed(k) PROVE IInv'
  BY <1>5, ErrorKeeps
<1>6. ASSUME NEW k \in Keys, close(k) \/ Die(k) PROVE IInv'
  BY <1>6, DisconnectKeeps
<1>7. ASSUME NEW k \in Keys, Break(k) PROVE IInv'
  BY <1>7, BreakKeeps
<1>8. ASSUME NEW k \in Keys, dispatch(k) PROVE IInv'
  BY <1>8, DispatchKeeps
<1>9. ASSUME NEW k \in Keys, Fence(k) PROVE IInv'
  BY <1>9, TableStepKeeps
<1>10. CASE Reload
  BY <1>10, TableStepKeeps
<1>11. CASE Restart
  BY <1>11, RestartKeeps
<1>12. CASE UNCHANGED vars
  <2>1. TypeOK'
    BY <1>12 DEF IInv, TypeOK, GateTypeOK, vars, gateVars
  <2>2. \A k \in Keys : KeyInv(k)'
    <3>1. \A k \in Keys : Watermark(k)' = Watermark(k)
      BY <1>12 DEF vars, gateVars, Watermark, Known
    <3>2. UNCHANGED <<session, channel, accepted, reported>>
      BY <1>12 DEF vars
    <3> QED BY <3>1, <3>2, KeyUntouched DEF IInv
  <2> QED BY <2>1, <2>2 DEF IInv
<1> QED BY <1>1, <1>2, <1>3, <1>4, <1>5, <1>6, <1>7, <1>8, <1>9, <1>10, <1>11, <1>12 DEF Next

(* The inductive invariant holds in every reachable state.                  *)
LEMMA AlwaysIInv == Spec => []IInv
BY InitIInv, NextKeepsIInv, PTL DEF Spec

(* The sessions, the connections, the table and the histories keep their    *)
(* types: no counter passes its bound and no reply is of an unknown kind.   *)
THEOREM TypeCorrect == Spec => []TypeOK
<1>1. IInv => TypeOK
  BY DEF IInv
<1> QED BY <1>1, AlwaysIInv, PTL

(* publisher.hpp:33-35.  Whatever is lost, late or restarted, the numbers   *)
(* of a process are accepted in the order it took them and each once.       *)
THEOREM AcceptedAlwaysInOrder == Spec => []AcceptedInOrder
<1>1. IInv => AcceptedInOrder
  BY DEF IInv, KeyInv, HistoryInv, AcceptedInOrder
<1> QED BY <1>1, AlwaysIInv, PTL

(* A publication whose call succeeded (expect_accepted) was accepted: the   *)
(* reply to an earlier request is never taken for the one that is awaited.  *)
THEOREM SuccessAlwaysAccepted == Spec => []SuccessMeansAccepted
<1>1. IInv => SuccessMeansAccepted
  BY DEF IInv, KeyInv, HistoryInv, Taken, SuccessMeansAccepted
<1> QED BY <1>1, AlwaysIInv, PTL

(* last_accepted_sequence() is never ahead of the table's watermark, nor    *)
(* the watermark of the numbers taken: a number just taken never regresses. *)
THEOREM WatermarkAlwaysBetween == Spec => []WatermarkBetween
<1>1. IInv => WatermarkBetween
  BY DEF IInv, KeyInv, ProcessInv, WatermarkBetween
<1> QED BY <1>1, AlwaysIInv, PTL

(* What is sent over connections that break, lose and delay frames reaches  *)
(* the publisher table only by steps of AuthorityContract.                  *)
LEMMA SessionsStepContract ==
  ASSUME IInv, [Next]_vars
  PROVE  [Contract!Next]_Contract!contractVars
<1>0. TypeOK /\ GateTypeOK
  BY DEF IInv, TypeOK
<1>1. CASE UNCHANGED gateVars
  BY <1>1 DEF gateVars, Contract!contractVars, FencedKeys, Watermark, Known
<1>2. ASSUME NEW ctx \in PublicationContext,
             \/ check_authority(ctx) /\ finish(ctx) /\ coordinator_epoch' = coordinator_epoch
             \/ register_publisher(ctx)
      PROVE  Contract!Next
  <2>1. Contract!Accept(ctx.key, ctx.sequence)
    BY <1>0, <1>2, RegisterAccepts, FinishAccepts
  <2> QED BY <2>1 DEF Contract!Next, PublicationContext
<1>3. ASSUME NEW k \in Keys, dispatch(k) PROVE UNCHANGED gateVars \/ Contract!Next
  <2>1. channel[k] \in Channel /\ channel[k].requests # <<>>
    BY <1>0, <1>3 DEF TypeOK, dispatch
  <2>2. channel[k].requests \in Seq(Frame)
    BY <2>1, ChannelItems
  <2>3. PICK frame \in Frame : frame = Head(channel[k].requests)
    BY <2>1, <2>2
  <2>4. PICK ctx : ctx = Context(k, frame)
    OBVIOUS
  <2>5. ctx \in PublicationContext
    BY <2>4, SessionsAssumption DEF Context, PublicationContext, Frame
  <2>6. CASE DispatchHello(k) \/ DispatchQuery(k) \/ Refuse(k)
    BY <2>6 DEF DispatchHello, DispatchQuery, Refuse
  <2>7. CASE DispatchRegister(k, ctx) \/ DispatchPublish(k, ctx)
    <3>1. \/ check_authority(ctx) /\ finish(ctx) /\ coordinator_epoch' = coordinator_epoch
          \/ register_publisher(ctx)
      BY <2>7 DEF DispatchRegister, DispatchPublish
    <3> QED BY <1>2, <2>5, <3>1
  <2> QED BY <1>3, <2>3, <2>4, <2>6, <2>7 DEF dispatch
<1>4. ASSUME NEW k \in Keys, Fence(k) PROVE Contract!Next
  BY <1>0, <1>4, FenceFences DEF Fence, Contract!Next
<1>5. CASE Restart \/ Reload
  <2>1. RestoreAuthority
    BY <1>5, Zenon DEF Restart, Reload
  <2> QED BY <1>0, <2>1, RestoreAdvances DEF Contract!Next
<1>6. ASSUME NEW k \in Keys,
             \/ connect(k) \/ publish(k, "register") \/ publish(k, "publish") \/ heartbeat(k)
             \/ receive(k) \/ receive_error(k) \/ receive_closed(k) \/ close(k) \/ Die(k)
             \/ Break(k)
      PROVE  UNCHANGED gateVars
  BY <1>6 DEF connect, publish, heartbeat, receive, receive_error, receive_closed, close, Die,
              Break
<1>7. CASE UNCHANGED vars
  BY <1>1, <1>7 DEF vars, gateVars
<1> QED
  BY <1>1, <1>3, <1>4, <1>5, <1>6, <1>7 DEF Next

(* README.md:271-275.  The contract of the table, as publishers meet it     *)
(* over connections that break, with replies that come late and a           *)
(* coordinator that restarts or loads a state while they run.               *)
THEOREM SessionsImplementContract == Spec => ImplementsContract
<1>1. Init => Contract!Init
  BY GateInitContract DEF Init
<1>2. IInv /\ [Next]_vars => [Contract!Next]_Contract!contractVars
  BY SessionsStepContract
<1> QED BY <1>1, <1>2, AlwaysIInv, PTL DEF Spec, ImplementsContract, Contract!Spec
=============================================================================
