------------------------------ MODULE Sessions ------------------------------
(***************************************************************************)
(* Publisher processes and the coordinator they talk to: the session of an *)
(* ObservationPublisher (publisher.cpp) over the exchange of its           *)
(* FederationClient (client.cpp), the dispatch of its frames               *)
(* (coordinator.cpp) and the gate they reach.                              *)
(*                                                                         *)
(* A boot identity belongs to one process, as publisher.hpp:21 asks, so    *)
(* sessions are indexed by identity.  A connection keeps the order of      *)
(* frames, and may break at any moment, taking with it any number of the   *)
(* frames last sent; what the coordinator has read it may still dispatch.  *)
(* The coordinator may restart, which ends every connection, or load a     *)
(* state while it runs, which ends none.                                   *)
(***************************************************************************)
EXTENDS Gate, Sequences

CONSTANT MaxRequests   \* bound of the model: largest request_id of a client

ASSUME SessionsAssumption == MaxRequests \in Nat \ {0} /\ Federations # {}

VARIABLES
  session,    \* each ObservationPublisher and its client
  channel,    \* its connection: frames on their way, and whether it is up
  accepted,   \* history: the numbers accepted of each identity, in order
  reported    \* history: the numbers its process was told were accepted

vars == <<gateVars, session, channel, accepted, reported>>

Kind == {"hello", "register", "publish", "query"}

Frame == [id: 1..MaxRequests, kind: Kind, epoch: 0..MaxEpoch, sequence: Sequence]

(* type is Reply (or HelloAck) or Failure; value is what the process reads  *)
(* of the payload: the epoch of a hello, the watermark of a publication.    *)
Reply == [id: 1..MaxRequests, type: {"Reply", "Failure"}, value: Nat]

(* pending is the request_id an exchange waits for, 0 between exchanges;    *)
(* greeted is set once connect has returned the publisher.                  *)
Session ==
  [connected: BOOLEAN, greeted: BOOLEAN, epoch: 0..MaxEpoch, sequence: Sequence,
   last_accepted: Sequence, next_request_id: 0..MaxRequests,
   pending: [id: 0..MaxRequests, kind: Kind]]

NoRequest == [id |-> 0, kind |-> "hello"]

NoSession ==
  [connected |-> FALSE, greeted |-> FALSE, epoch |-> 0, sequence |-> 0,
   last_accepted |-> 0, next_request_id |-> 0, pending |-> NoRequest]

Channel == [open: BOOLEAN, requests: Seq(Frame), replies: Seq(Reply)]

TypeOK ==
  /\ GateTypeOK
  /\ session \in [Keys -> Session]
  /\ channel \in [Keys -> Channel]
  /\ accepted \in [Keys -> Seq(Sequence)]
  /\ reported \in [Keys -> SUBSET Sequence]

Init ==
  /\ GateInit
  /\ session = [k \in Keys |-> NoSession]
  /\ channel = [k \in Keys |-> [open |-> FALSE, requests |-> <<>>, replies |-> <<>>]]
  /\ accepted = [k \in Keys |-> <<>>]
  /\ reported = [k \in Keys |-> {}]

-----------------------------------------------------------------------------
(* The publisher.                                                           *)

Busy(k) == session[k].pending # NoRequest

(* exchange up to its wait: the frame takes the next request_id, and is     *)
(* sent; or it is over the frame bound and nothing is; or the write fails   *)
(* and the client is no longer connected.  A frame sent to a peer that has  *)
(* gone is lost.                                                            *)
exchange(k, s, kind) ==
  LET id == s.next_request_id + 1
      frame == [id |-> id, kind |-> kind, epoch |-> s.epoch, sequence |-> s.sequence]
  IN  /\ id <= MaxRequests
      /\ \/ /\ session' = [session EXCEPT ![k] =
                 [s EXCEPT !.next_request_id = id, !.pending = [id |-> id, kind |-> kind]]]
            /\ channel' = [channel EXCEPT ![k].requests =
                 IF channel[k].open THEN Append(@, frame) ELSE @]
         \/ /\ session' = [session EXCEPT ![k] = [s EXCEPT !.next_request_id = id]]
            /\ UNCHANGED channel
         \/ /\ session' = [session EXCEPT ![k] =
                 [s EXCEPT !.next_request_id = id, !.connected = FALSE]]
            /\ channel' = [channel EXCEPT ![k].open = FALSE]

(* A client that is not connected refuses the call.                         *)
refuse_exchange(k, s) == session' = [session EXCEPT ![k] = s] /\ UNCHANGED channel

(* connect opens a connection and says hello over it, alone on the channel. *)
connect(k) ==
  /\ session[k] = NoSession
  /\ session' = [session EXCEPT ![k].connected = TRUE, ![k].next_request_id = 1,
                                ![k].pending = [id |-> 1, kind |-> "hello"]]
  /\ channel' = [channel EXCEPT ![k] =
       [open |-> TRUE, replies |-> <<>>,
        requests |-> <<[id |-> 1, kind |-> "hello", epoch |-> 0, sequence |-> 0]>>]]
  /\ UNCHANGED <<gateVars, accepted, reported>>

(* Mutant of next_sequence: it counts what was accepted.                    *)
next_sequence_from_accepted(s) == s.last_accepted + 1

next_sequence(s) == s.sequence + 1

(* register_self and the publish methods: make_context takes the next       *)
(* number first, whatever then becomes of the exchange.                     *)
publish(k, kind) ==
  LET s == [session[k] EXCEPT !.sequence = next_sequence(session[k])]
  IN  /\ session[k].greeted /\ ~Busy(k)
      /\ session[k].sequence < MaxSequence
      /\ IF session[k].connected THEN exchange(k, s, kind) ELSE refuse_exchange(k, s)
      /\ UNCHANGED <<gateVars, accepted, reported>>

(* heartbeat: a query of the coordinator's health.                          *)
heartbeat(k) ==
  /\ session[k].greeted /\ ~Busy(k) /\ session[k].connected
  /\ exchange(k, session[k], "query")
  /\ UNCHANGED <<gateVars, accepted, reported>>

(* Mutant of Answers: the reply is taken to be the one that is awaited.     *)
AnswersAny(reply, pending) == TRUE

Answers(reply, pending) == reply.id = pending.id

(* The call that waits returns an error.  A connect that fails destroys the *)
(* publisher it was making, and its identity has not been used.             *)
Failed(s) == IF s.greeted THEN [s EXCEPT !.pending = NoRequest] ELSE NoSession

(* What a reply tells the process: connect learns the epoch, a publication  *)
(* (expect_accepted) the watermark; a failure or the reply to another       *)
(* request is an error.                                                     *)
Learnt(s, reply) ==
  LET done == [s EXCEPT !.pending = NoRequest]
  IN  CASE ~Answers(reply, s.pending) \/ reply.type = "Failure" -> Failed(s)
        [] OTHER ->
             CASE s.pending.kind = "hello" ->
                    [done EXCEPT !.epoch = reply.value, !.greeted = TRUE]
               [] s.pending.kind = "query" -> done
               [] OTHER -> [done EXCEPT !.last_accepted = reply.value]

receive(k) ==
  LET s == session[k]
      reply == Head(channel[k].replies)
  IN  /\ Busy(k) /\ channel[k].replies # <<>>
      /\ session' = [session EXCEPT ![k] = Learnt(s, reply)]
      /\ channel' = [channel EXCEPT ![k].replies = Tail(@)]
      /\ reported' = [reported EXCEPT ![k] =
           IF /\ s.pending.kind \in {"register", "publish"}
              /\ Answers(reply, s.pending) /\ reply.type = "Reply"
           THEN @ \cup {s.sequence} ELSE @]
      /\ UNCHANGED <<gateVars, accepted>>

(* The wait ends in an error of the socket other than a closed connection:  *)
(* the call fails, the client stays connected and the reply may yet come.   *)
receive_error(k) ==
  /\ Busy(k)
  /\ session' = [session EXCEPT ![k] = Failed(@)]
  /\ UNCHANGED <<gateVars, channel, accepted, reported>>

(* The peer has closed, and there is nothing left to read.                  *)
receive_closed(k) ==
  /\ Busy(k)
  /\ ~channel[k].open /\ channel[k].replies = <<>>
  /\ session' = [session EXCEPT ![k] = [Failed(@) EXCEPT !.connected = FALSE]]
  /\ UNCHANGED <<gateVars, channel, accepted, reported>>

(* The process lets go of its connection; frames it sent may be lost.       *)
Disconnect(k) ==
  \E n \in 0..Len(channel[k].requests) :
    channel' = [channel EXCEPT ![k] =
      [open |-> FALSE, replies |-> <<>>, requests |-> SubSeq(@.requests, 1, n)]]

close(k) ==
  /\ session[k].connected /\ session[k].greeted /\ ~Busy(k)
  /\ session' = [session EXCEPT ![k].connected = FALSE]
  /\ Disconnect(k)
  /\ UNCHANGED <<gateVars, accepted, reported>>

(* The process dies, a call outstanding or not.                             *)
Die(k) ==
  /\ session[k].greeted
  /\ session' = [session EXCEPT ![k].connected = FALSE, ![k].greeted = FALSE,
                                ![k].pending = NoRequest]
  /\ Disconnect(k)
  /\ UNCHANGED <<gateVars, accepted, reported>>

(* The connection breaks under both ends.                                   *)
Break(k) ==
  /\ channel[k].open
  /\ \E n \in 0..Len(channel[k].requests), m \in 0..Len(channel[k].replies) :
       channel' = [channel EXCEPT ![k] =
         [open |-> FALSE, requests |-> SubSeq(@.requests, 1, n),
          replies |-> SubSeq(@.replies, 1, m)]]
  /\ UNCHANGED <<gateVars, session, accepted, reported>>

-----------------------------------------------------------------------------
(* The coordinator.                                                         *)

Context(k, frame) ==
  [key |-> k, epoch |-> frame.epoch, sequence |-> frame.sequence,
   federation |-> CHOOSE f \in Federations : TRUE]

(* The frames of one connection are dispatched one after the other, each    *)
(* once, and answered on the connection if it is still there.               *)
AnswerWith(k, type, value) ==
  LET reply == [id |-> Head(channel[k].requests).id, type |-> type, value |-> value]
  IN  channel' = [channel EXCEPT
        ![k].requests = Tail(@),
        ![k].replies = IF channel[k].open THEN Append(@, reply) ELSE @]

Accept(k, ctx) == accepted' = [accepted EXCEPT ![k] = Append(@, ctx.sequence)]

DispatchHello(k) ==
  /\ AnswerWith(k, "Reply", coordinator_epoch)
  /\ UNCHANGED <<gateVars, accepted>>

DispatchQuery(k) ==
  /\ AnswerWith(k, "Reply", 0)
  /\ UNCHANGED <<gateVars, accepted>>

DispatchRegister(k, ctx) ==
  /\ register_publisher(ctx)
  /\ AnswerWith(k, "Reply", Raise(Watermark(k), ctx.sequence))
  /\ Accept(k, ctx)

DispatchPublish(k, ctx) ==
  /\ check_authority(ctx)
  /\ finish(ctx)
  /\ AnswerWith(k, "Reply", Raise(Watermark(k), ctx.sequence))
  /\ Accept(k, ctx)
  /\ UNCHANGED coordinator_epoch

(* Mutant of Refuse: a frame that does not fit in the queue gets no answer. *)
RefuseSilently(k) ==
  /\ channel' = [channel EXCEPT ![k].requests = Tail(@)]
  /\ UNCHANGED <<gateVars, accepted>>

(* The ingest queue is full, the payload is malformed, or the observatory   *)
(* refuses the publication, at the gate or for what it says.                *)
Refuse(k) ==
  /\ AnswerWith(k, "Failure", 0)
  /\ UNCHANGED <<gateVars, accepted>>

dispatch(k) ==
  LET frame == Head(channel[k].requests)
      ctx == Context(k, frame)
  IN  /\ channel[k].requests # <<>>
      /\ \/ frame.kind = "hello" /\ DispatchHello(k)
         \/ frame.kind = "query" /\ DispatchQuery(k)
         \/ frame.kind = "register" /\ DispatchRegister(k, ctx)
         \/ frame.kind = "publish" /\ DispatchPublish(k, ctx)
         \/ Refuse(k)
      /\ UNCHANGED <<session, reported>>

(* dispatch of a FencePublisher frame of an administrator.                  *)
Fence(k) ==
  /\ FenceKnown(k) \/ FenceUnknown(k)
  /\ UNCHANGED <<session, channel, accepted, reported>>

(* A clean stop and start: whatever was not dispatched is lost, and the     *)
(* replies already sent can still be read.                                  *)
Restart ==
  /\ RestoreAuthority
  /\ channel' = [k \in Keys |->
       [channel[k] EXCEPT !.open = FALSE, !.requests = <<>>]]
  /\ UNCHANGED <<session, accepted, reported>>

(* save_state and load_state of a coordinator that goes on running.         *)
Reload ==
  /\ RestoreAuthority
  /\ UNCHANGED <<session, channel, accepted, reported>>

Process(k) == receive(k) \/ receive_closed(k)

Next ==
  \/ \E k \in Keys :
       \/ connect(k) \/ publish(k, "register") \/ publish(k, "publish") \/ heartbeat(k)
       \/ receive(k) \/ receive_error(k) \/ receive_closed(k) \/ close(k) \/ Die(k)
       \/ Break(k) \/ dispatch(k) \/ Fence(k)
  \/ Restart
  \/ Reload

(* A process that waits reads what has come for it, and the coordinator     *)
(* dispatches what it has.                                                  *)
Fairness == \A k \in Keys : WF_vars(Process(k)) /\ WF_vars(dispatch(k))

Spec == Init /\ [][Next]_vars /\ Fairness

-----------------------------------------------------------------------------
(* README.md:271-275, for what publishers send over their connections.      *)
ImplementsContract == Contract!Spec

(* What a process is told is true, though replies may be lost, come late or *)
(* answer an earlier request: every call that succeeded was accepted.       *)
SuccessMeansAccepted ==
  \A k \in Keys : \A n \in reported[k] : \E i \in DOMAIN accepted[k] : accepted[k][i] = n

(* publisher.hpp:33-35.  The numbers of a process are accepted in the order *)
(* it took them and each once, whatever failed, broke or was answered late. *)
AcceptedInOrder ==
  \A k \in Keys : \A i, j \in DOMAIN accepted[k] : i < j => accepted[k][i] < accepted[k][j]

(* The process and the table never contradict each other, restarts and      *)
(* reloads included: last_accepted_sequence() is never ahead of the         *)
(* watermark, nor the watermark of the numbers taken, so that a number just *)
(* taken is never refused as a regression.                                  *)
WatermarkBetween ==
  \A k \in Keys :
    session[k].last_accepted <= Watermark(k) /\ Watermark(k) <= session[k].sequence

(* Every call returns: the wait of exchange has no timeout of its own, and  *)
(* ends because each frame is answered or its connection seen to close.     *)
ExchangeEnds == \A k \in Keys : Busy(k) ~> ~Busy(k)
=============================================================================
