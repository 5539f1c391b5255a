---------------------- MODULE CoordinatorServiceProofs ----------------------
(***************************************************************************)
(* Proofs about CoordinatorService, for every number of workers,           *)
(* connections and frames, every size of the queue and every bound on the  *)
(* connections: the fate of a frame from the moment it is read to the      *)
(* answer, while the workers sleep and wake and stop runs beside them.     *)
(***************************************************************************)
EXTENDS CoordinatorService, FiniteSetTheorems, TLAPS

InQueue(c) == \E i \in 1..Len(queue) : queue[i] = c
HeldByWorker(c) == \E w \in Workers : worker[w].item = c

(* The connection waits for a work item whose promise is not set.           *)
Awaited(c) == conn[c] \in {"notifying", "awaiting"}
Pending(c) == Awaited(c) /\ completion[c] = "none"

(* A work item is in one place: it is queued once, or one worker has it.    *)
QueuedOnce ==
  \A i, j \in 1..Len(queue) : queue[i] = queue[j] => i = j
HeldOnce ==
  \A v, w \in Workers : worker[v].item = worker[w].item /\ worker[v].item # Nobody => v = w
OwnedInv(c) ==
  /\ Pending(c) <=> InQueue(c) \/ HeldByWorker(c)
  /\ ~(InQueue(c) /\ HeldByWorker(c))

(* A worker has an item exactly while it dispatches or answers it.          *)
WorkerInv ==
  \A w \in Workers : worker[w].item # Nobody <=> worker[w].pc \in {"dispatching", "answering"}

(* Which frame of connection c was applied and what its client was told,    *)
(* by where the connection's last frame is; the frames after it are not     *)
(* read yet.                                                                *)
FrameInv(c) ==
  /\ \A n \in 1..MaxRequests : n > number[c] =>
       applied[<<c, n>>] = 0 /\ told[<<c, n>>] = "nothing"
  /\ conn[c] \in {"enqueueing", "refusing"} \/ Awaited(c) =>
       number[c] # 0 /\ told[Frame(c)] = "nothing"
  /\ conn[c] \in {"enqueueing", "refusing"} => applied[Frame(c)] = 0
  /\ Awaited(c) /\ completion[c] = "applied" => applied[Frame(c)] = 1
  /\ Awaited(c) /\ completion[c] = "refused" => applied[Frame(c)] = 0
  /\ InQueue(c) => applied[Frame(c)] = 0
  /\ \A w \in Workers : worker[w].item = c =>
       applied[Frame(c)] = IF worker[w].pc = "answering" THEN 1 ELSE 0

(* From the end of the drain nothing is queued, since the flag is set; from *)
(* the join of the workers on none of them takes a step.                    *)
StopInv ==
  /\ stop_pc \notin {"serving", "stopped"} => stopping
  /\ stop_pc \in {"joining_workers", "joining_connections", "joining_acceptor", "saving",
                  "terminated"} => queue = <<>>
  /\ stop_pc \in {"joining_connections", "joining_acceptor", "saving", "stopped",
                  "terminated"} => \A w \in Workers : worker[w].pc = "done"

(* A client that was accepted has no thread yet.                            *)
AcceptorInv ==
  acceptor.pc \in {"accepted", "spawning"} =>
    acceptor.conn \in Connections /\ conn[acceptor.conn] = "absent"

ItemsInv ==
  /\ QueuedOnce /\ HeldOnce
  /\ WorkerInv
  /\ \A c \in Connections : OwnedInv(c) /\ FrameInv(c)

IInv ==
  /\ TypeOK
  /\ ItemsInv
  /\ AnswersAreTrue
  /\ StopInv
  /\ AcceptorInv
  /\ StopSavesEverything

-----------------------------------------------------------------------------
(* An item appended to the queue is queued once more than it was.           *)
LEMMA Appended ==
  ASSUME queue \in Seq(Connections), NEW c \in Connections,
         QueuedOnce, ~InQueue(c), queue' = Append(queue, c)
  PROVE  /\ queue' \in Seq(Connections) /\ Len(queue') = Len(queue) + 1
         /\ QueuedOnce'
         /\ InQueue(c)'
         /\ \A d \in Connections \ {c} : InQueue(d)' <=> InQueue(d)
<1>1. /\ queue' \in Seq(Connections) /\ Len(queue') = Len(queue) + 1 /\ Len(queue) \in Nat
      /\ queue'[Len(queue) + 1] = c
      /\ \A i \in 1..Len(queue) : queue'[i] = queue[i]
  OBVIOUS
<1>2. InQueue(c)' /\ \A d \in Connections \ {c} : InQueue(d)' <=> InQueue(d)
  BY <1>1 DEF InQueue
<1>3. QueuedOnce'
  BY <1>1 DEF QueuedOnce, InQueue
<1> QED BY <1>1, <1>2, <1>3

(* The item taken from the queue is no longer in it, and the others are.    *)
LEMMA TakenFromQueue ==
  ASSUME queue \in Seq(Connections), queue # <<>>, QueuedOnce, queue' = Tail(queue)
  PROVE  /\ queue' \in Seq(Connections) /\ Len(queue') + 1 = Len(queue)
         /\ QueuedOnce'
         /\ Head(queue) \in Connections
         /\ InQueue(Head(queue))
         /\ \A d \in Connections : InQueue(d)' <=> InQueue(d) /\ d # Head(queue)
<1>1. /\ queue' \in Seq(Connections) /\ Len(queue) \in Nat /\ Len(queue) # 0
      /\ Len(queue') = Len(queue) - 1
      /\ Head(queue) = queue[1] /\ Head(queue) \in Connections
      /\ \A i \in 1..(Len(queue) - 1) : queue'[i] = queue[i + 1]
  OBVIOUS
<1>2. InQueue(Head(queue))
  BY <1>1 DEF InQueue
<1>3. QueuedOnce'
  BY <1>1 DEF QueuedOnce
<1>4. ASSUME NEW d \in Connections PROVE InQueue(d)' <=> InQueue(d) /\ d # Head(queue)
  <2>1. ASSUME NEW i \in 1..Len(queue'), queue'[i] = d PROVE InQueue(d) /\ d # Head(queue)
    <3>1. i + 1 \in 1..Len(queue) /\ queue[i + 1] = d /\ i + 1 # 1 /\ 1 \in 1..Len(queue)
      BY <1>1, <2>1
    <3> QED BY <1>1, <3>1 DEF InQueue, QueuedOnce
  <2>2. ASSUME NEW i \in 1..Len(queue), queue[i] = d, d # Head(queue) PROVE InQueue(d)'
    <3>1. i - 1 \in 1..Len(queue') /\ queue'[i - 1] = d
      BY <1>1, <2>2
    <3> QED BY <3>1 DEF InQueue
  <2> QED BY <2>1, <2>2 DEF InQueue
<1> QED BY <1>1, <1>2, <1>3, <1>4

(* A step that does not touch the item of connection d, its frames or its   *)
(* thread keeps what is claimed of it.                                      *)
LEMMA ItemUntouched ==
  ASSUME NEW d \in Connections, OwnedInv(d), FrameInv(d),
         conn'[d] = conn[d], completion'[d] = completion[d], number'[d] = number[d],
         InQueue(d)' <=> InQueue(d),
         \A w \in Workers : worker'[w].item = d <=> worker[w].item = d,
         \A w \in Workers : worker[w].item = d =>
           (worker'[w].pc = "answering" <=> worker[w].pc = "answering"),
         \A n \in 1..MaxRequests : applied'[<<d, n>>] = applied[<<d, n>>]
                                   /\ told'[<<d, n>>] = told[<<d, n>>],
         number[d] \in 0..MaxRequests
  PROVE  OwnedInv(d)' /\ FrameInv(d)'
<1>1. /\ Awaited(d)' <=> Awaited(d)
      /\ Pending(d)' <=> Pending(d)
      /\ HeldByWorker(d)' <=> HeldByWorker(d)
  BY DEF Awaited, Pending, HeldByWorker
<1>2. OwnedInv(d)'
  BY <1>1 DEF OwnedInv
<1>3. number[d] # 0 => applied'[<<d, number[d]>>] = applied[<<d, number[d]>>]
                       /\ told'[<<d, number[d]>>] = told[<<d, number[d]>>]
  BY ServiceAssumption
<1>4. InQueue(d) \/ HeldByWorker(d) => number[d] # 0
  BY DEF OwnedInv, FrameInv, Pending
<1>5. FrameInv(d)'
  BY <1>1, <1>3, <1>4 DEF FrameInv, Frame, HeldByWorker
<1> QED BY <1>2, <1>5

-----------------------------------------------------------------------------
(* Steps that touch neither the items nor the frames nor a connection       *)
(* thread.                                                                  *)
LEMMA QuietKeepsItems ==
  ASSUME TypeOK, ItemsInv, AnswersAreTrue,
         UNCHANGED <<queue, completion, worker, number, applied, told, conn>>
  PROVE  ItemsInv' /\ AnswersAreTrue'
<1>1. QueuedOnce' /\ HeldOnce' /\ WorkerInv' /\ AnswersAreTrue'
  BY DEF ItemsInv, QueuedOnce, HeldOnce, WorkerInv, AnswersAreTrue
<1>2. ASSUME NEW d \in Connections PROVE OwnedInv(d)' /\ FrameInv(d)'
  <2>1. InQueue(d)' <=> InQueue(d)
    BY DEF InQueue
  <2> QED BY <2>1, ItemUntouched DEF ItemsInv, TypeOK
<1> QED BY <1>1, <1>2 DEF ItemsInv

(* A step of the thread of c that leaves the queue and the workers alone.   *)
LEMMA ThreadKeepsItems ==
  ASSUME TypeOK, ItemsInv, NEW c \in Connections,
         UNCHANGED <<queue, completion, worker, applied>>,
         \A d \in Connections \ {c} : conn'[d] = conn[d] /\ number'[d] = number[d],
         \A d \in Connections \ {c} : \A n \in 1..MaxRequests : told'[<<d, n>>] = told[<<d, n>>],
         OwnedInv(c)', FrameInv(c)'
  PROVE  ItemsInv'
<1>1. QueuedOnce' /\ HeldOnce' /\ WorkerInv'
  BY DEF ItemsInv, QueuedOnce, HeldOnce, WorkerInv
<1>2. ASSUME NEW d \in Connections \ {c} PROVE OwnedInv(d)' /\ FrameInv(d)'
  <2>1. InQueue(d)' <=> InQueue(d)
    BY DEF InQueue
  <2> QED BY <2>1, ItemUntouched DEF ItemsInv, TypeOK
<1> QED BY <1>1, <1>2 DEF ItemsInv

(* A connection thread between frames, before and after a step.             *)
LEMMA BetweenFrames ==
  ASSUME TypeOK, ItemsInv, AnswersAreTrue, NEW c \in Connections, NEW pc,
         ~Awaited(c), ConnAt(c, pc), pc \in {"testing", "reading", "closing", "done"},
         UNCHANGED <<queue, completion, worker, number, applied, told>>
  PROVE  ItemsInv' /\ AnswersAreTrue'
<1>1. conn'[c] = pc /\ \A d \in Connections \ {c} : conn'[d] = conn[d]
  BY DEF TypeOK, ConnAt
<1>2. ~InQueue(c) /\ ~HeldByWorker(c) /\ FrameInv(c)
  BY DEF ItemsInv, OwnedInv, Pending
<1>3. ~InQueue(c)' /\ ~HeldByWorker(c)' /\ ~Awaited(c)' /\ ~Pending(c)'
  BY <1>1, <1>2 DEF InQueue, HeldByWorker, Awaited, Pending
<1>4. OwnedInv(c)'
  BY <1>3 DEF OwnedInv
<1>5. FrameInv(c)'
  BY <1>1, <1>2, <1>3 DEF FrameInv, HeldByWorker
<1>6. AnswersAreTrue'
  BY DEF AnswersAreTrue
<1> QED BY <1>1, <1>4, <1>5, <1>6, ThreadKeepsItems

(* The answer to the last frame of c, when it says what became of it.       *)
LEMMA AnswerKeepsItems ==
  ASSUME TypeOK, ItemsInv, AnswersAreTrue, NEW c \in Connections, NEW outcome,
         conn[c] = "refusing" \/ conn[c] = "awaiting",
         ~InQueue(c), ~HeldByWorker(c),
         outcome \in {"applied", "refused"},
         applied[Frame(c)] = IF outcome = "applied" THEN 1 ELSE 0,
         Answer(c, outcome),
         UNCHANGED <<queue, completion, worker, number, applied>>
  PROVE  ItemsInv' /\ AnswersAreTrue'
<1>1. PICK pc \in {"testing", "closing"} : ConnAt(c, pc)
  BY DEF Answer
<1>2. conn'[c] = pc /\ \A d \in Connections \ {c} : conn'[d] = conn[d]
  BY <1>1 DEF TypeOK, ConnAt
<1>3. FrameInv(c) /\ Frame(c) \in Frames
  BY ServiceAssumption DEF ItemsInv, FrameInv, Frame, Frames, TypeOK, Awaited
<1>4. \A f \in Frames : f # Frame(c) => told'[f] = told[f]
  BY DEF Answer, TypeOK
<1>5. told'[Frame(c)] \in {told[Frame(c)], outcome}
  BY <1>3 DEF Answer, TypeOK
<1>6. ~InQueue(c)' /\ ~HeldByWorker(c)' /\ ~Awaited(c)' /\ ~Pending(c)'
  BY <1>2 DEF InQueue, HeldByWorker, Awaited, Pending
<1>7. OwnedInv(c)'
  BY <1>6 DEF OwnedInv
<1>8. FrameInv(c)'
  <2>1. \A n \in 1..MaxRequests : n > number[c] => <<c, n>> # Frame(c) /\ <<c, n>> \in Frames
    BY ServiceAssumption DEF Frame, Frames, TypeOK
  <2> QED BY <1>2, <1>3, <1>4, <1>6, <2>1 DEF FrameInv, HeldByWorker
<1>9. AnswersAreTrue'
  BY <1>3, <1>4, <1>5 DEF AnswersAreTrue
<1>10. \A d \in Connections \ {c} : \A n \in 1..MaxRequests : told'[<<d, n>>] = told[<<d, n>>]
  BY <1>4 DEF Frame, Frames
<1> QED BY <1>2, <1>7, <1>8, <1>9, <1>10, ThreadKeepsItems

(* Every step of a connection thread keeps the items and the answers.       *)
LEMMA ConnKeepsItems ==
  ASSUME IInv, NEW c \in Connections, ConnStep(c)
  PROVE  ItemsInv' /\ AnswersAreTrue'
<1>0. TypeOK /\ ItemsInv /\ AnswersAreTrue /\ OwnedInv(c) /\ FrameInv(c)
  BY DEF IInv, ItemsInv
<1>1. CASE ConnTest(c)
  BY <1>0, <1>1, BetweenFrames DEF ConnTest, Awaited, workVars, frameVars
<1>2. CASE ConnRead(c)
  <2>0. conn[c] = "reading" /\ UNCHANGED <<queue, completion, worker, applied, told>>
    BY <1>2 DEF ConnRead, workVars
  <2>1. CASE \E pc \in {"testing", "closing"} : ConnAt(c, pc) /\ UNCHANGED number
    BY <1>0, <2>0, <2>1, BetweenFrames DEF Awaited
  <2>2. CASE /\ number[c] < MaxRequests /\ number' = [number EXCEPT ![c] = @ + 1]
             /\ ConnAt(c, "enqueueing")
    <3>1. /\ number[c] \in 0..MaxRequests /\ number'[c] = number[c] + 1
          /\ \A d \in Connections \ {c} : conn'[d] = conn[d] /\ number'[d] = number[d]
          /\ conn'[c] = "enqueueing"
      BY <1>0, <2>2 DEF TypeOK, ConnAt
    <3>2. ~InQueue(c)' /\ ~HeldByWorker(c)' /\ ~Awaited(c)' /\ ~Pending(c)'
      BY <1>0, <2>0, <3>1 DEF OwnedInv, InQueue, HeldByWorker, Awaited, Pending
    <3>3. OwnedInv(c)'
      BY <3>2 DEF OwnedInv
    <3>4. number[c] + 1 \in 1..MaxRequests /\ number[c] + 1 > number[c]
      BY <2>2, <3>1, ServiceAssumption
    <3>5. applied[<<c, number[c] + 1>>] = 0 /\ told[<<c, number[c] + 1>>] = "nothing"
      BY <1>0, <3>4 DEF FrameInv
    <3>6. \A n \in 1..MaxRequests : n > number[c] + 1 => n > number[c]
      BY <3>1, ServiceAssumption
    <3>7. FrameInv(c)'
      BY <1>0, <2>0, <3>1, <3>2, <3>4, <3>5, <3>6 DEF FrameInv, HeldByWorker, Frame
    <3>8. AnswersAreTrue'
      BY <1>0, <2>0 DEF AnswersAreTrue
    <3> QED BY <1>0, <2>0, <3>1, <3>3, <3>7, <3>8, ThreadKeepsItems
  <2> QED BY <1>2, <2>1, <2>2 DEF ConnRead
<1>3. CASE ConnEnqueue(c)
  <2>0. conn[c] = "enqueueing" /\ UNCHANGED <<worker, number, applied, told>>
    BY <1>3 DEF ConnEnqueue, frameVars
  <2>1. ~InQueue(c) /\ ~HeldByWorker(c) /\ applied[Frame(c)] = 0 /\ number[c] # 0
        /\ told[Frame(c)] = "nothing"
    BY <1>0, <2>0 DEF OwnedInv, Pending, Awaited, FrameInv
  <2>2. AnswersAreTrue'
    BY <1>0, <2>0 DEF AnswersAreTrue
  <2>3. CASE /\ queue' = Append(queue, c)
             /\ completion' = [completion EXCEPT ![c] = "none"]
             /\ ConnAt(c, "notifying")
    <3>1. /\ conn'[c] = "notifying" /\ completion'[c] = "none"
          /\ \A d \in Connections \ {c} : conn'[d] = conn[d] /\ completion'[d] = completion[d]
      BY <1>0, <2>3 DEF TypeOK, ConnAt
    <3>2. QueuedOnce' /\ InQueue(c)' /\ \A d \in Connections \ {c} : InQueue(d)' <=> InQueue(d)
      BY <1>0, <2>1, <2>3, Appended DEF ItemsInv, TypeOK
    <3>3. HeldOnce' /\ WorkerInv'
      BY <1>0, <2>0 DEF ItemsInv, HeldOnce, WorkerInv
    <3>4. ~HeldByWorker(c)' /\ Pending(c)' /\ Awaited(c)'
      BY <2>0, <2>1, <3>1 DEF HeldByWorker, Pending, Awaited
    <3>5. OwnedInv(c)'
      BY <3>2, <3>4 DEF OwnedInv
    <3>6. FrameInv(c)'
      BY <1>0, <2>0, <2>1, <3>1, <3>4 DEF FrameInv, HeldByWorker, Frame
    <3>7. \A d \in Connections \ {c} : OwnedInv(d)' /\ FrameInv(d)'
      BY <1>0, <2>0, <3>1, <3>2, ItemUntouched DEF ItemsInv, TypeOK
    <3> QED BY <2>2, <3>2, <3>3, <3>5, <3>6, <3>7 DEF ItemsInv
  <2>4. CASE ConnAt(c, "refusing") /\ UNCHANGED <<queue, completion>>
    <3>1. conn'[c] = "refusing" /\ \A d \in Connections \ {c} : conn'[d] = conn[d]
      BY <1>0, <2>4 DEF TypeOK, ConnAt
    <3>2. ~InQueue(c)' /\ ~HeldByWorker(c)' /\ ~Awaited(c)' /\ ~Pending(c)'
      BY <2>0, <2>1, <2>4, <3>1 DEF InQueue, HeldByWorker, Awaited, Pending
    <3>3. OwnedInv(c)'
      BY <3>2 DEF OwnedInv
    <3>4. FrameInv(c)'
      BY <1>0, <2>0, <2>1, <3>1, <3>2 DEF FrameInv, HeldByWorker, Frame
    <3> QED BY <1>0, <2>0, <2>2, <2>4, <3>1, <3>3, <3>4, ThreadKeepsItems
  <2> QED BY <1>3, <2>3, <2>4 DEF ConnEnqueue
<1>4. CASE ConnRefuse(c)
  <2>1. /\ conn[c] = "refusing" /\ Answer(c, "refused")
        /\ UNCHANGED <<queue, completion, worker, number, applied>>
    BY <1>4 DEF ConnRefuse, workVars
  <2>2. ~InQueue(c) /\ ~HeldByWorker(c) /\ applied[Frame(c)] = 0
    BY <1>0, <2>1 DEF OwnedInv, Pending, Awaited, FrameInv
  <2> QED BY <1>0, <2>1, <2>2, AnswerKeepsItems
<1>5. CASE ConnNotify(c)
  <2>0. /\ conn[c] = "notifying" /\ ConnAt(c, "awaiting")
        /\ UNCHANGED <<queue, completion, number, applied, told>>
    BY <1>5 DEF ConnNotify, frameVars
  <2>1. conn'[c] = "awaiting" /\ \A d \in Connections \ {c} : conn'[d] = conn[d]
    BY <1>0, <2>0 DEF TypeOK, ConnAt
  <2>2. \A w \in Workers :
          /\ worker'[w].item = worker[w].item
          /\ \/ worker'[w].pc = worker[w].pc
             \/ worker[w].pc = "waiting" /\ worker'[w].pc = "checking"
    BY <1>0, <1>5 DEF ConnNotify, Waiting, Wake, TypeOK, WorkerState
  <2>3. HeldOnce' /\ WorkerInv'
    BY <1>0, <2>2 DEF ItemsInv, HeldOnce, WorkerInv
  <2>4. QueuedOnce' /\ AnswersAreTrue' /\ \A d \in Connections : InQueue(d)' <=> InQueue(d)
    BY <1>0, <2>0 DEF ItemsInv, QueuedOnce, AnswersAreTrue, InQueue
  <2>5. \A d \in Connections \ {c} : OwnedInv(d)' /\ FrameInv(d)'
    BY <1>0, <2>0, <2>1, <2>2, <2>4, ItemUntouched DEF ItemsInv, TypeOK
  <2>6. /\ Awaited(c)' /\ Awaited(c)
        /\ Pending(c)' <=> Pending(c)
        /\ HeldByWorker(c)' <=> HeldByWorker(c)
    BY <2>0, <2>1, <2>2 DEF Awaited, Pending, HeldByWorker
  <2>7. OwnedInv(c)'
    BY <1>0, <2>4, <2>6 DEF OwnedInv
  <2>8. FrameInv(c)'
    BY <1>0, <2>0, <2>1, <2>2, <2>4, <2>6 DEF FrameInv, Frame
  <2> QED BY <2>3, <2>4, <2>5, <2>7, <2>8 DEF ItemsInv
<1>6. CASE ConnReply(c)
  <2>0. /\ conn[c] = "awaiting" /\ completion[c] # "none"
        /\ UNCHANGED <<queue, completion, worker, number, applied>>
    BY <1>6 DEF ConnReply, workVars
  <2>1. ~InQueue(c) /\ ~HeldByWorker(c)
    BY <1>0, <2>0 DEF OwnedInv, Pending
  <2>2. /\ completion[c] \in {"applied", "refused"}
        /\ applied[Frame(c)] = IF completion[c] = "applied" THEN 1 ELSE 0
    BY <1>0, <2>0 DEF FrameInv, Awaited, TypeOK
  <2>3. CASE ConnAt(c, "closing") /\ UNCHANGED told
    <3>1. conn'[c] = "closing" /\ \A d \in Connections \ {c} : conn'[d] = conn[d]
      BY <1>0, <2>3 DEF TypeOK, ConnAt
    <3>2. ~InQueue(c)' /\ ~HeldByWorker(c)' /\ ~Awaited(c)' /\ ~Pending(c)'
      BY <2>0, <2>1, <3>1 DEF InQueue, HeldByWorker, Awaited, Pending
    <3>3. OwnedInv(c)' /\ FrameInv(c)'
      BY <1>0, <2>0, <2>3, <3>1, <3>2 DEF OwnedInv, FrameInv, HeldByWorker
    <3>4. AnswersAreTrue'
      BY <1>0, <2>0, <2>3 DEF AnswersAreTrue
    <3> QED BY <1>0, <2>0, <2>3, <3>1, <3>3, <3>4, ThreadKeepsItems
  <2>4. CASE Answer(c, completion[c])
    BY <1>0, <2>0, <2>1, <2>2, <2>4, AnswerKeepsItems
  <2> QED BY <1>6, <2>3, <2>4 DEF ConnReply
<1>7. CASE ConnClose(c)
  BY <1>0, <1>7, BetweenFrames DEF ConnClose, Awaited, workVars, frameVars
<1> QED BY <1>1, <1>2, <1>3, <1>4, <1>5, <1>6, <1>7 DEF ConnStep

(* A worker that changes its place without taking or leaving an item.       *)
LEMMA WorkersMoveKeepsItems ==
  ASSUME TypeOK, ItemsInv, AnswersAreTrue,
         UNCHANGED <<queue, completion, number, applied, told, conn>>,
         \A w \in Workers :
           /\ worker'[w].item = worker[w].item
           /\ \/ worker'[w].pc = worker[w].pc
              \/ /\ worker[w].pc \in {"checking", "parking", "waiting"}
                 /\ worker'[w].pc \in {"checking", "parking", "waiting", "done"}
  PROVE  ItemsInv' /\ AnswersAreTrue'
<1>1. QueuedOnce' /\ AnswersAreTrue'
  BY DEF ItemsInv, QueuedOnce, AnswersAreTrue
<1>2. HeldOnce' /\ WorkerInv'
  BY DEF ItemsInv, HeldOnce, WorkerInv
<1>3. ASSUME NEW d \in Connections PROVE OwnedInv(d)' /\ FrameInv(d)'
  <2>1. InQueue(d)' <=> InQueue(d)
    BY DEF InQueue
  <2> QED BY <2>1, ItemUntouched DEF ItemsInv, TypeOK
<1> QED BY <1>1, <1>2, <1>3 DEF ItemsInv

(* Every step of a worker keeps the items and the answers.                  *)
LEMMA WorkerKeepsItems ==
  ASSUME IInv, NEW w \in Workers, WorkerStep(w) \/ WorkerWakes(w)
  PROVE  ItemsInv' /\ AnswersAreTrue'
<1>0. /\ TypeOK /\ ItemsInv /\ AnswersAreTrue /\ QueuedOnce /\ HeldOnce /\ WorkerInv
      /\ \A d \in Connections : OwnedInv(d) /\ FrameInv(d)
  BY DEF IInv, ItemsInv
<1>1. CASE WorkerCheck(w)
  <2>0. /\ worker[w].pc = "checking" /\ UNCHANGED <<completion, number, applied, told, conn>>
    BY <1>1 DEF WorkerCheck, frameVars
  <2>1. CASE /\ queue # <<>> /\ queue' = Tail(queue)
             /\ worker' = [worker EXCEPT ![w] = [pc |-> "dispatching", item |-> Head(queue)]]
    <3>0. PICK h \in Connections : h = Head(queue)
      BY <1>0, <2>1, TakenFromQueue DEF TypeOK
    <3>1. /\ QueuedOnce' /\ InQueue(h)
          /\ \A d \in Connections : InQueue(d)' <=> InQueue(d) /\ d # h
      BY <1>0, <2>1, <3>0, TakenFromQueue DEF TypeOK
    <3>2. /\ worker'[w].pc = "dispatching" /\ worker'[w].item = h
          /\ \A v \in Workers \ {w} : worker'[v] = worker[v]
      BY <1>0, <2>1, <3>0 DEF TypeOK
    <3>3. worker[w].item = Nobody /\ h # Nobody
      BY <1>0, <2>0, <3>1, ServiceAssumption DEF WorkerInv
    <3>4. ~HeldByWorker(h) /\ Pending(h) /\ applied[Frame(h)] = 0
      BY <1>0, <3>1 DEF OwnedInv, FrameInv
    <3>5. HeldOnce' /\ WorkerInv'
      BY <1>0, <3>2, <3>3, <3>4 DEF HeldOnce, WorkerInv, HeldByWorker
    <3>6. OwnedInv(h)' /\ FrameInv(h)'
      <4>1. ~InQueue(h)' /\ HeldByWorker(h)' /\ Pending(h)' /\ Awaited(h)' /\ Awaited(h)
        BY <2>0, <3>1, <3>2, <3>4 DEF HeldByWorker, Pending, Awaited
      <4>2. \A v \in Workers : worker'[v].item = h => v = w
        BY <3>2, <3>4 DEF HeldByWorker
      <4>3. OwnedInv(h)'
        BY <4>1 DEF OwnedInv
      <4>4. FrameInv(h)'
        BY <1>0, <2>0, <3>1, <3>2, <3>4, <4>1, <4>2 DEF FrameInv, Frame, Pending
      <4> QED BY <4>3, <4>4
    <3>7. ASSUME NEW d \in Connections \ {h} PROVE OwnedInv(d)' /\ FrameInv(d)'
      <4>1. d # Nobody
        BY ServiceAssumption
      <4> QED BY <1>0, <2>0, <3>1, <3>2, <3>3, <4>1, ItemUntouched DEF TypeOK
    <3>8. AnswersAreTrue'
      BY <1>0, <2>0 DEF AnswersAreTrue
    <3> QED BY <3>1, <3>5, <3>6, <3>7, <3>8 DEF ItemsInv
  <2>2. CASE /\ worker' = [worker EXCEPT ![w].pc = IF stopping THEN "done" ELSE "parking"]
             /\ UNCHANGED queue
    BY <1>0, <2>0, <2>2, WorkersMoveKeepsItems DEF TypeOK
  <2> QED BY <1>1, <2>1, <2>2 DEF WorkerCheck
<1>2. CASE WorkerPark(w) \/ WorkerWakes(w)
  <2>1. UNCHANGED <<queue, completion, number, applied, told, conn>>
    BY <1>2 DEF WorkerPark, WorkerWakes, frameVars
  <2>2. PICK pc \in {"waiting", "checking"} : worker' = [worker EXCEPT ![w].pc = pc]
    BY <1>2 DEF WorkerPark, WorkerWakes, Wake
  <2>3. worker[w].pc \in {"checking", "parking", "waiting"}
    BY <1>2 DEF WorkerPark, WorkerWakes
  <2>4. /\ worker'[w].item = worker[w].item /\ worker'[w].pc = pc
        /\ \A v \in Workers \ {w} : worker'[v] = worker[v]
    BY <1>0, <2>2 DEF TypeOK
  <2> QED BY <1>0, <2>1, <2>3, <2>4, WorkersMoveKeepsItems
<1>3. CASE WorkerDispatch(w)
  <2>1. PICK c \in Connections : c = worker[w].item
    BY <1>0, <1>3 DEF WorkerDispatch, WorkerInv, TypeOK, WorkerState
  <2>0. /\ worker[w].pc = "dispatching" /\ UNCHANGED <<queue, completion, number, told, conn>>
        /\ applied' = [applied EXCEPT ![Frame(c)] = @ + 1]
        /\ worker' = [worker EXCEPT ![w].pc = "answering"]
    BY <1>3, <2>1 DEF WorkerDispatch
  <2>2. /\ worker'[w].pc = "answering" /\ worker'[w].item = c
        /\ \A v \in Workers \ {w} : worker'[v] = worker[v]
    BY <1>0, <2>0, <2>1 DEF TypeOK
  <2>3. HeldByWorker(c) /\ ~InQueue(c) /\ Pending(c) /\ applied[Frame(c)] = 0
    BY <1>0, <2>0, <2>1 DEF HeldByWorker, OwnedInv, FrameInv
  <2>4. number[c] # 0 /\ told[Frame(c)] = "nothing" /\ Frame(c) \in Frames
    <3>1. number[c] # 0 /\ told[Frame(c)] = "nothing"
      BY <1>0, <2>1, <2>3 DEF FrameInv, Pending
    <3> QED BY <1>0, <2>1, <3>1, ServiceAssumption DEF Frames, Frame, TypeOK
  <2>5. /\ applied'[Frame(c)] = 1
        /\ \A f \in Frames : f # Frame(c) => applied'[f] = applied[f]
    BY <1>0, <2>0, <2>3, <2>4 DEF TypeOK
  <2>6. QueuedOnce' /\ \A d \in Connections : InQueue(d)' <=> InQueue(d)
    BY <1>0, <2>0 DEF QueuedOnce, InQueue
  <2>7. HeldOnce' /\ WorkerInv'
    BY <1>0, <2>0, <2>2 DEF HeldOnce, WorkerInv
  <2>8. AnswersAreTrue'
    BY <1>0, <2>0, <2>4, <2>5 DEF AnswersAreTrue
  <2>9. OwnedInv(c)' /\ FrameInv(c)'
    <3>1. HeldByWorker(c)' /\ Pending(c)' /\ ~InQueue(c)' /\ Awaited(c)' /\ Awaited(c)
      BY <2>0, <2>1, <2>2, <2>3, <2>6 DEF HeldByWorker, Pending, Awaited
    <3>2. \A v \in Workers : worker'[v].item = c => v = w
      BY <1>0, <2>1, <2>2, ServiceAssumption DEF HeldOnce
    <3>3. \A n \in 1..MaxRequests : n > number[c] => <<c, n>> # Frame(c) /\ <<c, n>> \in Frames
      BY <1>0, <2>1, ServiceAssumption DEF Frame, Frames, TypeOK
    <3>4. Frame(c)' = Frame(c)
      BY <2>0 DEF Frame
    <3>5. OwnedInv(c)'
      BY <3>1 DEF OwnedInv
    <3>6. FrameInv(c)'
      <4>1. conn'[c] \notin {"enqueueing", "refusing"}
        BY <3>1 DEF Awaited
      <4>2. \A n \in 1..MaxRequests : n > number'[c] =>
              applied'[<<c, n>>] = 0 /\ told'[<<c, n>>] = "nothing"
        BY <1>0, <2>0, <2>5, <3>3 DEF FrameInv
      <4> QED BY <2>0, <2>2, <2>4, <2>5, <3>1, <3>2, <3>4, <4>1, <4>2 DEF FrameInv, Pending
    <3> QED BY <3>5, <3>6
  <2>10. ASSUME NEW d \in Connections \ {c} PROVE OwnedInv(d)' /\ FrameInv(d)'
    <3>1. \A n \in 1..MaxRequests : applied'[<<d, n>>] = applied[<<d, n>>]
      BY <2>5 DEF Frame, Frames
    <3> QED BY <1>0, <2>0, <2>1, <2>2, <2>6, <3>1, ItemUntouched DEF TypeOK
  <2> QED BY <2>6, <2>7, <2>8, <2>9, <2>10 DEF ItemsInv
<1>4. CASE WorkerAnswer(w)
  <2>1. PICK c \in Connections : c = worker[w].item
    BY <1>0, <1>4 DEF WorkerAnswer, WorkerInv, TypeOK, WorkerState
  <2>0. /\ worker[w].pc = "answering"
        /\ UNCHANGED <<queue, number, applied, told, conn>>
        /\ completion' = [completion EXCEPT ![c] = "applied"]
        /\ worker' = [worker EXCEPT ![w] = [pc |-> "checking", item |-> Nobody]]
    BY <1>4, <2>1 DEF WorkerAnswer, frameVars
  <2>2. /\ worker'[w].pc = "checking" /\ worker'[w].item = Nobody
        /\ \A v \in Workers \ {w} : worker'[v] = worker[v]
        /\ completion'[c] = "applied"
        /\ \A d \in Connections \ {c} : completion'[d] = completion[d]
    BY <1>0, <2>0 DEF TypeOK
  <2>3. ~InQueue(c) /\ Pending(c) /\ applied[Frame(c)] = 1
    BY <1>0, <2>0, <2>1 DEF HeldByWorker, OwnedInv, FrameInv
  <2>4. QueuedOnce' /\ \A d \in Connections : InQueue(d)' <=> InQueue(d)
    BY <1>0, <2>0 DEF QueuedOnce, InQueue
  <2>5. HeldOnce' /\ WorkerInv'
    BY <1>0, <2>2 DEF HeldOnce, WorkerInv
  <2>6. AnswersAreTrue'
    BY <1>0, <2>0 DEF AnswersAreTrue
  <2>7. \A d \in Connections : d # Nobody
    BY ServiceAssumption
  <2>8. OwnedInv(c)' /\ FrameInv(c)'
    <3>1. ~HeldByWorker(c)'
      BY <1>0, <2>1, <2>2, <2>7 DEF HeldOnce, HeldByWorker
    <3>2. ~Pending(c)' /\ ~InQueue(c)' /\ Awaited(c)' /\ Awaited(c)
      BY <2>0, <2>2, <2>3, <2>4 DEF Pending, Awaited
    <3>3. OwnedInv(c)'
      BY <3>1, <3>2 DEF OwnedInv
    <3>4. FrameInv(c)'
      BY <1>0, <2>0, <2>2, <2>3, <3>1, <3>2 DEF FrameInv, HeldByWorker, Frame
    <3> QED BY <3>3, <3>4
  <2>9. ASSUME NEW d \in Connections \ {c} PROVE OwnedInv(d)' /\ FrameInv(d)'
    BY <1>0, <2>0, <2>1, <2>2, <2>4, <2>7, ItemUntouched DEF TypeOK
  <2> QED BY <2>4, <2>5, <2>6, <2>8, <2>9 DEF ItemsInv
<1> QED BY <1>1, <1>2, <1>3, <1>4 DEF WorkerStep

(* The steps of the accept thread and of stop keep the items and the        *)
(* answers.                                                                 *)
LEMMA AcceptKeepsItems ==
  ASSUME IInv, AcceptStep
  PROVE  ItemsInv' /\ AnswersAreTrue'
<1>0. TypeOK /\ ItemsInv /\ AnswersAreTrue /\ AcceptorInv
  BY DEF IInv
<1>1. CASE AcceptTest \/ AcceptPoll \/ AcceptRegister
  <2>1. UNCHANGED <<queue, completion, worker, number, applied, told, conn>>
    BY <1>1 DEF AcceptTest, AcceptPoll, AcceptRegister, workVars, frameVars
  <2> QED BY <1>0, <2>1, QuietKeepsItems
<1>2. CASE AcceptSpawn
  <2>1. PICK c \in Connections : c = acceptor.conn /\ conn[c] = "absent"
    BY <1>0, <1>2 DEF AcceptSpawn, AcceptorInv
  <2>2. /\ ConnAt(c, "testing") /\ ~Awaited(c)
        /\ UNCHANGED <<queue, completion, worker, number, applied, told>>
    BY <1>2, <2>1 DEF AcceptSpawn, ConnAt, Awaited, workVars, frameVars
  <2> QED BY <1>0, <2>2, BetweenFrames
<1> QED BY <1>1, <1>2 DEF AcceptStep

(* A stop takes no frame from its owner: it only lets the threads go.       *)
LEMMA StopKeepsItems ==
  ASSUME IInv, StopBegin \/ StopStep
  PROVE  ItemsInv' /\ AnswersAreTrue'
<1>0. /\ TypeOK /\ ItemsInv /\ AnswersAreTrue /\ QueuedOnce /\ HeldOnce /\ WorkerInv /\ StopInv
      /\ \A d \in Connections : OwnedInv(d) /\ FrameInv(d)
  BY DEF IInv, ItemsInv
<1>1. CASE StopBegin \/ StopListener \/ StopSockets \/ StopJoinWorkers \/ StopJoinAcceptor
           \/ StopSave
  <2>1. UNCHANGED <<queue, completion, worker, number, applied, told, conn>>
    BY <1>1 DEF StopBegin, StopListener, StopSockets, StopJoinWorkers, StopJoinAcceptor,
        StopSave, workVars, frameVars
  <2> QED BY <1>0, <2>1, QuietKeepsItems
<1>2. CASE StopNotify
  <2>1. UNCHANGED <<queue, completion, number, applied, told, conn>>
    BY <1>2 DEF StopNotify, frameVars
  <2>2. \A w \in Workers :
          /\ worker'[w].item = worker[w].item
          /\ \/ worker'[w].pc = worker[w].pc
             \/ worker[w].pc = "waiting" /\ worker'[w].pc = "checking"
    BY <1>0, <1>2 DEF StopNotify, Waiting, TypeOK
  <2> QED BY <1>0, <2>1, <2>2, WorkersMoveKeepsItems
<1>3. CASE StopDrain
  <2>0. UNCHANGED <<worker, number, applied, told, conn>>
    BY <1>3 DEF StopDrain, frameVars
  <2>1. CASE /\ queue # <<>> /\ queue' = Tail(queue)
             /\ completion' = [completion EXCEPT ![Head(queue)] = "refused"]
    <3>0. PICK h \in Connections : h = Head(queue)
      BY <1>0, <2>1, TakenFromQueue DEF TypeOK
    <3>1. /\ QueuedOnce' /\ InQueue(h)
          /\ \A d \in Connections : InQueue(d)' <=> InQueue(d) /\ d # h
      BY <1>0, <2>1, <3>0, TakenFromQueue DEF TypeOK
    <3>2. /\ completion'[h] = "refused"
          /\ \A d \in Connections \ {h} : completion'[d] = completion[d]
      BY <1>0, <2>1, <3>0 DEF TypeOK
    <3>3. ~HeldByWorker(h) /\ Pending(h) /\ applied[Frame(h)] = 0
      BY <1>0, <3>1 DEF OwnedInv, FrameInv
    <3>4. HeldOnce' /\ WorkerInv' /\ AnswersAreTrue'
      BY <1>0, <2>0 DEF HeldOnce, WorkerInv, AnswersAreTrue
    <3>5. ~HeldByWorker(h)' /\ ~Pending(h)' /\ ~InQueue(h)' /\ Awaited(h)' /\ Awaited(h)
      BY <2>0, <3>1, <3>2, <3>3 DEF HeldByWorker, Pending, Awaited
    <3>6. OwnedInv(h)'
      BY <3>5 DEF OwnedInv
    <3>7. FrameInv(h)'
      BY <1>0, <2>0, <3>2, <3>3, <3>5 DEF FrameInv, Frame, HeldByWorker
    <3>8. ASSUME NEW d \in Connections \ {h} PROVE OwnedInv(d)' /\ FrameInv(d)'
      BY <1>0, <2>0, <3>1, <3>2, ItemUntouched DEF TypeOK
    <3> QED BY <3>1, <3>4, <3>6, <3>7, <3>8 DEF ItemsInv
  <2>2. CASE UNCHANGED <<queue, completion>>
    BY <1>0, <2>0, <2>2, QuietKeepsItems
  <2> QED BY <1>3, <2>1, <2>2 DEF StopDrain
<1>4. CASE StopJoinConnections
  <2>0. UNCHANGED <<queue, completion, worker, number, applied, told>>
    BY <1>4 DEF StopJoinConnections, workVars, frameVars
  <2>1. CASE UNCHANGED conn
    BY <1>0, <2>0, <2>1, QuietKeepsItems
  <2>2. CASE conn' = [c \in Connections |-> "done"]
    <3>1. queue = <<>> /\ \A w \in Workers : worker[w].item = Nobody
      BY <1>0, <1>4 DEF StopJoinConnections, StopInv, WorkerInv
    <3>2. ASSUME NEW c \in Connections PROVE OwnedInv(c)' /\ FrameInv(c)'
      <4>1. ~InQueue(c)' /\ ~HeldByWorker(c)' /\ ~Awaited(c)' /\ ~Pending(c)'
        BY <2>0, <2>2, <3>1, ServiceAssumption DEF InQueue, HeldByWorker, Awaited, Pending
      <4>2. conn'[c] = "done"
        BY <2>2
      <4> QED BY <1>0, <2>0, <4>1, <4>2 DEF OwnedInv, FrameInv, HeldByWorker
    <3>3. QueuedOnce' /\ HeldOnce' /\ WorkerInv' /\ AnswersAreTrue'
      BY <1>0, <2>0 DEF QueuedOnce, HeldOnce, WorkerInv, AnswersAreTrue
    <3> QED BY <3>2, <3>3 DEF ItemsInv
  <2> QED BY <1>4, <2>1, <2>2 DEF StopJoinConnections
<1> QED BY <1>1, <1>2, <1>3, <1>4 DEF StopStep

-----------------------------------------------------------------------------
(* The queue stays within its bound and the workers within their states.    *)
LEMMA QueueType ==
  ASSUME TypeOK, NEW c \in Connections,
         \/ Len(queue) < MaxQueue /\ queue' = Append(queue, c)
         \/ queue # <<>> /\ queue' = Tail(queue)
         \/ queue' = queue
  PROVE  queue' \in Seq(Connections) /\ Len(queue') <= MaxQueue
<1>0. queue \in Seq(Connections) /\ Len(queue) \in Nat /\ Len(queue) <= MaxQueue /\ MaxQueue \in Nat
  BY ServiceAssumption DEF TypeOK
<1>1. CASE Len(queue) < MaxQueue /\ queue' = Append(queue, c)
  BY <1>0, <1>1
<1>2. CASE queue # <<>> /\ queue' = Tail(queue)
  <2>1. queue' \in Seq(Connections) /\ Len(queue') = Len(queue) - 1
    BY <1>0, <1>2
  <2> QED BY <1>0, <2>1
<1>3. CASE queue' = queue
  BY <1>0, <1>3
<1> QED BY <1>1, <1>2, <1>3

(* A worker that only moves to another place of its loop keeps its type.    *)
LEMMA WorkerType ==
  ASSUME TypeOK, NEW w \in Workers,
         NEW pc \in {"checking", "parking", "waiting", "dispatching", "answering", "done"},
         worker' = [worker EXCEPT ![w].pc = pc]
  PROVE  worker' \in [Workers -> WorkerState]
BY DEF TypeOK, WorkerState

(* Every step keeps the types.                                              *)
LEMMA AcceptKeepsType ==
  ASSUME IInv, AcceptStep PROVE TypeOK'
<1>0. TypeOK /\ AcceptorInv
  BY DEF IInv
<1>1. CASE AcceptTest
  BY <1>0, <1>1 DEF AcceptTest, AcceptorAt, TypeOK, netVars, workVars, stopVars, frameVars
<1>2. CASE AcceptPoll
  BY <1>0, <1>2 DEF AcceptPoll, AcceptorAt, TypeOK, workVars, stopVars, frameVars
<1>3. CASE AcceptRegister
  <2>1. PICK c \in Connections : c = acceptor.conn
    BY <1>0, <1>3 DEF AcceptRegister, AcceptorInv
  <2>2. /\ open' = open \/ open' = open \ {c}
        /\ connections' = connections \/ connections' = connections \cup {c}
        /\ UNCHANGED <<listener_open, connection_threads, workVars, stopVars, frameVars, conn>>
    BY <1>3, <2>1 DEF AcceptRegister
  <2>3. acceptor' \in [pc: {"testing", "polling", "accepted", "spawning", "done"},
                       conn: Connections \cup {Nobody}]
    <3>1. acceptor \in [pc: {"testing", "polling", "accepted", "spawning", "done"},
                        conn: Connections \cup {Nobody}]
      BY <1>0 DEF TypeOK
    <3> QED BY <1>3, <3>1 DEF AcceptRegister, AcceptorAt
  <2> QED BY <1>0, <2>2, <2>3 DEF TypeOK, workVars, stopVars, frameVars
<1>4. CASE AcceptSpawn
  BY <1>0, <1>4 DEF AcceptSpawn, AcceptorInv, AcceptorAt, TypeOK, workVars, stopVars, frameVars
<1> QED BY <1>1, <1>2, <1>3, <1>4 DEF AcceptStep

(* The steps of a connection thread.                                        *)
LEMMA ConnKeepsType ==
  ASSUME IInv, NEW c \in Connections, ConnStep(c) PROVE TypeOK'
<1>0. TypeOK
  BY DEF IInv
<1>1. CASE ConnTest(c)
  BY <1>0, <1>1 DEF ConnTest, ConnAt, TypeOK, netVars, workVars, stopVars, frameVars
<1>2. CASE ConnRead(c)
  <2>1. number' \in [Connections -> 0..MaxRequests]
    <3>1. number \in [Connections -> 0..MaxRequests]
      BY <1>0 DEF TypeOK
    <3>2. CASE number[c] < MaxRequests /\ number' = [number EXCEPT ![c] = @ + 1]
      BY <3>1, <3>2, ServiceAssumption
    <3>3. CASE UNCHANGED number
      BY <3>1, <3>3
    <3> QED BY <1>2, <3>2, <3>3 DEF ConnRead
  <2> QED BY <1>0, <1>2, <2>1 DEF ConnRead, ConnAt, TypeOK, netVars, workVars, stopVars
<1>3. CASE ConnEnqueue(c)
  <2>1. queue' \in Seq(Connections) /\ Len(queue') <= MaxQueue
    BY <1>0, <1>3, QueueType DEF ConnEnqueue
  <2>2. /\ conn' = [conn EXCEPT ![c] = "notifying"] \/ conn' = [conn EXCEPT ![c] = "refusing"]
        /\ completion' = completion \/ completion' = [completion EXCEPT ![c] = "none"]
        /\ UNCHANGED <<netVars, worker, stopVars, frameVars, acceptor>>
    BY <1>3 DEF ConnEnqueue, ConnAt
  <2> QED BY <1>0, <2>1, <2>2 DEF TypeOK, netVars, stopVars, frameVars
<1>4. CASE ConnRefuse(c)
  BY <1>0, <1>4 DEF ConnRefuse, Answer, ConnAt, TypeOK, netVars, workVars, stopVars
<1>5. CASE ConnNotify(c)
  <2>1. worker' \in [Workers -> WorkerState]
    <3>1. CASE \E w \in Workers : Wake(w)
      BY <1>0, <3>1, WorkerType DEF Wake
    <3>2. CASE UNCHANGED worker
      BY <1>0, <3>2 DEF TypeOK
    <3> QED BY <1>5, <3>1, <3>2 DEF ConnNotify, Waiting
  <2> QED BY <1>0, <1>5, <2>1 DEF ConnNotify, ConnAt, TypeOK, netVars, stopVars, frameVars
<1>6. CASE ConnReply(c)
  BY <1>0, <1>6 DEF ConnReply, Answer, ConnAt, TypeOK, netVars, workVars, stopVars
<1>7. CASE ConnClose(c)
  BY <1>0, <1>7 DEF ConnClose, ConnAt, TypeOK, workVars, stopVars, frameVars
<1> QED BY <1>1, <1>2, <1>3, <1>4, <1>5, <1>6, <1>7 DEF ConnStep

(* The steps of a worker thread.                                            *)
LEMMA WorkerKeepsType ==
  ASSUME IInv, NEW w \in Workers, WorkerStep(w) \/ WorkerWakes(w) PROVE TypeOK'
<1>0. TypeOK /\ WorkerInv
  BY DEF IInv, ItemsInv
<1>1. CASE WorkerCheck(w)
  <2>1. CASE /\ queue # <<>> /\ queue' = Tail(queue)
             /\ worker' = [worker EXCEPT ![w] = [pc |-> "dispatching", item |-> Head(queue)]]
    <3>1. PICK h \in Connections : h = Head(queue)
      BY <1>0, <2>1 DEF TypeOK
    <3>2. queue' \in Seq(Connections) /\ Len(queue') <= MaxQueue
      BY <1>0, <2>1, <3>1, QueueType
    <3>3. worker' \in [Workers -> WorkerState]
      BY <1>0, <2>1, <3>1 DEF TypeOK, WorkerState
    <3> QED BY <1>0, <1>1, <3>2, <3>3 DEF WorkerCheck, TypeOK, netVars, stopVars, frameVars
  <2>2. CASE /\ worker' = [worker EXCEPT ![w].pc = IF stopping THEN "done" ELSE "parking"]
             /\ UNCHANGED queue
    <3>1. worker' \in [Workers -> WorkerState]
      BY <1>0, <2>2, WorkerType
    <3> QED BY <1>0, <1>1, <2>2, <3>1 DEF WorkerCheck, TypeOK, netVars, stopVars, frameVars
  <2> QED BY <1>1, <2>1, <2>2 DEF WorkerCheck
<1>2. CASE WorkerPark(w) \/ WorkerWakes(w)
  <2>1. worker' \in [Workers -> WorkerState]
    BY <1>0, <1>2, WorkerType DEF WorkerPark, WorkerWakes, Wake
  <2> QED BY <1>0, <1>2, <2>1 DEF WorkerPark, WorkerWakes, TypeOK, netVars, stopVars, frameVars
<1>3. CASE WorkerDispatch(w)
  <2>1. worker' \in [Workers -> WorkerState]
    BY <1>0, <1>3, WorkerType DEF WorkerDispatch
  <2>2. applied' \in [Frames -> Nat]
    <3>1. PICK f : applied' = [applied EXCEPT ![f] = @ + 1]
      BY <1>3 DEF WorkerDispatch
    <3>2. applied \in [Frames -> Nat]
      BY <1>0 DEF TypeOK
    <3>3. CASE f \in Frames
      BY <3>1, <3>2, <3>3
    <3>4. CASE f \notin Frames
      BY <3>1, <3>2, <3>4
    <3> QED BY <3>3, <3>4
  <2> QED BY <1>0, <1>3, <2>1, <2>2 DEF WorkerDispatch, TypeOK, netVars, stopVars
<1>4. CASE WorkerAnswer(w)
  BY <1>0, <1>4 DEF WorkerAnswer, TypeOK, WorkerState, netVars, stopVars, frameVars
<1> QED BY <1>1, <1>2, <1>3, <1>4 DEF WorkerStep

(* The steps of a stop.                                                     *)
LEMMA StopKeepsType ==
  ASSUME IInv, StopBegin \/ StopStep PROVE TypeOK'
<1>0. TypeOK
  BY DEF IInv
<1>1. CASE StopBegin
  BY <1>0, <1>1 DEF StopBegin, StopAt, TypeOK, netVars, workVars, frameVars
<1>2. CASE StopListener \/ StopSockets
  BY <1>0, <1>2 DEF StopListener, StopSockets, StopAt, TypeOK, workVars, frameVars
<1>3. CASE StopNotify
  <2>1. worker' \in [Workers -> WorkerState]
    <3>1. \A w \in Workers : worker[w] \in WorkerState
      BY <1>0 DEF TypeOK
    <3>2. \A w \in Workers : [worker[w] EXCEPT !.pc = "checking"] \in WorkerState
      BY <3>1 DEF WorkerState
    <3> QED BY <1>3, <3>1, <3>2 DEF StopNotify
  <2> QED BY <1>0, <1>3, <2>1 DEF StopNotify, StopAt, TypeOK, netVars, frameVars
<1>4. CASE StopDrain
  <2>1. queue' \in Seq(Connections) /\ Len(queue') <= MaxQueue
    <3>1. CASE queue # <<>> /\ queue' = Tail(queue)
      <4>1. PICK h \in Connections : h = Head(queue)
        BY <1>0, <3>1 DEF TypeOK
      <4> QED BY <1>0, <3>1, <4>1, QueueType
    <3>2. CASE UNCHANGED queue
      BY <1>0, <3>2 DEF TypeOK
    <3> QED BY <1>4, <3>1, <3>2 DEF StopDrain
  <2> QED BY <1>0, <1>4, <2>1 DEF StopDrain, StopAt, TypeOK, netVars, frameVars
<1>5. CASE StopJoinWorkers
  BY <1>0, <1>5 DEF StopJoinWorkers, StopAt, TypeOK, netVars, workVars, frameVars
<1>6. CASE StopJoinConnections
  BY <1>0, <1>6 DEF StopJoinConnections, StopAt, AcceptorAt, TypeOK, workVars, frameVars
<1>7. CASE StopJoinAcceptor
  BY <1>0, <1>7 DEF StopJoinAcceptor, StopAt, TypeOK, netVars, workVars, frameVars
<1>8. CASE StopSave
  BY <1>0, <1>8 DEF StopSave, StopAt, TypeOK, SaveStatus, netVars, workVars, frameVars
<1> QED BY <1>1, <1>2, <1>3, <1>4, <1>5, <1>6, <1>7, <1>8 DEF StopStep

-----------------------------------------------------------------------------
(* What stop relies on is kept by every thread while it runs.               *)
LEMMA StopInvKept ==
  ASSUME IInv, [Next]_vars
  PROVE  StopInv'
<1>0. TypeOK /\ StopInv
  BY DEF IInv
<1>1. CASE AcceptStep
  BY <1>0, <1>1 DEF StopInv, AcceptStep, AcceptTest, AcceptPoll, AcceptRegister, AcceptSpawn,
      workVars, stopVars
<1>2. ASSUME NEW c \in Connections, ConnStep(c) PROVE StopInv'
  <2>1. UNCHANGED <<stopping, stop_pc>>
    BY <1>2 DEF ConnStep, ConnTest, ConnRead, ConnEnqueue, ConnRefuse, ConnNotify, ConnReply,
        ConnClose, stopVars
  <2>2. stopping => queue' = queue
    BY <1>2 DEF ConnStep, ConnTest, ConnRead, ConnEnqueue, ConnRefuse, ConnNotify, ConnReply,
        ConnClose, workVars
  <2>3. ASSUME NEW w \in Workers, worker[w].pc = "done" PROVE worker'[w].pc = "done"
    BY <1>0, <1>2, <2>3 DEF ConnStep, ConnTest, ConnRead, ConnEnqueue, ConnRefuse, ConnNotify,
        ConnReply, ConnClose, workVars, Waiting, Wake, TypeOK
  <2> QED BY <1>0, <2>1, <2>2, <2>3 DEF StopInv
<1>3. ASSUME NEW w \in Workers, WorkerStep(w) \/ WorkerWakes(w) PROVE StopInv'
  <2>1. UNCHANGED <<stopping, stop_pc>> /\ worker[w].pc # "done"
    BY <1>3 DEF WorkerStep, WorkerCheck, WorkerPark, WorkerWakes, WorkerDispatch, WorkerAnswer,
        stopVars
  <2>2. queue = <<>> => queue' = queue
    BY <1>3 DEF WorkerStep, WorkerCheck, WorkerPark, WorkerWakes, WorkerDispatch, WorkerAnswer
  <2> QED BY <1>0, <2>1, <2>2 DEF StopInv
<1>4. CASE StopBegin \/ StopStep
  <2>1. CASE StopBegin \/ StopListener \/ StopSockets \/ StopNotify
    BY <1>0, <2>1 DEF StopInv, StopBegin, StopListener, StopSockets, StopNotify, StopAt
  <2>2. CASE StopDrain
    BY <1>0, <2>2 DEF StopInv, StopDrain, StopAt
  <2>3. CASE StopJoinWorkers \/ StopJoinConnections \/ StopJoinAcceptor \/ StopSave
    BY <1>0, <2>3 DEF StopInv, StopJoinWorkers, StopJoinConnections, StopJoinAcceptor, StopSave,
        StopAt, workVars
  <2> QED BY <1>4, <2>1, <2>2, <2>3 DEF StopStep
<1>5. CASE UNCHANGED vars
  BY <1>0, <1>5 DEF StopInv, vars, workVars, stopVars
<1> QED BY <1>1, <1>2, <1>3, <1>4, <1>5 DEF Next

(* The connection that the accept thread holds has no thread yet.           *)
LEMMA AcceptorInvKept ==
  ASSUME IInv, [Next]_vars
  PROVE  AcceptorInv'
<1>0. TypeOK /\ AcceptorInv
  BY DEF IInv
<1>1. CASE AcceptStep
  <2>1. CASE AcceptTest \/ AcceptSpawn
    BY <2>1 DEF AcceptorInv, AcceptTest, AcceptSpawn, AcceptorAt
  <2>2. CASE AcceptPoll
    BY <2>2 DEF AcceptorInv, AcceptPoll, AcceptorAt
  <2>3. CASE AcceptRegister
    <3>1. acceptor \in [pc: {"testing", "polling", "accepted", "spawning", "done"},
                        conn: Connections \cup {Nobody}]
      BY <1>0 DEF TypeOK
    <3> QED BY <1>0, <2>3, <3>1 DEF AcceptorInv, AcceptRegister, AcceptorAt
  <2> QED BY <1>1, <2>1, <2>2, <2>3 DEF AcceptStep
<1>2. ASSUME NEW c \in Connections, ConnStep(c) PROVE AcceptorInv'
  <2>1. acceptor' = acceptor /\ conn[c] # "absent"
    BY <1>2 DEF ConnStep, ConnTest, ConnRead, ConnEnqueue, ConnRefuse, ConnNotify, ConnReply,
        ConnClose
  <2>2. \A d \in Connections \ {c} : conn'[d] = conn[d]
    BY <1>0, <1>2 DEF ConnStep, ConnTest, ConnRead, ConnEnqueue, ConnRefuse, ConnNotify,
        ConnReply, ConnClose, ConnAt, Answer, TypeOK
  <2> QED BY <1>0, <2>1, <2>2 DEF AcceptorInv
<1>3. ASSUME NEW w \in Workers, WorkerStep(w) \/ WorkerWakes(w) PROVE AcceptorInv'
  BY <1>0, <1>3 DEF AcceptorInv, WorkerStep, WorkerCheck, WorkerPark, WorkerWakes, WorkerDispatch,
      WorkerAnswer
<1>4. CASE StopBegin \/ StopStep
  BY <1>0, <1>4 DEF AcceptorInv, StopStep, StopBegin, StopListener, StopSockets, StopNotify,
      StopDrain, StopJoinWorkers, StopJoinConnections, StopJoinAcceptor, StopSave, AcceptorAt
<1>5. CASE UNCHANGED vars
  BY <1>0, <1>5 DEF AcceptorInv, vars
<1> QED BY <1>1, <1>2, <1>3, <1>4, <1>5 DEF Next

(* After the save nothing is applied any more.                              *)
LEMMA SavedKept ==
  ASSUME IInv, [Next]_vars
  PROVE  StopSavesEverything'
<1>0. StopInv /\ StopSavesEverything
  BY DEF IInv
<1>1. CASE StopSave
  BY <1>1 DEF StopSave, frameVars, StopSavesEverything
<1>2. ASSUME ~StopSave, stop_pc' = "stopped"
      PROVE  stop_pc = "stopped" /\ UNCHANGED <<saved, save_status, applied>>
  <2>1. CASE AcceptStep \/ (\E c \in Connections : ConnStep(c)) \/ UNCHANGED vars
    BY <1>2, <2>1 DEF AcceptStep, AcceptTest, AcceptPoll, AcceptRegister, AcceptSpawn, ConnStep,
        ConnTest, ConnRead, ConnEnqueue, ConnRefuse, ConnNotify, ConnReply, ConnClose, vars,
        stopVars, frameVars
  <2>2. ASSUME NEW w \in Workers, WorkerStep(w) \/ WorkerWakes(w)
        PROVE  stop_pc = "stopped" /\ UNCHANGED <<saved, save_status, applied>>
    <3>1. UNCHANGED <<stop_pc, saved, save_status>> /\ worker[w].pc # "done"
      BY <2>2 DEF WorkerStep, WorkerCheck, WorkerPark, WorkerWakes, WorkerDispatch, WorkerAnswer,
          stopVars
    <3> QED BY <1>0, <1>2, <3>1 DEF StopInv
  <2>3. CASE StopBegin \/ StopStep
    BY <1>2, <2>3 DEF StopStep, StopBegin, StopListener, StopSockets, StopNotify, StopDrain,
        StopJoinWorkers, StopJoinConnections, StopJoinAcceptor, StopAt
  <2> QED BY <2>1, <2>2, <2>3 DEF Next
<1> QED BY <1>0, <1>1, <1>2 DEF StopSavesEverything

-----------------------------------------------------------------------------
(* The service starts with nothing queued, held or accepted.                *)
LEMMA InitIInv == Init => IInv
<1> SUFFICES ASSUME Init PROVE IInv
  OBVIOUS
<1>1. TypeOK
  <2>1. queue \in Seq(Connections) /\ Len(queue) <= MaxQueue
    BY ServiceAssumption DEF Init
  <2>2. worker \in [Workers -> WorkerState]
    BY DEF Init, WorkerState
  <2>3. number \in [Connections -> 0..MaxRequests]
    BY ServiceAssumption DEF Init
  <2>4. stopping \in BOOLEAN /\ listener_open \in BOOLEAN
    BY DEF Init
  <2> QED BY <2>1, <2>2, <2>3, <2>4 DEF Init, TypeOK, SaveStatus
<1>2. QueuedOnce /\ HeldOnce /\ WorkerInv
  BY DEF Init, QueuedOnce, HeldOnce, WorkerInv
<1>3. ASSUME NEW c \in Connections PROVE OwnedInv(c) /\ FrameInv(c)
  <2>1. ~InQueue(c) /\ ~HeldByWorker(c) /\ ~Awaited(c) /\ ~Pending(c) /\ conn[c] = "absent"
    BY ServiceAssumption DEF Init, InQueue, HeldByWorker, Awaited, Pending
  <2>2. \A n \in 1..MaxRequests : applied[<<c, n>>] = 0 /\ told[<<c, n>>] = "nothing"
    BY DEF Init, Frames
  <2> QED BY <2>1, <2>2 DEF OwnedInv, FrameInv, HeldByWorker
<1>4. AnswersAreTrue
  BY DEF Init, AnswersAreTrue
<1>5. StopInv /\ AcceptorInv /\ StopSavesEverything
  BY DEF Init, StopInv, AcceptorInv, StopSavesEverything
<1> QED BY <1>1, <1>2, <1>3, <1>4, <1>5 DEF IInv, ItemsInv

(* Every step of every thread keeps the inductive invariant.                *)
LEMMA NextKeepsIInv ==
  ASSUME IInv, [Next]_vars
  PROVE  IInv'
<1>1. CASE UNCHANGED vars
  <2>0. /\ UNCHANGED <<queue, completion, worker, number, applied, told, conn>>
        /\ UNCHANGED <<stopping, listener_open, open, connections, connection_threads,
                       acceptor, stop_pc, joining, saved, save_status>>
    BY <1>1 DEF vars, netVars, workVars, stopVars, frameVars
  <2>1. TypeOK'
    BY <2>0 DEF IInv, TypeOK
  <2>2. ItemsInv' /\ AnswersAreTrue'
    BY <2>0, QuietKeepsItems DEF IInv
  <2> QED BY <2>1, <2>2, StopInvKept, AcceptorInvKept, SavedKept DEF IInv
<1>2. CASE Next
  <2>1. TypeOK' /\ ItemsInv' /\ AnswersAreTrue'
    BY <1>2, AcceptKeepsType, AcceptKeepsItems, ConnKeepsType, ConnKeepsItems, WorkerKeepsType,
       WorkerKeepsItems, StopKeepsType, StopKeepsItems DEF Next
  <2> QED BY <2>1, StopInvKept, AcceptorInvKept, SavedKept DEF IInv
<1> QED BY <1>1, <1>2

(* For every number of threads, connections and frames and every size of    *)
(* the queue: the variables keep their types; the queue, for one, never     *)
(* grows past max_ingest_queue_depth (coordinator.cpp, serve_connection).   *)
THEOREM TypeCorrect == Spec => []TypeOK
<1>1. IInv => TypeOK
  BY DEF IInv
<1> QED BY <1>1, InitIInv, NextKeepsIInv, PTL DEF Spec

(* For every number of workers, connections and frames: a work item whose   *)
(* promise is not set is queued once or with one worker, and one whose      *)
(* promise is set is nowhere, while stop empties the queue or not.          *)
THEOREM EveryItemOwnedOnce == Spec => []ItemHasOneOwner
<1>1. IInv => ItemHasOneOwner
  <2> SUFFICES ASSUME IInv, NEW c \in Connections
               PROVE  Cardinality({i \in 1..Len(queue) : queue[i] = c})
                        + Cardinality({w \in Workers : worker[w].item = c})
                      = IF Pending(c) THEN 1 ELSE 0
    BY DEF ItemHasOneOwner, Pending, Awaited
  <2> DEFINE Q == {i \in 1..Len(queue) : queue[i] = c}
             W == {w \in Workers : worker[w].item = c}
  <2>1. Cardinality(Q) = IF InQueue(c) THEN 1 ELSE 0
    <3>1. CASE InQueue(c)
      <4>1. PICK i \in 1..Len(queue) : queue[i] = c
        BY <3>1 DEF InQueue
      <4>2. Q = {i}
        BY <4>1 DEF IInv, ItemsInv, QueuedOnce
      <4> QED BY <3>1, <4>2, FS_Singleton
    <3>2. CASE ~InQueue(c)
      <4>1. Q = {}
        BY <3>2 DEF InQueue
      <4> QED BY <3>2, <4>1, FS_EmptySet
    <3> QED BY <3>1, <3>2
  <2>2. Cardinality(W) = IF HeldByWorker(c) THEN 1 ELSE 0
    <3>1. CASE HeldByWorker(c)
      <4>1. PICK w \in Workers : worker[w].item = c
        BY <3>1 DEF HeldByWorker
      <4>2. W = {w}
        BY <4>1, ServiceAssumption DEF IInv, ItemsInv, HeldOnce
      <4> QED BY <3>1, <4>2, FS_Singleton
    <3>2. CASE ~HeldByWorker(c)
      <4>1. W = {}
        BY <3>2 DEF HeldByWorker
      <4> QED BY <3>2, <4>1, FS_EmptySet
    <3> QED BY <3>1, <3>2
  <2>3. OwnedInv(c)
    BY DEF IInv, ItemsInv
  <2> HIDE DEF Q, W
  <2>4. Cardinality(Q) + Cardinality(W) = IF Pending(c) THEN 1 ELSE 0
    BY <2>1, <2>2, <2>3 DEF OwnedInv
  <2> QED BY <2>4 DEF Q, W
<1> QED BY <1>1, InitIInv, NextKeepsIInv, PTL DEF Spec

(* coordinator.cpp:920-923 and 1062-1064, for every number of threads,      *)
(* connections and frames: no frame is applied twice, no client is told of  *)
(* one that was not applied, nor that one that was applied was refused.     *)
THEOREM AnswersAlwaysTrue == Spec => []AnswersAreTrue
<1>1. IInv => AnswersAreTrue
  BY DEF IInv
<1> QED BY <1>1, InitIInv, NextKeepsIInv, PTL DEF Spec

(* coordinator.hpp:63-64, for every number of threads, connections and      *)
(* frames: when stop has returned and its save succeeded, the state file    *)
(* has every frame that was ever applied, and a thread it left behind       *)
(* applies no more.                                                         *)
THEOREM StopLosesNothing == Spec => []StopSavesEverything
<1>1. IInv => StopSavesEverything
  BY DEF IInv
<1> QED BY <1>1, InitIInv, NextKeepsIInv, PTL DEF Spec
=============================================================================
