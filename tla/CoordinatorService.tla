-------------------------- MODULE CoordinatorService --------------------------
(***************************************************************************)
(* The threads of the coordinator (coordinator.cpp, start and stop): one   *)
(* thread accepts connections, one thread per connection reads frames and  *)
(* queues them, worker threads dispatch them to the observatory, and the   *)
(* host's thread stops the coordinator.                                    *)
(*                                                                         *)
(* A step is what a thread does between two points where another thread    *)
(* can come in between: a critical section, one atomic flag, one socket    *)
(* call.  queue_mutex is held across steps in one place only, by a worker  *)
(* that found nothing to do and has not yet blocked on queue_cv: it is     *)
(* free exactly when no worker is "parking".  What a frame does to the     *)
(* observatory is left to the other modules: here it is applied.           *)
(***************************************************************************)
EXTENDS Naturals, Sequences, FiniteSets

CONSTANTS
  Workers,         \* config.worker_threads ingest threads
  Connections,     \* the connections clients attempt, each served by a thread
  MaxConnections,  \* config.max_connections
  MaxQueue,        \* bounds.max_ingest_queue_depth
  MaxRequests,     \* bound of the model: frames a client sends on a connection
  Nobody           \* no connection

ASSUME ServiceAssumption ==
  /\ Nobody \notin Connections
  /\ MaxConnections \in Nat
  /\ MaxQueue \in Nat
  /\ MaxRequests \in Nat

VARIABLES
  stopping,            \* the atomic flag
  listener_open,       \* the listening socket is open
  open,                \* the connections whose socket is open
  connections,         \* the map of live connections
  connection_threads,  \* the vector of connection threads, until they are joined
  queue,               \* the work items, each named by the connection that waits for it
  completion,          \* the promise of each connection's last work item
  acceptor,            \* the accept thread: where it is, and the socket it holds
  conn,                \* where each connection thread is
  worker,              \* each worker thread: where it is, and its work item
  stop_pc,             \* where the thread that calls stop is
  joining,             \* the connection threads its join loop has seen
  number,              \* history: the frames read from each connection
  applied,             \* history: how often each frame was applied
  told,                \* history: what the client was told about each frame
  saved,               \* history: the frames whose effect the state file holds
  save_status          \* history: what became of the save that ends stop

netVars == <<listener_open, open, connections, connection_threads>>
workVars == <<queue, completion, worker>>
stopVars == <<stopping, stop_pc, joining, saved, save_status>>
frameVars == <<number, applied, told>>
vars == <<netVars, workVars, stopVars, frameVars, acceptor, conn>>

Frames == Connections \X (1..MaxRequests)

(* Where a worker is, and the work item it has taken from the queue.        *)
WorkerState ==
  [pc: {"checking", "parking", "waiting", "dispatching", "answering", "done"},
   item: Connections \cup {Nobody}]

(* stop has not come to its save, has no state_path, or saved or failed to. *)
SaveStatus == {"none", "unconfigured", "failed", "done"}

TypeOK ==
  /\ stopping \in BOOLEAN
  /\ listener_open \in BOOLEAN
  /\ open \subseteq Connections
  /\ connections \subseteq Connections
  /\ connection_threads \subseteq Connections
  /\ queue \in Seq(Connections)
  /\ Len(queue) <= MaxQueue
  /\ completion \in [Connections -> {"none", "applied", "refused"}]
  /\ acceptor \in [pc: {"testing", "polling", "accepted", "spawning", "done"},
                   conn: Connections \cup {Nobody}]
  /\ conn \in [Connections -> {"absent", "testing", "reading", "enqueueing", "refusing",
                               "notifying", "awaiting", "closing", "done"}]
  /\ worker \in [Workers -> WorkerState]
  /\ stop_pc \in {"serving", "flagged", "unbound", "notified", "draining", "joining_workers",
                  "joining_connections", "joining_acceptor", "saving", "stopped", "terminated"}
  /\ joining \subseteq Connections
  /\ number \in [Connections -> 0..MaxRequests]
  /\ applied \in [Frames -> Nat]
  /\ told \in [Frames -> {"nothing", "applied", "refused"}]
  /\ saved \subseteq Frames
  /\ save_status \in SaveStatus

Init ==
  /\ stopping = FALSE
  /\ listener_open = TRUE
  /\ open = {}
  /\ connections = {}
  /\ connection_threads = {}
  /\ queue = <<>>
  /\ completion = [c \in Connections |-> "none"]
  /\ acceptor = [pc |-> "testing", conn |-> Nobody]
  /\ conn = [c \in Connections |-> "absent"]
  /\ worker = [w \in Workers |-> [pc |-> "checking", item |-> Nobody]]
  /\ stop_pc = "serving"
  /\ joining = {}
  /\ number = [c \in Connections |-> 0]
  /\ applied = [f \in Frames |-> 0]
  /\ told = [f \in Frames |-> "nothing"]
  /\ saved = {}
  /\ save_status = "none"

(* queue_mutex can be taken.                                                *)
QueueFree == \A w \in Workers : worker[w].pc # "parking"

Frame(c) == <<c, number[c]>>

-----------------------------------------------------------------------------
(* The accept thread.                                                       *)
AcceptorAt(pc) == acceptor' = [pc |-> pc, conn |-> Nobody]

AcceptTest ==
  /\ acceptor.pc = "testing"
  /\ AcceptorAt(IF stopping THEN "done" ELSE "polling")
  /\ UNCHANGED <<netVars, workVars, stopVars, frameVars, conn>>

(* accept: the listener is closed, nobody came within the poll, or a client *)
(* connected.                                                               *)
AcceptPoll ==
  /\ acceptor.pc = "polling"
  /\ \/ ~listener_open /\ AcceptorAt("done") /\ UNCHANGED open
     \/ listener_open /\ AcceptorAt("testing") /\ UNCHANGED open
     \/ /\ listener_open
        /\ \E c \in Connections :
             /\ conn[c] = "absent"
             /\ acceptor' = [pc |-> "accepted", conn |-> c]
             /\ open' = open \cup {c}
  /\ UNCHANGED <<listener_open, connections, connection_threads>>
  /\ UNCHANGED <<workVars, stopVars, frameVars, conn>>

(* Under connections_mutex: entered in the map, or closed at the bound.     *)
AcceptRegister ==
  /\ acceptor.pc = "accepted"
  /\ IF Cardinality(connections) >= MaxConnections
     THEN /\ open' = open \ {acceptor.conn}
          /\ AcceptorAt("testing")
          /\ UNCHANGED connections
     ELSE /\ connections' = connections \cup {acceptor.conn}
          /\ acceptor' = [acceptor EXCEPT !.pc = "spawning"]
          /\ UNCHANGED open
  /\ UNCHANGED <<listener_open, connection_threads>>
  /\ UNCHANGED <<workVars, stopVars, frameVars, conn>>

(* connection_threads.emplace_back: no lock is held.                        *)
AcceptSpawn ==
  /\ acceptor.pc = "spawning"
  /\ connection_threads' = connection_threads \cup {acceptor.conn}
  /\ conn' = [conn EXCEPT ![acceptor.conn] = "testing"]
  /\ AcceptorAt("testing")
  /\ UNCHANGED <<listener_open, open, connections>>
  /\ UNCHANGED <<workVars, stopVars, frameVars>>

AcceptStep == AcceptTest \/ AcceptPoll \/ AcceptRegister \/ AcceptSpawn

-----------------------------------------------------------------------------
(* The thread of connection c.                                              *)
ConnAt(c, pc) == conn' = [conn EXCEPT ![c] = pc]

ConnTest(c) ==
  /\ conn[c] = "testing"
  /\ ConnAt(c, IF stopping THEN "closing" ELSE "reading")
  /\ UNCHANGED <<netVars, workVars, stopVars, frameVars, acceptor>>

(* FrameReader::next: nothing within the poll, a frame, or a connection     *)
(* that its client or stop closed, or that carries no frame.                *)
ConnRead(c) ==
  /\ conn[c] = "reading"
  /\ \/ c \in open /\ ConnAt(c, "testing") /\ UNCHANGED number
     \/ ConnAt(c, "closing") /\ UNCHANGED number
     \/ /\ c \in open /\ number[c] < MaxRequests
        /\ number' = [number EXCEPT ![c] = @ + 1]
        /\ ConnAt(c, "enqueueing")
  /\ UNCHANGED <<netVars, workVars, stopVars, applied, told, acceptor>>

(* Mutant of ConnEnqueue: the promise of the last frame is used again.      *)
ConnEnqueueReusesPromise(c) ==
  /\ conn[c] = "enqueueing"
  /\ QueueFree
  /\ IF Len(queue) < MaxQueue /\ ~stopping
     THEN queue' = Append(queue, c) /\ ConnAt(c, "notifying")
     ELSE ConnAt(c, "refusing") /\ UNCHANGED queue
  /\ UNCHANGED <<netVars, completion, worker, stopVars, frameVars, acceptor>>

(* Under queue_mutex: queued, or refused when the queue is full or the      *)
(* coordinator is stopping.                                                 *)
ConnEnqueue(c) ==
  /\ conn[c] = "enqueueing"
  /\ QueueFree
  /\ IF Len(queue) < MaxQueue /\ ~stopping
     THEN /\ queue' = Append(queue, c)
          /\ completion' = [completion EXCEPT ![c] = "none"]
          /\ ConnAt(c, "notifying")
     ELSE ConnAt(c, "refusing") /\ UNCHANGED <<queue, completion>>
  /\ UNCHANGED <<netVars, worker, stopVars, frameVars, acceptor>>

(* write_all of the answer: the client has it, or the socket was closed.    *)
Answer(c, outcome) ==
  \/ /\ c \in open
     /\ told' = [told EXCEPT ![Frame(c)] = outcome]
     /\ ConnAt(c, "testing")
  \/ ConnAt(c, "closing") /\ UNCHANGED told

ConnRefuse(c) ==
  /\ conn[c] = "refusing"
  /\ Answer(c, "refused")
  /\ UNCHANGED <<netVars, workVars, stopVars, number, applied, acceptor>>

Waiting == {w \in Workers : worker[w].pc = "waiting"}

(* notify_one wakes a worker that waits, if one does.                       *)
Wake(w) == worker' = [worker EXCEPT ![w].pc = "checking"]

(* Mutant of ConnNotify: the item is queued and nobody is told.             *)
ConnNotifiesNobody(c) ==
  /\ conn[c] = "notifying"
  /\ ConnAt(c, "awaiting")
  /\ UNCHANGED <<netVars, workVars, stopVars, frameVars, acceptor>>

ConnNotify(c) ==
  /\ conn[c] = "notifying"
  /\ \/ \E w \in Waiting : Wake(w)
     \/ Waiting = {} /\ UNCHANGED worker
  /\ ConnAt(c, "awaiting")
  /\ UNCHANGED <<netVars, queue, completion, stopVars, frameVars, acceptor>>

(* completion.get: a refusal is passed on; an answer is, unless the         *)
(* coordinator is stopping, when the connection ends without one.           *)
ConnReply(c) ==
  /\ conn[c] = "awaiting"
  /\ completion[c] # "none"
  /\ IF completion[c] = "applied" /\ stopping
     THEN ConnAt(c, "closing") /\ UNCHANGED told
     ELSE Answer(c, completion[c])
  /\ UNCHANGED <<netVars, workVars, stopVars, number, applied, acceptor>>

ConnClose(c) ==
  /\ conn[c] = "closing"
  /\ open' = open \ {c}
  /\ connections' = connections \ {c}
  /\ ConnAt(c, "done")
  /\ UNCHANGED <<listener_open, connection_threads>>
  /\ UNCHANGED <<workVars, stopVars, frameVars, acceptor>>

ConnStep(c) ==
  \/ ConnTest(c) \/ ConnRead(c) \/ ConnEnqueue(c) \/ ConnRefuse(c)
  \/ ConnNotify(c) \/ ConnReply(c) \/ ConnClose(c)

-----------------------------------------------------------------------------
(* Worker w.  It takes queue_mutex and looks: an item to dispatch, nothing  *)
(* left to do, or nothing yet, when it goes on to block on queue_cv.        *)
WorkerCheck(w) ==
  /\ worker[w].pc = "checking"
  /\ QueueFree
  /\ \/ /\ queue # <<>>
        /\ queue' = Tail(queue)
        /\ worker' = [worker EXCEPT ![w] = [pc |-> "dispatching", item |-> Head(queue)]]
     \/ /\ queue = <<>>
        /\ worker' = [worker EXCEPT ![w].pc = IF stopping THEN "done" ELSE "parking"]
        /\ UNCHANGED queue
  /\ UNCHANGED <<netVars, completion, stopVars, frameVars, acceptor, conn>>

(* queue_cv.wait blocks and releases queue_mutex.                           *)
WorkerPark(w) ==
  /\ worker[w].pc = "parking"
  /\ worker' = [worker EXCEPT ![w].pc = "waiting"]
  /\ UNCHANGED <<netVars, queue, completion, stopVars, frameVars, acceptor, conn>>

(* A condition variable may wake a thread that nobody notified.             *)
WorkerWakes(w) ==
  /\ worker[w].pc = "waiting"
  /\ Wake(w)
  /\ UNCHANGED <<netVars, queue, completion, stopVars, frameVars, acceptor, conn>>

WorkerDispatch(w) ==
  /\ worker[w].pc = "dispatching"
  /\ applied' = [applied EXCEPT ![Frame(worker[w].item)] = @ + 1]
  /\ worker' = [worker EXCEPT ![w].pc = "answering"]
  /\ UNCHANGED <<netVars, queue, completion, stopVars, number, told, acceptor, conn>>

WorkerAnswer(w) ==
  /\ worker[w].pc = "answering"
  /\ completion' = [completion EXCEPT ![worker[w].item] = "applied"]
  /\ worker' = [worker EXCEPT ![w] = [pc |-> "checking", item |-> Nobody]]
  /\ UNCHANGED <<netVars, queue, stopVars, frameVars, acceptor, conn>>

WorkerStep(w) ==
  WorkerCheck(w) \/ WorkerPark(w) \/ WorkerDispatch(w) \/ WorkerAnswer(w)

-----------------------------------------------------------------------------
(* stop, called by the host's thread.                                       *)
StopAt(pc) == stop_pc' = pc

StopBegin ==
  /\ stop_pc = "serving"
  /\ stopping' = TRUE
  /\ StopAt("flagged")
  /\ UNCHANGED <<netVars, workVars, joining, saved, save_status, frameVars, acceptor, conn>>

StopListener ==
  /\ stop_pc = "flagged"
  /\ listener_open' = FALSE
  /\ StopAt("unbound")
  /\ UNCHANGED <<open, connections, connection_threads>>
  /\ UNCHANGED <<workVars, stopping, joining, saved, save_status, frameVars, acceptor, conn>>

(* notify_all, without queue_mutex.                                         *)
StopNotify ==
  /\ stop_pc = "unbound"
  /\ worker' = [w \in Workers |->
       IF w \in Waiting THEN [worker[w] EXCEPT !.pc = "checking"] ELSE worker[w]]
  /\ StopAt("notified")
  /\ UNCHANGED <<netVars, queue, completion, stopping, joining, saved, save_status,
                 frameVars, acceptor, conn>>

StopSockets ==
  /\ stop_pc = "notified"
  /\ open' = open \ connections
  /\ StopAt("draining")
  /\ UNCHANGED <<listener_open, connections, connection_threads>>
  /\ UNCHANGED <<workVars, stopping, joining, saved, save_status, frameVars, acceptor, conn>>

(* Mutants of StopDrain: a refused item stays in the queue; the state is    *)
(* saved before the threads are joined.                                     *)
StopDrainKeepsItem ==
  /\ stop_pc = "draining"
  /\ QueueFree
  /\ queue # <<>>
  /\ completion' = [completion EXCEPT ![Head(queue)] = "refused"]
  /\ UNCHANGED <<netVars, queue, worker, stopVars, frameVars, acceptor, conn>>

StopDrainThenSave ==
  /\ stop_pc = "draining"
  /\ QueueFree
  /\ queue = <<>>
  /\ StopAt("saving")
  /\ UNCHANGED <<netVars, workVars, stopping, joining, saved, save_status,
                 frameVars, acceptor, conn>>

(* What is still queued is refused.                                         *)
StopDrain ==
  /\ stop_pc = "draining"
  /\ QueueFree
  /\ \/ /\ queue # <<>>
        /\ queue' = Tail(queue)
        /\ completion' = [completion EXCEPT ![Head(queue)] = "refused"]
        /\ UNCHANGED stop_pc
     \/ /\ queue = <<>>
        /\ StopAt("joining_workers")
        /\ UNCHANGED <<queue, completion>>
  /\ UNCHANGED <<netVars, worker, stopping, joining, saved, save_status,
                 frameVars, acceptor, conn>>

StopJoinWorkers ==
  /\ stop_pc = "joining_workers"
  /\ \A w \in Workers : worker[w].pc = "done"
  /\ joining' = connection_threads
  /\ StopAt("joining_connections")
  /\ UNCHANGED <<netVars, workVars, stopping, saved, save_status, frameVars, acceptor, conn>>

(* The join loop over connection_threads, and clear.  A thread that the     *)
(* accept thread adds during the loop is a data race: the loop sees it, or  *)
(* clear destroys a thread that was not joined, which ends the process and  *)
(* every thread in it.                                                      *)
StopJoinConnections ==
  /\ stop_pc = "joining_connections"
  /\ \A c \in joining : conn[c] = "done"
  /\ \/ /\ connection_threads \subseteq joining
        /\ connection_threads' = {}
        /\ StopAt("joining_acceptor")
        /\ UNCHANGED <<joining, acceptor, conn>>
     \/ /\ ~(connection_threads \subseteq joining)
        /\ joining' = connection_threads
        /\ UNCHANGED <<connection_threads, stop_pc, acceptor, conn>>
     \/ /\ ~(connection_threads \subseteq joining)
        /\ StopAt("terminated")
        /\ AcceptorAt("done")
        /\ conn' = [c \in Connections |-> "done"]
        /\ UNCHANGED <<connection_threads, joining>>
  /\ UNCHANGED <<listener_open, open, connections>>
  /\ UNCHANGED <<workVars, stopping, saved, save_status, frameVars>>

StopJoinAcceptor ==
  /\ stop_pc = "joining_acceptor"
  /\ acceptor.pc = "done"
  /\ StopAt("saving")
  /\ UNCHANGED <<netVars, workVars, stopping, joining, saved, save_status,
                 frameVars, acceptor, conn>>

(* save_state when state_path is configured (it is read nowhere else in     *)
(* stop); a save that fails leaves the file as it was and is only logged.   *)
(* The flags are reset and stop reports success in every case.              *)
StopSave ==
  /\ stop_pc = "saving"
  /\ \/ save_status' = "done" /\ saved' = {f \in Frames : applied[f] > 0}
     \/ save_status' \in {"unconfigured", "failed"} /\ UNCHANGED saved
  /\ stopping' = FALSE
  /\ StopAt("stopped")
  /\ UNCHANGED <<netVars, workVars, joining, frameVars, acceptor, conn>>

StopStep ==
  \/ StopListener \/ StopNotify \/ StopSockets \/ StopDrain
  \/ StopJoinWorkers \/ StopJoinConnections \/ StopJoinAcceptor \/ StopSave

-----------------------------------------------------------------------------
Next ==
  \/ AcceptStep
  \/ \E c \in Connections : ConnStep(c)
  \/ \E w \in Workers : WorkerStep(w) \/ WorkerWakes(w)
  \/ StopBegin
  \/ StopStep

(* Every thread that can take a step eventually does, and one that keeps    *)
(* finding queue_mutex free eventually takes it.  Nobody has to call stop,  *)
(* no client has to send, and no worker wakes unless it is notified.        *)
Fairness ==
  /\ WF_vars(AcceptStep)
  /\ WF_vars(StopStep)
  /\ SF_vars(StopDrain)
  /\ \A c \in Connections : WF_vars(ConnStep(c)) /\ SF_vars(ConnEnqueue(c))
  /\ \A w \in Workers : WF_vars(WorkerStep(w)) /\ SF_vars(WorkerCheck(w))

Spec == Init /\ [][Next]_vars
FairSpec == Spec /\ Fairness

-----------------------------------------------------------------------------
(* The promise of each work item is fulfilled once: an item whose           *)
(* connection waits is in the queue once, or with one worker, and neither   *)
(* when its promise was already set (std::promise::set_value throws when it *)
(* is set a second time).                                                   *)
ItemHasOneOwner ==
  \A c \in Connections :
    Cardinality({i \in 1..Len(queue) : queue[i] = c})
      + Cardinality({w \in Workers : worker[w].item = c})
    = IF conn[c] \in {"notifying", "awaiting"} /\ completion[c] = "none" THEN 1 ELSE 0

(* coordinator.cpp:920-923 and 1062-1064: a client that reads "it was NOT   *)
(* applied" can rely on it, and one that reads an acknowledgement has had   *)
(* its observation applied once.                                            *)
AnswersAreTrue ==
  \A f \in Frames :
    /\ applied[f] <= 1
    /\ told[f] = "applied" => applied[f] = 1
    /\ told[f] = "refused" => applied[f] = 0

(* coordinator.hpp:63-64: stop persists the state after every thread that   *)
(* could change it has ended: when it saves (state_path is set) and the     *)
(* save succeeds, nothing that was applied is missing from the file, though *)
(* its client may never have been told, and nothing is applied later.       *)
StopSavesEverything ==
  stop_pc = "stopped" /\ save_status = "done" => saved = {f \in Frames : applied[f] > 0}

(* coordinator.cpp:1050-1051: until stop is over, no connection waits for   *)
(* ever "on a promise that nobody will fulfil", though the queue fills, the *)
(* workers sleep and wake, and stop empties the queue under them.           *)
EveryItemAnswered ==
  \A c \in Connections :
    conn[c] = "awaiting" ~> conn[c] # "awaiting" \/ stop_pc = "stopped"

(* coordinator.hpp:63-64: stop will "join every thread, and persist state": *)
(* once called, it ends.                                                    *)
StopCompletes == stop_pc = "flagged" ~> stop_pc \in {"stopped", "terminated"}
=============================================================================
