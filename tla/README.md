# A formal model of Federation Observatory

Federation Observatory is a C++20 service that collects what the publishers of a
federation of accelerator clusters say about it (structure, capability, capacity,
placements, migrations, portability evidence) and answers questions about what is
known. It only observes: what makes it correct is that it never believes a publisher
that lost its authority, never takes an old observation for a new one, never calls
current what it has not heard in this incarnation, and never tells a client something
false about what became of its frame.

This directory holds the TLA+ modules that model it, the TLC configurations that check
small instances, and TLAPS proofs of the properties that hold for every instance.
`PROJECT.json` maps every definition to the lines of the source it stands for.
Paths below are relative to the repository.

## 1. The system

| Component | State it keeps | Operations that change it | Talks to |
|---|---|---|---|
| Publisher authority (`src/observatory.cpp`) | `publishers`: per boot identity (publisher, boot generation) the epoch, federation, sequence watermark, live and fenced flags, gap counter; `coordinator_epoch_` | `register_publisher`, `check_authority`/`finish` around every publication, `fence_publisher`, `invalidate_dynamic_evidence`, restore | everything below passes its gate |
| Structural registry and clusters (`src/observatory.cpp`, `src/model.cpp`) | eleven maps of records, each with a generation, a currentness and the stamp of its last writer | `register_*`, `retire_cluster`, `publish_capability`, `publish_capacity` | the gate; records refer to one another |
| Migration history (`src/observatory.cpp`, `src/migration.cpp`) | migrations and their stage events; which migration of a workload is superseded | `publish_migration`, `publish_migration_stage` | the gate; the registry |
| Placements and portability (`src/placement.cpp`, `src/portability.cpp`) | bounded histories of observations | `publish_placement`, `publish_portability` | the gate; the registry |
| Durable state (`src/state_store.cpp`) | one file: header, digest, body | `save_state`, `load_state` | captures and restores all of the above |
| Coordinator service (`src/coordinator.cpp`) | listener, connections, threads, ingest queue, `stopping` | accept, connection and worker threads; `start`, `stop` | dispatches frames to the observatory |
| Publisher and client sessions (`src/publisher.cpp`, `src/client.cpp`) | one socket, the epoch learnt at the hello, the next sequence number | one request at a time | the coordinator |
| Wire protocol (`src/protocol.cpp`, `src/records_codec.cpp`, `src/net.cpp`) | the frame reader's buffer | `FrameReader::next`, encoders and decoders | sessions and the coordinator |
| Snapshots (`src/snapshot.cpp`) | none: an immutable copy | `build_snapshot` | reads the observatory |
| Analyses (`src/analysis.cpp`, `src/capacity.cpp`, `src/capability.cpp`, `src/compatibility.cpp`) | none: pure functions | ledgers, tri-state capability, compatibility, fragmentation, drift | read snapshots |
| Hardware probe, processes, synthetic data, command line | none of interest | input and output | the library's front ends |

### What is hard here

*Authority over long call sequences.* The watermark and the fence of an identity are
read and written by eleven operations and survive restarts. One operation that forgets
to raise the watermark, or a restore that loses a fence, shows only many calls later.
Correct: accepted numbers never go back; a fenced identity never publishes again; the
watermark is exactly the largest number acknowledged.

*Several writers of one record.* A cluster is described by several identities, each
with its own sequence numbers, so only generations order what they say, and each
operation compares them in its own way. Correct: generations never go back; a retired
cluster takes no evidence; a record is current only on the word of an unfenced identity
in this epoch.

*Stage events.* Repeated, late and out of order, through an unknown outcome, for
migrations that supersede one another. Correct: the stored history is always one that
`MigrationRecord::validate` accepts (or nothing can be saved), progress never runs
backwards, a terminal record stays as it is.

*Threads.* Connection threads, workers and `stop` share a queue, promises and a
condition variable. Correct: each promise is set once; what a client is told is true;
a save at the end has what was applied; everyone who waits is answered; `stop` ends and leaves no
thread behind.

*Restart and crash.* Nothing is saved but by a clean stop or a checkpoint, and a crash
may come between any two steps of either; what is loaded must not look current.
Correct: the state file is always whole, holds what a save reported as done, and only
moves forward; an epoch whose frames may be in flight is not used again.

*Histories.* Placements and portability assessments come late, twice and out of order,
with times their publishers choose; which placement is the latest is kept by one rule and
rebuilt after a restart by another. Correct: no stored record, and no answer about the
latest, goes back.

*Encodings.* Some forty encoders and as many decoders agree by convention only, with
limits stated on both sides and a third time by `validate`; a frame or a file may be cut
or altered anywhere. Correct: what arrives is what was sent, what is decoded is legal,
what is cut short, or altered in its payload, is refused, what is saved can be loaded.

*Answers from partial knowledge.* Four analyses read the same records by different code,
while records fall silent, go stale or are cut from a snapshot. Correct: silence and
truncation make answers open, never different (but for what section 3 says of each); the
analyses agree; policy is told apart from technical reasons; capacity is counted once.

The `hazards` of `PROJECT.json` list these one by one, at their lines, with the
properties that would catch them going wrong.

## 2. The modules

```
AuthorityContract          what is promised about authority (abstract)
   ^  implemented by
Gate                       the publisher table and check_authority/finish
   ^ extended by
   +-- Authority           the table's life, gap counters        MCAuthority
   +-- Observatory         registry and cluster records          MCObservatory
   +-- Migrations          migration history                     MCMigrations
   +-- Histories           placements and portability            MCHistories
   +-- Sessions            publishers, connections and dispatch  MCSessions
MigrationStages            the stage machine (used by Migrations and Records)
CoordinatorService         the coordinator's threads             MCCoordinatorService
Durability                 saves, crashes and starts             MCDurability

Capacity -> Records -> Codec -> RecordsCodec -> ProtocolCodec -> Samples
   ledger   validate  fields    every record    messages, frames   inputs
                                                    |
                                    Transfer and StateFile       MCCodec
Capability -> Compatibility -> Portability, Stranding
                                    |
                                 Analyses                        MCAnalyses

GateProofs                 the TLAPS proofs: what each operation on the table does
   ^ extended by
   +-- AuthorityProofs, ObservatoryProofs, SessionsProofs
   +-- HistoriesProofs (Histories and Migrations)
CoordinatorServiceProofs, DurabilityProofs, AnalysesProofs
```

Each public operation of the observatory holds one exclusive lock from its first test
to its last assignment, so in `Gate`, `Authority`, `Observatory`, `Migrations` and
`Histories` an operation is one atomic action. A refusal changes nothing but diagnostic counters, so
the early returns of the code are the guard of the action, and a refused call is no
step. A publication that is accepted but suppressed (a duplicate, or older than what is
stored) *is* a step: `finish` raises the watermark.

**Gate.** `publishers` is the map of the code, as a partial function; `check_authority`,
`duplicate_sequence`, `finish`, `register_publisher` (`ReRegister`, `RegisterNew`),
`fence_publisher` (`FenceKnown`, `FenceUnknown`), the part of
`invalidate_dynamic_evidence` that touches the table (`InvalidateAuthority`) and what a
save followed by a load leaves of it (`RestoreAuthority`). Note what the code does *not*
test, and the model therefore does not either: the epoch of a first registration,
`max_publishers` when an unknown identity is fenced, the federation's bound when an
identity registers again elsewhere, liveness at the gate.

**AuthorityContract.** Three variables: the epoch, the fenced identities, the largest
accepted number of each identity. `Gate` instantiates it (`Contract`) with the table as
refinement mapping; `Authority` checks `ImplementsContract == Contract!Spec`, and it is
proved of `Authority`, `Observatory`, `Migrations`, `Histories` and `Sessions`.

**Authority.** The table alone, with any publication that passes the gate. `accepted`
and `base` are history variables: the numbers accepted and where this incarnation began
to count gaps.

**Observatory.** `records` holds the structural records of the ten kinds that share
`register_structural`; `clusters` holds cluster records, which also carry capability,
capacity and readiness. What a record says beyond its generation is one abstract
`content`, which determines what it refers to (`References`). `References` may name
anything registered; the code's checks are existence checks. The action
`invalidate_dynamic_evidence`, the fence's walk over the maps (it visits four of the
eleven), and `Restart` (`capture_durable_state`, `DurableState::validate`,
`apply_durable_state`) are whole handlers, the table's part included.

**Migrations, MigrationStages.** `Successors` and `is_valid_migration_transition` are the stage machine;
`validate` is `MigrationRecord::validate`; `superseded_migrations` is the per-workload
map. A restart rebuilds that map from the records in the order of the times the
publishers gave, which nothing in the observatory constrains, so the model takes any
order. The workload, the clusters and the federation generation that a record names
are taken to pass their checks.

**Histories.** `publish_placement` and `publish_portability` with their bounds, the map
from a workload to its latest placement, the fence, and the restart that forgets that map
and works it out again (`rebuilt_latest`). A record carries the time it was made, its
context the time it was sent: the code compares the one and stores the other. The
workloads and clusters a record names are taken as registered.

**CoordinatorService.** One thread accepts (`accept_threads` is 1 by default), one
thread per connection reads and queues frames, workers dispatch, the host's thread runs
`stop`. A step is what a thread does between two points where another can intervene.
`queue_mutex` is held across steps only by a worker that found nothing to do and has not
yet blocked on `queue_cv`; the mutex is free exactly when no worker is `parking`. Adding
to the vector of connection threads while `stop` walks it is a data race in the code: the
model lets the walk see the new thread, or ends the process (destroying a joinable
thread calls `std::terminate`). `dispatch` is one step: it applies the frame. The save at
the end of `stop` (`StopSave`) happens or not (`state_path` may be empty) and succeeds or
fails (`save_status`); `stop` goes on alike in each case, and what a save does step by step is
`Durability`'s.

**Durability.** One step for each system call of a save (capture under the shared lock,
number under the exclusive lock, open or truncate the temporary file, write, flush and
close, rename, or remove after a failure), each of which may fail where the code tests
for it; a checkpoint from any thread, the save at the end of `stop`, a crash of the
process anywhere, and the two ways to start. A file is an inode with two halves, because
a thread goes on writing to an inode that another has renamed. The size of a state is the
number of observations it holds, so that `max_persistence_bytes`, which counts the header
when reading and not when writing, is met on both sides. Each start is a new process, and
a file that exists can be opened for reading (the code takes any failure to open it for
"no file", `state_store.cpp:750`, and starts afresh). `DurableState::validate`, the other
reason for which a state is refused, is in `Observatory` and `Migrations`.

**Sessions.** A publisher process (`session`), its connection (`channel`, in order, may
break and lose what was last sent) and the dispatch of its frames to `Gate`. A call takes
its sequence number before the exchange, so numbers are consumed by calls that fail; a
wait that ends in an error other than a closed connection leaves the client connected and
the reply on its way, which is why `exchange` compares request identifiers. A refusal,
whatever its reason, is one disjunct (`Refuse`). `Reload` is `load_state` on a running
coordinator: the epoch advances under open connections.

**Capacity, Records.** The ledger of a pool and the `validate` function of every record.
A text is its length; a generation of 0 is unset; the limits of `bounds.hpp` are
constants.

**Codec, RecordsCodec, ProtocolCodec.** A stream is a sequence of fields with their
widths. `encode_x` and `decode_x` are the lists of fields that the two functions of `x`
write and read, in their order, with the type, the limit and the check of each, so that a
field exchanged, dropped, or read at another width in one of them shows. `Put` and `Get`
are the encoder and the decoder that follow such a list: saturation, sign, counts, tags,
sorted and deduplicated collections, the first error kept. `ProtocolCodec` adds the
publications, queries and replies and the frame: its type, flags, request identifier, length
and check sum.

**Samples.** One record of each type with every field set, the records that differ from
it in one place (a limit, one past it, an empty text, a repeated element), and `Admits`,
which records a receiver may hold: inputs and a reference for the two modules below.

**Transfer.** One message from its sender's record to its receiver's: `Build`, `Send`;
then a peer of another make may have written something else (`PeerWrites`), the connection
may alter the frame (`Damage`) or end in its midst (`Close`); `Read` is one turn of
`FrameReader::next` and takes any number of the outstanding units, `PeerClosed`, `TooLong`
and `Receive` are its ends. `Damage` changes one field of the payload or of the header: a type
turns into any other, known, unassigned or invalid; flags, request identifier, length (shorter,
longer with and without bytes that follow, beyond the bound), check sum, reserved bytes,
version and magic. The receiver reads the payload by the type that arrived: the coordinator
through `dispatch`, which looks at neither flags nor identifier and ignores the payload of
four types; a client through `exchange`, which compares the identifier and takes only the type
it waits for or a `Failure`. Bytes read as another message than they were written as have
other fields, so that such a reading may yield a record (`Misreads`). A fence that the
configuration forbids is decoded here all the same, and the `Failure` that `make_reply` sends
in place of a reply it cannot encode is left out.

**StateFile.** What a save makes of the captured state (`save_durable_state`: the
normalisation of what must not survive, validation, header, payload) and what a load makes
of the file (`load_durable_state`), which may be damaged between. How the file gets to its
place is `Durability`'s.

**Capability, Compatibility, Portability, Stranding.** The analyses as operators:
`evaluate_requirement` over tri-state evidence, `merge_capabilities`,
`assess_compatibility` with one verdict per dimension, `assess_portability`,
`evaluate_pool`, `analyze_stranded_capacity`, `analyze_fragmentation`. Texts, precision
and evidence class are left out.

**Analyses.** The records those operators read, changed by publications that replace one
field (`Publish`), by capabilities no longer published (`Silence`) and by a restart;
`build_snapshot` takes the records in the code's order, up to a bound, here a number of
records; the queries (`compatibility`, `evaluate_portability`, `findings`) gather the
inputs of the operators from a snapshot as `observatory.cpp` does. `WellFormed` says which
fields the records have and which values `validate` and the registration let through
(`Valid`): publications outside it are refused before they are stored. Sums are over
naturals: the code refuses a report whose nominal capacity overflows
(`analysis.cpp:558`), and no other sum is larger. Every property is about what the answers
have to do with one another or with the answers before the step.

Operators introduced by a comment "Mutant of ..." are deliberate faults. They are used by
no specification; each one replaces the definition it names to see that a property
notices.

## 3. What TLC checks

Passing runs:

| Run | Instance | Distinct states | Shows |
|---|---|---|---|
| `authority` | 3 identities, table of 2, numbers to 3, one restart | 52 thousand | the table implements the contract; the watermark is the largest accepted number; the gap counter counts each hole once; the identities that are not fenced stay within `max_publishers` |
| `registry` | a federation, a site in it and a runtime; 2 identities, numbers to 3, generations to 2, one restart | 57 thousand | no stamp outruns its publisher's watermark; what a fenced identity wrote is not current (for the kinds the fence visits); what is stored never prevents a save (`DurableState::validate`); two structural records never share a number |
| `clusters` | a federation and a cluster, with registrations, capability and capacity of two generations, retirement; 2 identities | 221 thousand | current means this epoch; generations never go back; a retired cluster comes back by registration only |
| `migrations` | 2 migrations of one workload, numbers to 4, generations to 2, histories of 3 events, one restart | 347 thousand | stored histories stay legal; progress never runs backwards; nothing is current after a restart until heard of |
| `histories` | 2 workloads, 2 placements, 1 assessment, each at its bound, 2 times, 2 generations, one restart | 144 thousand | a stored placement, a workload's latest placement and a stored assessment never go back, a restart included |
| `service` | 2 connections with 2 frames each, 2 workers, a queue of 1, `stop` at any moment | 172 thousand | each promise is set once; answers are true; a state that `stop` managed to save holds everything applied |
| `answers` | 2 connections with 1 frame, 2 workers, fair threads | 111 thousand | every queued frame is answered |
| `durability` | states of up to 3 units of which 2 can be saved and 1 loaded, 3 epochs, 4 saves, a crash anywhere | 289 thousand | one thread at a time saving: the state file is whole, keeps what was reported as saved, only moves forward; a run that saved never shares its epoch with a later one |
| `sessions` | one process, numbers to 3, 5 requests, one restart or reload | 163 thousand | what the process is told is true; its numbers are accepted in order, each once; its view and the watermark agree; every call returns |
| `codec` | each kind of message with every field in turn at its limits; a state of two records of each kind | 92 thousand | an undisturbed message arrives as sent and is refused only when past a limit; whatever a peer writes, what is decoded is legal; whatever happens to a frame on its way, one that is taken is whole and has the payload that was sent, at a client also the request's identifier and the awaited type; a load returns what was saved, normalised, or refuses; a save that succeeds can be loaded |
| `analyses` | a workload with 2 current placements, 2 clusters at 2 sites and what they refer to; 2 changes, silences and restarts | 4 thousand | lost evidence only makes answers open; a truncated snapshot answers as the whole does or leaves open where the workload is; compatibility and stranding agree; policy changes no technical answer; no overall verdict without current evidence; capacity is partitioned |

Why these bounds are enough: three numbers let one identity skip one, repeat one and
still move on, so every comparison with the watermark comes out both ways; numbers,
epochs and generations are only ever compared, or incremented by one, so a larger bound
adds longer behaviours and no new comparison. Two identities are the least that can
write one record in turn; a third, in `authority`, makes the table overflow. One restart
separates two epochs; a second one repeats the first from a state of the same shape.
Two workers, two connections and a queue of one make the queue both full and empty while
somebody waits. Three epochs and four saves let a run crash before, during and after a save that follows
another run's. `MaxSequence`, `MaxEpoch`, `MaxGeneration`, `MaxSaves` and `MaxRequests`
(of a client, or of a connection) bound the
model and have no counterpart in the code (64-bit counters); `MaxPublishers`,
`MaxPublishersPerFederation`, `Limit`, `MaxMigrations`, `MaxStageEvents`, `MaxConnections`,
`MaxQueue`, `MaxBytes` and `HeaderBytes` are bounds of the code, made small so that they are met.
So are `MaxPlacements`, `MaxPortability`, the limits `kMax...` and `max_frame_bytes` of `codec`,
where the samples have a collection at each limit and one past it; words are of 20 bits there,
enough for every length and narrow enough to overflow, and `max_persistence_bytes` is chosen so
that a full state is just at the bound. `MaxPlacementId`, `MaxTime` and `MaxChanges` bound the
model; two changes let one record fall silent after another changed, and the properties of
`analyses` compare at most two states.

Identities, and likewise workers and connections, are interchangeable in the runs that
declare symmetry; only safety properties are checked there. The five runs of
the observatory check for deadlock: some call, a fence at least, is always accepted; so
does `sessions`. The service may stop, and its runs do not check; neither do `durability`,
where a coordinator whose state file cannot be loaded stays down, `codec`, where a message
or a file has come to its end, and `analyses`, whose changes are counted.

Some properties are proved and are not part of a run: the type invariants, `ImplementsContract`
of `Observatory`, `Migrations`,
`Histories` and `Sessions`, `TerminalIsFinal`, `HistoriesFresh`.

**Fairness.** `CoordinatorService` and `Sessions` state some. In `Sessions` a process that
waits reads what has arrived or sees its connection closed, and the coordinator dispatches
what it has read (weak fairness of both; what the coordinator's threads need for that is the
subject of `CoordinatorService`). A peer that vanishes without closing is outside the model:
`exchange` has no timeout and would wait. In `CoordinatorService`, every thread that can take a step
eventually does (weak fairness per thread: the operating system runs every thread). A
thread that keeps finding `queue_mutex` free while it wants it eventually takes it
(strong fairness of the three acquisitions: the critical sections are a few instructions
long and no thread re-enters them at once). Nobody has to call `stop`, no client has to
send or disconnect, and no waiting worker is assumed to wake unless it is notified,
although it may.

**The violation run.** `stop_hangs` shows that a line of the documentation does not hold of
the code; the finding of `PROJECT.json` quotes it. A worker tests its predicate and is about
to block; `stop` sets the flag and calls `notify_all` without `queue_mutex`; the worker
blocks, nobody notifies again, the join never ends. With the notification made under the
mutex the property holds.

### Divergences

Other places where the model, read against the documentation, says something else.
The definitions model the code; no run is kept for these.

The store and the histories:

- Every save writes the same temporary file, outside any lock (`state_store.cpp:809`,
  `state_store.hpp:95-97`, `observatory.hpp:115`). One saver closes it and is about to
  rename; another opens it, which truncates it; the rename puts an empty or half-written
  file in the place of the state. With two `Savers`, TLC finds `StateFileWhole` violated.
- The map of superseded migrations holds one per workload (`observatory.cpp:1213`,
  `README.md:216-217`): a second supersession forgets the first, and the migration
  superseded first takes stage events again.
- An event `OutcomeUnknown` then `RevalidationRequired` leaves an outcome that `validate`
  refuses (`observatory.cpp:1313`, `migration.cpp:236`), so every later save of the whole
  state fails (`coordinator.hpp:64`). `StoredHistoryLegal` excepts this case.
- `publish_placement` and `publish_portability` compare the stamp the record came with and
  store another (`observatory.cpp:1100`): a publication sent again may be filed as history of
  itself, and an assessment sent with an unset stamp cannot refresh one that a restart
  made stale. Nothing checks that the record's time is not after that of its context: a record
  from the future would take over from a later one and be stored under an earlier time. Every
  publisher of the repository stamps its records before it sends them, and `Publication` of
  `Histories` assumes it (`made_at \in 0..at`); `LatestMovesForward` and
  `AssessmentsMoveForward` need it. Of two assessments with one time the sequence numbers
  decide (`observatory.cpp:1353`), though they may be of different publishers; no property
  speaks of that.
- Two placements of one workload can both be current, and a placement identifier published
  again for another workload leaves the first workload's latest pointing at it
  (`observatory.cpp:1107`).
- The bound on placements is tested before an update is told from a new record
  (`observatory.cpp:1095`): at the limit a stored placement can no longer change.
- `build_snapshot` takes the record that passes its byte budget and then stops
  (`observatory.cpp:1418`): a snapshot that holds everything may be marked as truncated. It
  also increments a statistic under the shared lock (`observatory.cpp:1381`).
- `evaluate_portability` answers from a snapshot that its budget cut short without telling
  (`observatory.cpp:2149`; `bounds.hpp:34-36`: "never silently truncated"). Of two placements
  of a workload that are both current the cut may take the later; the earlier one is then
  taken for the place the workload is at, and the verdict differs from that of the whole.
  `TruncationNeverMisleads` excepts this.
- `migration_analysis` takes two snapshots (`observatory.cpp:2287`); a publication between
  them makes its parts disagree.

The encodings:

- `records_codec.cpp` says its collections are written sorted; several keep the order of
  the caller.
- What `validate` allows and what a decoder allows differ: the architectures of an artifact
  (unbounded against 64), texts above 4096 bytes, drift entries (65536 against 4096).
- An unsigned capability value above the largest signed one is written as the largest.
- The check sum of a frame covers its payload and not its header (`protocol.cpp:294-298`).
  A frame whose flags or request identifier were altered is taken, and one whose type became
  another known one is read as that: if it became a `Shutdown`, a heartbeat or a query of
  health or bounds, whatever the payload. `AcceptedPayloadWasSent` excepts these three fields. A client
  notices an altered identifier (`client.cpp:58`) and most types, the coordinator neither; nobody
  looks at the flags of a frame that came over a connection (`handle_frame`, which does, is
  not on that path).
- Only a `Hello` is refused for trailing bytes; after a frame that is too long the reader keeps
  what it buffered (`protocol.cpp:327`), so only closing the connection recovers.

The analyses:

- A capability nobody published fails `Present` and satisfies `Absent`
  (`README.md:119-120`: "absent evidence is never treated as evidence of absence");
  `EvidenceLossOnlyUndecides` excepts these two comparators.
- What a runtime publishes overrules the cluster and the catalogue (`analysis.cpp:23-26`),
  so a cluster that loses its runtime is judged by what was overruled, and an answer may turn
  from one verdict to the opposite; `EvidenceLossOnlyUndecides` excepts this too. Likewise a
  cluster that drops a key with which it overruled the catalogue is judged by the catalogue.
  That loss is not among the steps the property speaks of: `Silence` takes a key from the
  runtimes, the clusters and the catalogue at once.
- A dimension of portability may conclude from evidence that is not current:
  `technically_blocked` can be set for a stale destination, whose overall outcome is `Unknown`.
  `ConclusionsNeedCurrentEvidence` reads the overall verdicts.
- Versions are compared component by component, so `1.2` is below `1.2.0`; a number that is
  not a number equals every other.
- `merge_capabilities` ignores a refusal at the set's limit (`analysis.cpp:30-45`): what the
  catalogue says then hides what the cluster and the runtime publish.
- A workload is assessed against its first acceptable accelerator class, whether or not the
  cluster has it. Two unpublished runtime ABIs are portable, an unpublished compiler target
  is `NotPortableArchitecture`, and an unknown readiness counts as usable in `evaluate_pool`.
- `evaluate_pool` does not test the driver's ABI, the compute capability, isolation, the
  acceptable classes or a missing site policy (`capacity.hpp:161`).
- Fragmentation does not group by the required kind of domain, and a cluster without a
  domain shares the names of registered domains.
- A policy block is folded into the overall outcome of portability as well
  (`portability.cpp:688`), where the README says it is kept apart; `PolicyKeptApart` states
  what is.

Authority, clusters and the service:

- Fencing an identity that was never seen inserts it whatever the size of the table
  (`observatory.cpp:499`, `bounds.hpp:34-36`); past `max_publishers` every later save is
  refused by `DurableState::validate`. `AuthorisedWithinBound` states what is bounded.
- A fence visits clusters, federations, sites and domains (`observatory.cpp:511`): records
  of the other seven kinds stay current, where the comment above says "every record".
  `FencedStructureNotCurrent` states what the fence does reach.
- `stop` joins the connection threads before the accept thread (`coordinator.cpp:1068`),
  which may still create one: it is never joined, and goes on once the flag is reset
  (`coordinator.hpp:63-64` says that `stop` joins every thread).
- `stop` reports success when its save failed, which is only logged, and when no `state_path`
  is configured (`coordinator.cpp:1071-1076`; `coordinator.hpp:63-64`: "persist state when
  configured"): what was applied and acknowledged is then lost with the process.
  `StopSavesEverything` speaks of a save that succeeded.
- `max_persistence_bytes` is compared with the body when saving (`state_store.cpp:536`)
  and with header and body when loading (826): a state within 48 bytes of the bound is
  saved, reported as saved, and refused at the next start. `SavedIsLoadable` excepts these
  48 bytes.
- The epoch advances from the one in the state file (`observatory.cpp:1789`), which only a
  save writes: a coordinator that crashes before it saves starts again in the same epoch,
  where `README.md:298` says "On restart the coordinator epoch advances".
  `SavedEpochNotReused` states what holds.
- Nothing is done to the table when a connection ends, so the identity of a dead publisher
  keeps its authority until it is fenced (`coordinator.cpp:966-972`, `README.md:271`).
- After an error of the socket that is not a closed connection the client stays connected
  (`client.cpp:49-54`), and from then on each exchange reads the reply of the one before
  and fails, although the publication may have been accepted.
- A first registration stores the epoch it carries without comparing it with the
  coordinator's (`observatory.cpp:458`); `README.md:273` says a frame with an older
  epoch is refused.
- A first registration under a number above 1 leaves the gap counter at zero, and a
  restart resets it (`observatory.cpp:475`); `README.md:277` says gaps are counted, never
  hidden. `GapsCountEveryHole` states what the counter does count.
- A repeated registration may move an identity into a federation that is at its bound
  (`observatory.cpp:435`, `bounds.hpp:34-36`).
- The gate does not ask whether an identity is live (`observatory.cpp:251`), so one
  restored from disk publishes `Current` evidence without registering;
  `model.hpp:26` says "published by a live publisher".
- `publish_capability`, `publish_capacity` and `retire_cluster` accept again the number
  of an earlier publication for other content (`observatory.cpp:801`, `README.md:275`).
  `StructuralStampsUnique` states the rule where the code enforces it.
- `publish_capability` advances the generation of a cluster and keeps the pools of the
  previous one (`observatory.cpp:861`); the comment at 734-736 says these are not
  evidence about the new one.
- A retirement that names the stored generation does not bump it
  (`observatory.cpp:776`, `observatory.hpp:167-168`).
- A capacity publication that leaves its pools' generation unset is a conflict, not a
  duplicate, when it is sent again (`observatory.cpp:1008`, `README.md:276`).
- A migration published with its history may hold the commit twice
  (`migration.cpp:209`, `README.md:216`).

## 4. What is proved

Every safety property of the runs of the observatory's records, of the sessions, of the
service and of the life of the state file, and all of the analyses but one, is also a
theorem. The theorems hold for every value of the
constants that the named assumptions of the modules allow (`GateAssumption`,
`SessionsAssumption`, `ServiceAssumption`, `RecordsAssumption` and so on: bounds are
naturals, a marker for nothing is not one of the things it marks, stored records are ones
that `validate` accepts); no theorem depends on how many identities, records, threads or
frames there are. Where a property is not inductive, the invariant that makes it so is
defined at the head of the proof module, or next to its lemma, and was checked by TLC on the
constants of the runs before it was proved.

`GateProofs` proves, of each operation on the table, that it keeps the type invariant and is
a step or a stutter of `AuthorityContract` (`RegisterAccepts`, `FinishAccepts`,
`FenceFences`, `InvalidateStutters`, `RestoreAdvances`), and that no operation forgets an
identity, lowers a watermark or lifts a fence (`TableGrows`). The heart is `OneEntryView`:
when one entry of the table changed, the contract's function changed at one point. The other
modules cite these lemmas, so that each proves only what its own state adds. It also has
`LeastElement`, on which the arguments by a least counterexample rest: the provers cannot
use the library's induction theorems, but every non-empty set of naturals has a least
element by the well-foundedness of the naturals.

`AuthorityProofs`

- `TypeCorrect`, `AuthorityImplementsContract`: from the lemmas of `GateProofs`.
- `WatermarkExact`: inductive together with `TypeOK`. The gate refuses numbers below the
  watermark, so each accepted number is the new watermark; a restart keeps both sides.
- `GapsAlwaysExact` (`GapsCountEveryHole`): the counter equals the number of holes, which is
  inductive once gaps are known to be counted from no further than the watermark
  (`HolesInv`). `HoleAdded` is the step: nothing accepted lies above the watermark, so a new
  number is a hole exactly when it skips, and it is the predecessor of none.
- `AuthorityBounded` (`AuthorisedWithinBound`): a registration tests the size of the whole
  table, a fence only takes away from what is counted.

`ObservatoryProofs`. Each of the publications is reduced once (`PublicationWrites`) to one
of three forms, nothing stored, one record stored (`RecordWritten`), one cluster stored
(`ClusterWritten`), and every other step to `RegistryKept`; the invariants are proved from
the forms, not from the actions. `StampsCovered` rests on `TableGrows`; `FencedNotCurrent`
and `CurrentIsThisEpoch` on what the gate lets through; `StampsUnique` needs `StampsCovered`:
a publication that is no duplicate has a number above the watermark, and no stored stamp
lies there. `AlwaysSavable` adds that the maps are finite, which the counts need. The action
properties `GenerationsAdvance` and `RetiredStaysRetired` and `RegistryImplementsContract`
follow from the same forms.

`HistoriesProofs`. Type correctness, the contract, `AlwaysFresh`, and the three action
properties. `LatestOnlyForward` is the interesting one: while it runs the code compares a
publication with the latest placement, and after a restart it looks for the latest of the
workload among all; that one exists (`LastOfWorkload`, by `GreatestElement` of its times and
then of its identifiers), and the remembered one is among those it is chosen from.

Migrations are a state machine of their own behind the same gate, and their proofs the second
half of the module. A publication that stores anything writes one record (`Written`), every
other step keeps them (`Kept`). `AlwaysLegal` is inductive record by
record (`LegalRecord`). `NeverBackwards` takes a least counterexample: in a legal history the
first stage after position `n` whose progress is below that of `n` would follow one whose
progress is not, and no legal move goes back; `Progress` extends the rank to the stages that
have none, so that an unknown outcome in between hides nothing. `TerminalFinal` and `FreshlyStamped`
follow from the forms, and `MigrationsImplementContract` from `GateProofs`.

`SessionsProofs`. `IInv` relates, identity by identity, the process, its connection in both
directions, the table and the two histories. The numbers on their way ascend from beyond the
watermark to the last one taken (`RequestsInv`), which is why none is accepted twice or
overtaken; a reply that carries the awaited `request_id` was made for the frame of the call
that waits, and tells the truth about it (`RepliesInv`), while the late ones have smaller
identifiers. From it `AcceptedAlwaysInOrder`, `SuccessAlwaysAccepted` and
`WatermarkAlwaysBetween`. `SessionsImplementContract` follows from it too: a dispatched
frame is an operation of the gate, and every other step leaves the table alone.
The steps are grouped by what they do to a connection: `EndOfCall`
covers every step that takes frames or replies from it, `ExchangeKeeps` the one that
sends, `Dispatched` the coordinator's.

`CoordinatorServiceProofs`. `IInv` says where each frame is: queued once or with one worker
exactly while its connection awaits it (`OwnedInv`), applied and answered according to that
place (`FrameInv`), and what is over at each point of `stop` (`StopInv`: from the drain on
the queue stays empty, since the flag is set; from the join on no worker takes a step). From
it `EveryItemOwnedOnce`, `AnswersAlwaysTrue` and `StopLosesNothing` (when the save of `stop`
succeeded: by then no worker is left to apply anything, nor is there one later).

`DurabilityProofs`. The theorems have the hypothesis `[]OneAtATime`: no thread is inside
`save_state` while another is. It is needed: saves share one temporary file, and with two at
once `StateFileWhole` fails (see Divergences). Of the coordinator only `stop` saves, so the
hypothesis is met unless an embedder calls `save_state` beside it or from two threads.
Under it, for any number of threads: `DirectoryInv` (the state file holds what the last
success wrote, and is not the temporary one), `SaverInv` (how much of its image a save has
written at each step), `ImageInv` and `MemoryInv` (a save carries, and a running observatory
knows, at least what the file does) and `SpentInv` (epochs of runs that saved lie behind)
give `StateFileAlwaysWhole`, `SavedAlwaysSurvives`, `EpochNeverReused` and
`FileOnlyForward`, with a crash, a failure or a start between any two steps.

`AnalysesProofs`. From `RecordsAssumption` (the first records and every publication are
well formed, and there are finitely many records) the type invariant follows, and from it,
for any number of clusters, classes, runtimes, workloads, requirements and pools:

- `NoConclusionFromStaleEvidence`: the freshness check comes first in `assess_compatibility`
  and the weakest verdict wins (`Weakest`); in `assess_portability` the operational dimension
  is `Unknown` and nothing outweighs it; `findings` passes over the cluster.
- `AnalysesAgree`: a compatible verdict means that every check found no hard failure, and
  each technical judgement of `evaluate_pool` is matched with the check that reads the same
  field (`ArtifactFits`, `WorkloadFits`), the runtime of both being the same (`SameRuntime`).
- `PolicyNeverTechnical`: records that differ in their policies only (`SameButPolicy`) give
  the same inputs but for the policy, and what a policy adds to a judgement is never
  technical. Findings are matched pool by pool.
- `TruncationHarmless`: a snapshot that holds one record holds every record that
  `build_snapshot` takes before it, hence all the maps before its kind. One that knows the
  workload therefore has the whole of what an assessment looks up but for the placements, and
  the first workload of the class.
- `IdleCapacityIsPartitioned`: each finding counts in exactly one way (`FindingCounts`), and
  sums keep that. The community module's `SumFunction` is a fold that picks elements in an
  unspecified order, so the section "Sums over finite sets" proves first that the recursion
  defines one function, that the order does not matter, that sums add up, and that sums by a
  key (the primary reason, the placement domain) add up to the whole. Each is by a least
  counterexample among the subsets of a finite set, which are well-founded under strict
  inclusion.

A definition of the form `[f EXCEPT ![k].a = Op(@)]` is restated in the proofs with the
record written out, which is what the provers reason about.

Only model-checked: liveness (`EveryItemAnswered`, `ExchangeEnds`, `StopCompletes`), which is
out of the prover's reach. The properties of `codec` (`RoundTrip`, `LoadedIsAdmissible`,
`AcceptedPayloadWasSent`, `RestoredIsSaved`, `SavedIsLoadable`): encoder and decoder follow a list
of fields by recursive operators, in whose presence the SMT backend is lost, and the claim
would need an induction over the structure of the types. `EvidenceLossOnlyUndecides`, which
does not hold for every constant: at the limit of the capability set (`CapabilityLimit`) a key
that is no longer said makes room for another that was refused (see Divergences), and the
run keeps below it.

## 5. What is left out

A crash of the machine: the code flushes the temporary file but does not sync it, so what
a power failure leaves depends on the file system. Statistics and diagnostic counters,
evidence notes, precision and evidence class, the wording of replies, rendering. Placement
attribution, mismatch, drift and migration analysis, and a snapshot's freshness census: pure
functions like the ones modelled, over more of the same fields. Set-up of sockets and parsing
of addresses. Hardware probing, process control, synthetic federations, the command line:
input, output and test data. More than one accept thread. Overflow of 64-bit counters.

## 6. Status

Modelled, with the safety properties proved: the authority core, the registry and clusters,
migrations, placements and portability, publisher sessions, the coordinator's threads, the
life of the state file, snapshots and the four main analyses. Modelled and model-checked: the
contents of the state file and the wire protocol. What would come next, in the order in
which it matters:

1. **The other analyses**: placement attribution, drift, mismatch, `analyze_migration`, which
   read the same snapshots.
2. **Proofs**: `EvidenceLossOnlyUndecides` under the hypothesis that no capability set reaches
   its limit.
