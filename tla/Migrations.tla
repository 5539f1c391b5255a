----------------------------- MODULE Migrations -----------------------------
(***************************************************************************)
(* The migration history of the observatory: publish_migration,            *)
(* publish_migration_stage (observatory.cpp) and the stage machine and     *)
(* record validation they rest on (migration.cpp), behind the gate.        *)
(*                                                                         *)
(* The federation, workloads and clusters a migration names are taken as   *)
(* registered, and the federation generation it states, if any, as the     *)
(* stored one (check_federation is a conjunct of Observatory's actions).   *)
(* latest_migration is written and never read, and is left out.            *)
(***************************************************************************)
EXTENDS Gate, MigrationStages, Sequences

CONSTANTS
  MigrationIds,            \* migration identifiers
  MigratedWorkloads,       \* the registered workloads
  NoMigration,             \* the empty identifier: supersedes nothing
  MigrationRecords,        \* the records publishers send
  MaxMigrations,           \* bounds.max_migration_history
  MaxStageEvents,          \* kMaxStageEventsPerMigration
  MaxMigrationGeneration   \* bound of the model: largest migration generation

MigrationGeneration == 0..MaxMigrationGeneration

StageEvent == [generation: MigrationGeneration, stage: Stage, sequence: Sequence]
MigrationRecord ==
  [generation: MigrationGeneration, workload: MigratedWorkloads,
   supersedes: MigrationIds \cup {NoMigration}, stage: Stage, outcome: Outcome,
   revalidation_pending: BOOLEAN, events: Seq(StageEvent)]

ASSUME MigrationsAssumption ==
  /\ NoMigration \notin MigrationIds
  /\ MigrationRecords \subseteq MigrationRecord
  /\ MaxMigrations \in Nat
  /\ MaxStageEvents \in Nat
  /\ MaxMigrationGeneration \in Nat

(* The stage history a valid record carries: set generations not newer than *)
(* the record's, growing sequence numbers, legal moves, ending at the stage.*)
HistoryOK(rec) ==
  /\ Len(rec.events) <= MaxStageEvents
  /\ \A n \in 1..Len(rec.events) :
       rec.events[n].generation \in 1..rec.generation
  /\ \A n \in 2..Len(rec.events) :
       /\ rec.events[n].sequence > rec.events[n - 1].sequence
       /\ is_acceptable_migration_event(rec.events[n - 1].stage, rec.events[n].stage)
  /\ rec.events # <<>> => rec.events[Len(rec.events)].stage = rec.stage

validate(id, rec) ==
  /\ rec.generation # 0
  /\ HistoryOK(rec)
  /\ rec.outcome = OutcomeOf(rec.stage)
  /\ rec.supersedes # id

-----------------------------------------------------------------------------
VARIABLES
  migrations,             \* partial map MigrationId -> stored record
  superseded_migrations   \* partial map WorkloadId -> the migration superseded

migration_vars == <<publishers, coordinator_epoch, migrations, superseded_migrations>>

StoredMigration ==
  [pub: MigrationRecord, currentness: {"Current", "Stale"},
   stamp: [key: Keys, epoch: Epoch, sequence: Sequence]]

MigrationTypeOK ==
  /\ GateTypeOK
  /\ DOMAIN migrations \subseteq MigrationIds
  /\ migrations \in [DOMAIN migrations -> StoredMigration]
  /\ DOMAIN superseded_migrations \subseteq MigratedWorkloads
  /\ superseded_migrations \in [DOMAIN superseded_migrations -> MigrationIds]

MigrationInit ==
  /\ GateInit
  /\ migrations = [m \in {} |-> NoMigration]
  /\ superseded_migrations = [w \in {} |-> NoMigration]

Stamped(ctx, pub) ==
  [pub |-> pub, currentness |-> "Current",
   stamp |-> [key |-> ctx.key, epoch |-> ctx.epoch, sequence |-> ctx.sequence]]

(* A duplicate, or a record older than the stored one.                      *)
SuppressMigration(ctx) ==
  /\ finish(ctx)
  /\ UNCHANGED <<coordinator_epoch, migrations, superseded_migrations>>

publish_identical(ctx, id, rec) ==
  /\ check_authority(ctx)
  /\ validate(id, rec)
  /\ id \in DOMAIN migrations
  /\ \/ migrations[id].pub = rec
     \/ /\ ~duplicate_sequence(ctx)
        /\ migrations[id].pub.generation > rec.generation
  /\ SuppressMigration(ctx)

(* Storing a new record or a newer generation of a stored one.  The history *)
(* bound is consulted even when the record replaces one.                    *)
publish_migration(ctx, id, rec) ==
  /\ check_authority(ctx)
  /\ validate(id, rec)
  /\ ~duplicate_sequence(ctx)
  /\ id \in DOMAIN migrations => rec.generation > migrations[id].pub.generation
  /\ Cardinality(DOMAIN migrations) < MaxMigrations
  /\ LET stored == Insert(migrations, id, Stamped(ctx, rec))
         old == rec.supersedes
     IN  /\ migrations' = IF old \in DOMAIN stored
                          THEN [stored EXCEPT ![old].currentness = "Stale"]
                          ELSE stored
         /\ superseded_migrations' =
              IF old # NoMigration
              THEN Insert(superseded_migrations, rec.workload, old)
              ELSE superseded_migrations
  /\ finish(ctx)
  /\ UNCHANGED coordinator_epoch

-----------------------------------------------------------------------------
IsSuperseded(id) ==
  LET w == migrations[id].pub.workload
  IN  w \in DOMAIN superseded_migrations /\ superseded_migrations[w] = id

(* Mutant of StageAdmitted: a late stage event is not recognised.           *)
StageAdmittedLate(ctx, id, g, stage) ==
  /\ check_authority(ctx)
  /\ id \in DOMAIN migrations
  /\ g # 0 /\ g = migrations[id].pub.generation
  /\ ~IsSuperseded(id)
  /\ is_acceptable_migration_event(migrations[id].pub.stage, stage)

(* What a stage event for id under generation g must pass.                  *)
StageAdmitted(ctx, id, g, stage) ==
  /\ check_authority(ctx)
  /\ id \in DOMAIN migrations
  /\ g # 0 /\ g = migrations[id].pub.generation
  /\ ~IsSuperseded(id)
  /\ LET events == migrations[id].pub.events
     IN  events # <<>> => ctx.sequence > events[Len(events)].sequence
  /\ is_acceptable_migration_event(migrations[id].pub.stage, stage)

(* The outcome a stage event leaves.  RevalidationRequired only marks the   *)
(* record as pending.                                                       *)
OutcomeAfter(pub, stage) ==
  IF stage = "RevalidationRequired" THEN pub.outcome ELSE OutcomeOf(stage)

WithEvent(pub, g, stage, sequence) ==
  [pub EXCEPT
     !.events = Append(@, [generation |-> g, stage |-> stage, sequence |-> sequence]),
     !.stage = stage,
     !.outcome = OutcomeAfter(pub, stage),
     !.revalidation_pending = @ \/ stage = "RevalidationRequired"]

publish_migration_stage(ctx, id, g, stage) ==
  /\ StageAdmitted(ctx, id, g, stage)
  /\ migrations[id].pub.stage \notin Terminal
  /\ Len(migrations[id].pub.events) < MaxStageEvents
  /\ migrations' = [migrations EXCEPT ![id] =
       Stamped(ctx, WithEvent(migrations[id].pub, g, stage, ctx.sequence))]
  /\ finish(ctx)
  /\ UNCHANGED <<coordinator_epoch, superseded_migrations>>

(* A terminal stage published again: acknowledged, not recorded.            *)
repeat_terminal_stage(ctx, id, g, stage) ==
  /\ StageAdmitted(ctx, id, g, stage)
  /\ migrations[id].pub.stage \in Terminal
  /\ SuppressMigration(ctx)

-----------------------------------------------------------------------------
register_beside_migrations(ctx) ==
  /\ register_publisher(ctx)
  /\ UNCHANGED <<migrations, superseded_migrations>>

fence_beside_migrations(k) ==
  /\ FenceKnown(k) \/ FenceUnknown(k)
  /\ UNCHANGED <<migrations, superseded_migrations>>

(* Mutant of MigrationRestart: the restored migrations are still current.   *)
MigrationRestartKeepsCurrent ==
  /\ RestoreAuthority
  /\ UNCHANGED <<migrations, superseded_migrations>>

(* A clean stop and start.  The save is refused when a record is not valid. *)
(* The superseded migration of a workload is rebuilt from the stored        *)
(* records: the last one, in the order of the times the publishers gave.    *)
MigrationRestart ==
  /\ RestoreAuthority
  /\ \A id \in DOMAIN migrations : validate(id, migrations[id].pub)
  /\ migrations' = [id \in DOMAIN migrations |->
                      [migrations[id] EXCEPT !.currentness = "Stale"]]
  /\ LET Successor(w) == {id \in DOMAIN migrations :
                            /\ migrations[id].pub.workload = w
                            /\ migrations[id].pub.supersedes # NoMigration}
         rebuilt == {w \in MigratedWorkloads : Successor(w) # {}}
     IN  \E last \in [rebuilt -> DOMAIN migrations] :
           /\ \A w \in rebuilt : last[w] \in Successor(w)
           /\ superseded_migrations' =
                [w \in rebuilt |-> migrations[last[w]].pub.supersedes]

(* A publication, tried only when the gate lets its context through.        *)
MigrationPublication(ctx) ==
  /\ check_authority(ctx)
  /\ \E id \in MigrationIds :
       \/ \E rec \in MigrationRecords :
            publish_identical(ctx, id, rec) \/ publish_migration(ctx, id, rec)
       \/ \E g \in MigrationGeneration, stage \in Stage :
            \/ publish_migration_stage(ctx, id, g, stage)
            \/ repeat_terminal_stage(ctx, id, g, stage)

MigrationNext ==
  \/ \E ctx \in PublicationContext : register_beside_migrations(ctx) \/ MigrationPublication(ctx)
  \/ \E k \in Keys : fence_beside_migrations(k)
  \/ MigrationRestart

MigrationSpec == MigrationInit /\ [][MigrationNext]_migration_vars

-----------------------------------------------------------------------------
(* README.md:271-275, for the publications of migrations.                   *)
MigrationsKeepContract == Contract!Spec

(* migration.cpp:164-244: whatever is published and in whatever order stage *)
(* events arrive, the stored history is one validate accepts - growing      *)
(* numbers, legal moves, ending at the recorded stage - and so is the       *)
(* record, on which the next save of the whole state depends.  The one      *)
(* record that is not is a known outcome of RevalidationRequired after an   *)
(* unknown one.                                                             *)
StoredHistoryLegal ==
  \A id \in DOMAIN migrations :
    LET rec == migrations[id].pub
    IN  /\ HistoryOK(rec)
        /\ \/ validate(id, rec)
           \/ rec.stage = "RevalidationRequired" /\ rec.outcome = "Unknown"

(* What a step leaves of a terminal record that keeps its generation.       *)
TerminalKept ==
  \A id \in DOMAIN migrations :
    /\ migrations[id].pub.stage \in Terminal
    /\ migrations'[id].pub.generation = migrations[id].pub.generation
    => migrations'[id].pub = migrations[id].pub

(* README.md:216: "a committed migration is recorded once": once a record   *)
(* is terminal, no stage event, replay or restart changes what it says;     *)
(* only a newer generation of the record does.                              *)
TerminalIsFinal == [][TerminalKept]_migration_vars

(* migration_stage_rank: progress never runs backwards within one history,  *)
(* through an unknown outcome too.                                          *)
ProgressNeverBackwards ==
  \A id \in DOMAIN migrations :
    LET events == migrations[id].pub.events
    IN  \A n, m \in 1..Len(events) :
          /\ n < m
          /\ events[n].stage \in Ranked
          /\ events[m].stage \in Ranked
          => migration_stage_rank(events[n].stage) <= migration_stage_rank(events[m].stage)

(* After a restart no migration is current until this incarnation heard     *)
(* about it, from an identity whose watermark covers what it said.          *)
CurrentIsFreshlyStamped ==
  \A id \in DOMAIN migrations :
    LET stamp == migrations[id].stamp
    IN  /\ stamp.sequence <= Watermark(stamp.key)
        /\ migrations[id].currentness = "Current" => stamp.epoch = coordinator_epoch
=============================================================================
