-------------------------------- MODULE Gate --------------------------------
(***************************************************************************)
(* The publisher table of the observatory and the authority gate through   *)
(* which every publication passes (observatory.cpp, Impl::check_authority, *)
(* Impl::finish, register_publisher, fence_publisher and the parts of      *)
(* restore and invalidation that touch the table).                         *)
(*                                                                         *)
(* The observatory runs each operation under one exclusive lock, so an     *)
(* operation is one atomic step.  A refusal leaves the table as it was     *)
(* (only diagnostic counters move), so an operation's action is enabled    *)
(* exactly when the code does not refuse: the early returns are its guard. *)
(*                                                                         *)
(* The modules that own the rest of the state (Authority, Observatory,     *)
(* Migrations) extend this one and conjoin these operators in their        *)
(* actions.                                                                *)
(***************************************************************************)
EXTENDS Naturals, FiniteSets

CONSTANTS
  Keys,                       \* publisher boot identities: (PublisherId, BootGeneration)
  Federations,                \* federation identifiers
  NoFederation,               \* the empty federation identifier
  MaxPublishers,              \* bounds.max_publishers
  MaxPublishersPerFederation, \* bounds.max_publishers_per_federation
  MaxSequence,                \* bound of the model: largest sequence number sent
  MaxEpoch                    \* bound of the model: largest coordinator epoch

ASSUME GateAssumption ==
  /\ NoFederation \notin Federations
  /\ MaxPublishers \in Nat
  /\ MaxPublishersPerFederation \in Nat
  /\ MaxSequence \in Nat
  /\ MaxEpoch \in Nat \ {0}

VARIABLES
  publishers,          \* map PublisherKey -> PublisherAuthority, a partial function
  coordinator_epoch    \* coordinator_epoch_

gateVars == <<publishers, coordinator_epoch>>

Sequence == 0..MaxSequence
Epoch == 1..MaxEpoch

PublisherAuthority ==
  [epoch: 0..MaxEpoch, federation: Federations \cup {NoFederation},
   watermark: Sequence, live: BOOLEAN, fenced: BOOLEAN]

(* What a publication is bound to.  Epoch 0 and sequence 0 are the unset    *)
(* values a malformed frame may carry.                                      *)
PublicationContext ==
  [key: Keys, epoch: 0..MaxEpoch, federation: Federations, sequence: Sequence]

GateTypeOK ==
  /\ DOMAIN publishers \subseteq Keys
  /\ publishers \in [DOMAIN publishers -> PublisherAuthority]
  /\ coordinator_epoch \in Epoch

GateInit ==
  /\ publishers = [k \in {} |-> [epoch |-> 0]]
  /\ coordinator_epoch = 1

-----------------------------------------------------------------------------
ValidContext(ctx) == ctx.epoch # 0 /\ ctx.sequence # 0

Known(k) == k \in DOMAIN publishers

(* Mutant of check_authority: a fenced identity is let through.             *)
check_authority_forgets_fence(ctx) ==
  /\ ValidContext(ctx)
  /\ Known(ctx.key)
  /\ ctx.epoch = coordinator_epoch
  /\ ctx.sequence >= publishers[ctx.key].watermark

(* The gate: what must hold of a context for a publication to go on.        *)
check_authority(ctx) ==
  /\ ValidContext(ctx)
  /\ Known(ctx.key)
  /\ ~publishers[ctx.key].fenced
  /\ ctx.epoch = coordinator_epoch
  /\ ctx.sequence >= publishers[ctx.key].watermark

(* Mutant of duplicate_sequence: a number used again is not recognised.     *)
duplicate_sequence_missed(ctx) == FALSE

duplicate_sequence(ctx) ==
  /\ ctx.sequence = publishers[ctx.key].watermark
  /\ publishers[ctx.key].watermark # 0

Raise(watermark, sequence) == IF sequence > watermark THEN sequence ELSE watermark

(* Mutant of finish: the watermark is left behind.                          *)
finish_without_watermark(ctx) == publishers' = publishers

(* Every accepted publication, applied, duplicate or superseded, ends here. *)
finish(ctx) ==
  publishers' =
    [publishers EXCEPT ![ctx.key].watermark = Raise(@, ctx.sequence)]

-----------------------------------------------------------------------------
(* register_publisher of a boot identity already in the table.              *)
ReRegister(ctx) ==
  /\ ValidContext(ctx)
  /\ Known(ctx.key)
  /\ ~publishers[ctx.key].fenced
  /\ ctx.epoch = coordinator_epoch
  /\ ctx.sequence >= publishers[ctx.key].watermark
  /\ publishers' =
       [publishers EXCEPT
          ![ctx.key].live = TRUE,
          ![ctx.key].epoch = ctx.epoch,
          ![ctx.key].federation = ctx.federation,
          ![ctx.key].watermark = Raise(@, ctx.sequence)]
  /\ UNCHANGED coordinator_epoch

InFederation(f) == {k \in DOMAIN publishers : publishers[k].federation = f}

Insert(f, k, v) == [x \in DOMAIN f \cup {k} |-> IF x = k THEN v ELSE f[x]]

(* Mutant of RegisterNew: only the identities of the federation are counted.*)
RegisterNewInFederation(ctx) ==
  /\ ValidContext(ctx)
  /\ ~Known(ctx.key)
  /\ Cardinality(InFederation(ctx.federation)) < MaxPublishersPerFederation
  /\ publishers' =
       Insert(publishers, ctx.key,
              [epoch |-> ctx.epoch, federation |-> ctx.federation,
               watermark |-> ctx.sequence, live |-> TRUE, fenced |-> FALSE])
  /\ UNCHANGED coordinator_epoch

(* register_publisher of a new boot identity.  The context's epoch is       *)
(* stored, not compared with the coordinator's.                             *)
RegisterNew(ctx) ==
  /\ ValidContext(ctx)
  /\ ~Known(ctx.key)
  /\ Cardinality(DOMAIN publishers) < MaxPublishers
  /\ Cardinality(InFederation(ctx.federation)) < MaxPublishersPerFederation
  /\ publishers' =
       Insert(publishers, ctx.key,
              [epoch |-> ctx.epoch, federation |-> ctx.federation,
               watermark |-> ctx.sequence, live |-> TRUE, fenced |-> FALSE])
  /\ UNCHANGED coordinator_epoch

register_publisher(ctx) == ReRegister(ctx) \/ RegisterNew(ctx)

(* Fencing a known identity.  Fencing one that was never seen records it,   *)
(* without consulting max_publishers.                                       *)
FenceKnown(k) ==
  /\ Known(k)
  /\ publishers' = [publishers EXCEPT ![k].fenced = TRUE, ![k].live = FALSE]
  /\ UNCHANGED coordinator_epoch

FenceUnknown(k) ==
  /\ ~Known(k)
  /\ publishers' =
       Insert(publishers, k,
              [epoch |-> coordinator_epoch, federation |-> NoFederation,
               watermark |-> 0, live |-> FALSE, fenced |-> TRUE])
  /\ UNCHANGED coordinator_epoch

publisher_is_live(k) == Known(k) /\ publishers[k].live /\ ~publishers[k].fenced

(* invalidate_dynamic_evidence on the table: nobody is live any more.       *)
InvalidateAuthority ==
  /\ publishers' =
       [k \in DOMAIN publishers |->
          IF publishers[k].fenced THEN publishers[k]
          ELSE [publishers[k] EXCEPT !.live = FALSE]]
  /\ UNCHANGED coordinator_epoch

(* Mutant of RestoreAuthority: the watermarks are not saved.                *)
RestoreWithoutWatermarks ==
  /\ coordinator_epoch < MaxEpoch
  /\ coordinator_epoch' = coordinator_epoch + 1
  /\ publishers' = [k \in DOMAIN publishers |->
       [publishers[k] EXCEPT !.live = FALSE, !.watermark = 0]]

(* capture_durable_state, DurableState::validate and apply_durable_state on *)
(* the table: watermarks and fences survive, liveness and the federation do *)
(* not, and the epoch advances once.  The state is refused, and nothing is  *)
(* restored, when the table exceeds max_publishers.                         *)
RestoreAuthority ==
  /\ Cardinality(DOMAIN publishers) <= MaxPublishers
  /\ coordinator_epoch < MaxEpoch
  /\ coordinator_epoch' = coordinator_epoch + 1
  /\ publishers' =
       [k \in DOMAIN publishers |->
          [epoch |-> coordinator_epoch, federation |-> NoFederation,
           watermark |-> publishers[k].watermark,
           live |-> FALSE, fenced |-> publishers[k].fenced]]

-----------------------------------------------------------------------------
Watermark(k) == IF Known(k) THEN publishers[k].watermark ELSE 0
FencedKeys == {k \in DOMAIN publishers : publishers[k].fenced}

(* The table seen as the contract it keeps.                                 *)
Contract == INSTANCE AuthorityContract WITH
  epoch     <- coordinator_epoch,
  fenced    <- FencedKeys,
  watermark <- [k \in Keys |-> Watermark(k)]
=============================================================================
