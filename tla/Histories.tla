----------------------------- MODULE Histories ------------------------------
(***************************************************************************)
(* The placement and portability histories of the observatory:             *)
(* publish_placement, publish_portability, the restart that restores them  *)
(* and explain_latest_placement (observatory.cpp), behind the gate.        *)
(*                                                                         *)
(* A publication has two times: the one its record is stamped with when it *)
(* is made and the one its context has when it is sent.  The observatory   *)
(* compares with the first and stores the second.                          *)
(*                                                                         *)
(* The federation, workloads and clusters a record names are taken as      *)
(* registered and its other fields as valid; the evidence notes are left   *)
(* out.                                                                    *)
(***************************************************************************)
EXTENDS Gate

CONSTANTS
  MaxPlacementId,     \* placement identifiers are 1..MaxPlacementId, in their order
  Workloads,          \* the registered workloads
  Contents,           \* what a record says beyond the fields below
  MaxPlacements,      \* bounds.max_placement_history
  MaxPortability,     \* bounds.max_portability_records
  MaxGeneration,      \* bound of the model: largest placement generation
  MaxTime             \* bound of the model: largest time

ASSUME HistoriesAssumption ==
  /\ MaxPlacementId \in Nat /\ MaxPlacements \in Nat /\ MaxPortability \in Nat
  /\ MaxGeneration \in Nat /\ MaxTime \in Nat

PlacementIds == 1..MaxPlacementId
Generation == 1..MaxGeneration
Time == 1..MaxTime

VARIABLES
  placements,        \* partial map PlacementId -> stored record
  latest_placement,  \* partial map WorkloadId -> PlacementId
  portability        \* partial map WorkloadId -> stored assessment, for one destination

vars == <<publishers, coordinator_epoch, placements, latest_placement, portability>>

Stamp == [key: Keys, epoch: Epoch, sequence: Sequence, observed_at: Time]
Placement == [generation: Generation, workload: Workloads, content: Contents]
StoredPlacement == [pub: Placement, currentness: {"Current", "Stale"}, stamp: Stamp]
StoredPortability == [content: Contents, currentness: {"Current", "Stale"}, stamp: Stamp]

TypeOK ==
  /\ GateTypeOK
  /\ DOMAIN placements \subseteq PlacementIds
  /\ placements \in [DOMAIN placements -> StoredPlacement]
  /\ DOMAIN latest_placement \subseteq Workloads
  /\ latest_placement \in [DOMAIN latest_placement -> DOMAIN placements]
  /\ DOMAIN portability \subseteq Workloads
  /\ portability \in [DOMAIN portability -> StoredPortability]

Init ==
  /\ GateInit
  /\ placements = [p \in {} |-> p]
  /\ latest_placement = [w \in {} |-> w]
  /\ portability = [w \in {} |-> w]

stamp_for(ctx, at) ==
  [key |-> ctx.key, epoch |-> ctx.epoch, sequence |-> ctx.sequence, observed_at |-> at]

(* A duplicate, or a record older than the stored one.                      *)
Suppress(ctx) ==
  /\ finish(ctx)
  /\ UNCHANGED <<coordinator_epoch, placements, latest_placement, portability>>

-----------------------------------------------------------------------------
suppress_placement(ctx, id, rec) ==
  /\ check_authority(ctx)
  /\ id \in DOMAIN placements
  /\ \/ placements[id].pub = rec
     \/ /\ ~duplicate_sequence(ctx)
        /\ placements[id].pub.generation > rec.generation
  /\ Suppress(ctx)

(* Mutant of stored_is_newer: the latest placement gives way to any other.  *)
stored_is_newer_ignored(rec, made_at) == FALSE

(* The latest placement of the workload is newer than this one, made at     *)
(* made_at.                                                                 *)
stored_is_newer(rec, made_at) ==
  /\ rec.workload \in DOMAIN latest_placement
  /\ LET stored == placements[latest_placement[rec.workload]]
     IN  \/ stored.stamp.observed_at > made_at
         \/ /\ stored.stamp.observed_at = made_at
            /\ stored.pub.generation > rec.generation

(* Mutant of publish_placement: any generation of a placement replaces it.  *)
publish_any_generation(ctx, id, rec, made_at, at) ==
  LET old == stored_is_newer(rec, made_at) IN
  /\ check_authority(ctx)
  /\ ~duplicate_sequence(ctx)
  /\ Cardinality(DOMAIN placements) < MaxPlacements
  /\ placements' = Insert(placements, id,
       [pub |-> rec, currentness |-> IF old THEN "Stale" ELSE "Current",
        stamp |-> stamp_for(ctx, at)])
  /\ latest_placement' =
       IF old THEN latest_placement ELSE Insert(latest_placement, rec.workload, id)
  /\ finish(ctx)
  /\ UNCHANGED <<coordinator_epoch, portability>>

(* Storing a new placement or a newer generation of a stored one, as the    *)
(* latest or as history.  The bound is consulted even when a record is      *)
(* replaced.                                                                *)
publish_placement(ctx, id, rec, made_at, at) ==
  LET old == stored_is_newer(rec, made_at) IN
  /\ check_authority(ctx)
  /\ ~duplicate_sequence(ctx)
  /\ id \in DOMAIN placements => rec.generation > placements[id].pub.generation
  /\ Cardinality(DOMAIN placements) < MaxPlacements
  /\ placements' = Insert(placements, id,
       [pub |-> rec, currentness |-> IF old THEN "Stale" ELSE "Current",
        stamp |-> stamp_for(ctx, at)])
  /\ latest_placement' =
       IF old THEN latest_placement ELSE Insert(latest_placement, rec.workload, id)
  /\ finish(ctx)
  /\ UNCHANGED <<coordinator_epoch, portability>>

-----------------------------------------------------------------------------
(* An assessment is identified by its workload and destination.  Its digest *)
(* includes the currentness it was sent with, and a repeated sequence       *)
(* number is not looked at.                                                 *)

(* Mutant of newer_stored: only assessments made at the same time compare.  *)
newer_stored_same_time(ctx, w, made_at) ==
  /\ portability[w].stamp.observed_at = made_at
  /\ portability[w].stamp.sequence > ctx.sequence

newer_stored(ctx, w, made_at) ==
  LET stamp == portability[w].stamp
  IN  \/ stamp.observed_at > made_at
      \/ stamp.observed_at = made_at /\ stamp.sequence > ctx.sequence

suppress_portability(ctx, w, content, sent_as, made_at) ==
  /\ check_authority(ctx)
  /\ w \in DOMAIN portability
  /\ \/ portability[w].content = content /\ portability[w].currentness = sent_as
     \/ newer_stored(ctx, w, made_at)
  /\ Suppress(ctx)

publish_portability(ctx, w, content, sent_as, made_at, at) ==
  /\ check_authority(ctx)
  /\ IF w \in DOMAIN portability
     THEN /\ ~(portability[w].content = content /\ portability[w].currentness = sent_as)
          /\ ~newer_stored(ctx, w, made_at)
     ELSE Cardinality(DOMAIN portability) < MaxPortability
  /\ portability' = Insert(portability, w,
       [content |-> content, currentness |-> "Current", stamp |-> stamp_for(ctx, at)])
  /\ finish(ctx)
  /\ UNCHANGED <<coordinator_epoch, placements, latest_placement>>

-----------------------------------------------------------------------------
register_publisher_step(ctx) ==
  /\ register_publisher(ctx)
  /\ UNCHANGED <<placements, latest_placement, portability>>

fence_publisher(k) ==
  /\ FenceKnown(k) \/ FenceUnknown(k)
  /\ UNCHANGED <<placements, latest_placement, portability>>

(* The placements of a workload, and the last of them in the order of the   *)
(* state file, by time and identifier: the one <= keeps.                    *)
PlacementsOf(w) == {p \in DOMAIN placements : placements[p].pub.workload = w}
LastOf(S) ==
  CHOOSE p \in S : \A q \in S :
    \/ placements[q].stamp.observed_at < placements[p].stamp.observed_at
    \/ placements[q].stamp.observed_at = placements[p].stamp.observed_at /\ q <= p

rebuilt_latest ==
  [w \in {v \in Workloads : PlacementsOf(v) # {}} |-> LastOf(PlacementsOf(w))]

AllStale(f) == [x \in DOMAIN f |-> [f[x] EXCEPT !.currentness = "Stale"]]

(* A clean stop and start: what is restored is history, and the latest      *)
(* placement of each workload is found again.                               *)
Restart ==
  /\ RestoreAuthority
  /\ placements' = AllStale(placements)
  /\ portability' = AllStale(portability)
  /\ latest_placement' = rebuilt_latest

(* A publication, tried only when the gate lets its context through.  Its   *)
(* record is stamped before it is sent, or not at all: every publisher of   *)
(* this repository does so, but the observatory does not check it: it       *)
(* compares made_at with what is stored and then stores at                  *)
(* (observatory.cpp:1107-1115, 1352-1364).  LatestMovesForward and          *)
(* AssessmentsMoveForward rest on it.                                       *)
Publication(ctx) ==
  /\ check_authority(ctx)
  /\ \E at \in Time : \E made_at \in 0..at :
       \/ \E id \in PlacementIds, rec \in Placement :
            \/ suppress_placement(ctx, id, rec)
            \/ publish_placement(ctx, id, rec, made_at, at)
       \/ \E w \in Workloads, content \in Contents, sent_as \in {"Unknown", "Current"} :
            \/ suppress_portability(ctx, w, content, sent_as, made_at)
            \/ publish_portability(ctx, w, content, sent_as, made_at, at)

Next ==
  \/ \E ctx \in PublicationContext : register_publisher_step(ctx) \/ Publication(ctx)
  \/ \E k \in Keys : fence_publisher(k)
  \/ Restart

Spec == Init /\ [][Next]_vars

-----------------------------------------------------------------------------
(* README.md:271-275, for the publications of placements and assessments.   *)
ImplementsContract == Contract!Spec

(* What is called current was heard in this epoch, from an identity whose   *)
(* watermark covers it; a restart leaves only history.                      *)
HistoriesFresh ==
  /\ \A p \in DOMAIN placements :
       /\ placements[p].stamp.sequence <= Watermark(placements[p].stamp.key)
       /\ placements[p].currentness = "Current" => placements[p].stamp.epoch = coordinator_epoch
  /\ \A w \in DOMAIN portability :
       /\ portability[w].stamp.sequence <= Watermark(portability[w].stamp.key)
       /\ portability[w].currentness = "Current" => portability[w].stamp.epoch = coordinator_epoch

(* What a step leaves of each placement, of the latest one of a workload    *)
(* and of each assessment.                                                  *)
PlacementsForward ==
  \A p \in DOMAIN placements :
    /\ p \in DOMAIN placements'
    /\ placements'[p].pub.generation >= placements[p].pub.generation
    /\ placements'[p].pub.generation = placements[p].pub.generation
       => placements'[p].pub = placements[p].pub

LatestForward ==
  \A w \in DOMAIN latest_placement :
    LET before == latest_placement[w] IN
    placements[before].pub.workload = w
    => /\ w \in DOMAIN latest_placement'
       /\ latest_placement'[w] # before
          => placements'[latest_placement'[w]].stamp.observed_at
             >= placements[before].stamp.observed_at

AssessmentsForward ==
  \A w \in DOMAIN portability :
    /\ w \in DOMAIN portability'
    /\ portability'[w].stamp.observed_at >= portability[w].stamp.observed_at

(* observatory.cpp:1081-1094, 1714-1732: a stored placement is never lost   *)
(* and its generation never goes back, and what a generation says never     *)
(* changes, whatever is repeated, late or restored.                         *)
PlacementsMoveForward == [][PlacementsForward]_vars

(* observatory.cpp:1098-1099: "a placement for a workload whose latest      *)
(* placement is newer [...] is not allowed to become the current placement":*)
(* another placement takes over a workload only if it was observed no       *)
(* earlier, and a restart finds one that was.                               *)
LatestMovesForward == [][LatestForward]_vars

(* observatory.cpp:1352-1357: an assessment of a pair never gives way to    *)
(* one observed earlier, whoever sent it and across restarts.               *)
AssessmentsMoveForward == [][AssessmentsForward]_vars
=============================================================================
