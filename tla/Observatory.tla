----------------------------- MODULE Observatory -----------------------------
(***************************************************************************)
(* The structural registry and the cluster records of the observatory      *)
(* (observatory.cpp): registrations of every kind of record, retirement,   *)
(* capability and capacity publications, fencing, invalidation and the     *)
(* clean restart, each an atomic step behind the gate of module Gate.      *)
(*                                                                         *)
(* A record's fields beyond its generation are one abstract content, which *)
(* determines the objects the record refers to.  Statistics, evidence      *)
(* notes and the precision and evidence class of a stamp are left out.     *)
(***************************************************************************)
EXTENDS Gate

CONSTANTS
  Items,           \* identifiers of structural records other than clusters
  Kind,            \* the kind of each item
  Clusters,        \* cluster identifiers
  Contents,        \* what a record says, beyond its generation
  References,      \* <<object, content>> -> the objects that content names
  Limit,           \* kind -> the configured bound on the records of the kind
  ClusterRecords,      \* the cluster records publishers register
  CapabilityMessages,  \* the capability publications they send
  CapacityMessages,    \* the capacity publications they send
  Payloads,        \* non-empty capability sets, and pool ledgers
  Empty,           \* the empty capability set
  MaxGeneration    \* bound of the model: largest generation

RecordKinds == {"federation", "site", "domain", "accelerator_class", "runtime",
                "backend", "policy", "artifact", "workload_class", "workload"}

Objects == Items \cup Clusters
Generation == 0..MaxGeneration
Capabilities == Payloads \cup {Empty}
CapacityPool == [ledger: Payloads, generation: Generation]
Readiness == {"Unknown", "Ready", "Retired"}
Currentness == {"Current", "Stale", "RevalidationRequired", "Retired"}
ObservationStamp == [key: Keys, epoch: Epoch, sequence: Sequence]

(* The published part of a record: what published_digest covers.            *)
Published == [generation: Generation, content: Contents]
ClusterPublished ==
  [generation: Generation, content: Contents,
   capability_generation: Generation, capabilities: Capabilities,
   capacity_generation: Generation, pools: SUBSET CapacityPool,
   readiness: Readiness]

(* A capability or capacity publication m for a cluster: generations, 0     *)
(* when unset, and the payload.                                             *)
CapabilityMessage ==
  [federation_generation: Generation, cluster_generation: Generation,
   capability_generation: Generation, capabilities: Capabilities]
CapacityMessage ==
  [federation_generation: Generation, cluster_generation: Generation,
   capacity_generation: Generation, pools: SUBSET CapacityPool]

ASSUME ObservatoryAssumption ==
  /\ Items \cap Clusters = {}
  /\ Federations \subseteq Items
  /\ Kind \in [Items -> RecordKinds]
  /\ \A f \in Federations : Kind[f] = "federation"
  /\ References \in [Objects \X Contents -> SUBSET Objects]
  /\ Limit \in [RecordKinds \cup {"cluster"} -> Nat]
  /\ MaxGeneration \in Nat
  /\ ClusterRecords \subseteq ClusterPublished
  /\ CapabilityMessages \subseteq CapabilityMessage
  /\ CapacityMessages \subseteq CapacityMessage
  /\ Empty \notin Payloads

VARIABLES
  records,       \* partial map item -> record
  clusters       \* partial map cluster -> cluster record

vars == <<publishers, coordinator_epoch, records, clusters>>

StoredRecord == [pub: Published, currentness: Currentness, stamp: ObservationStamp]
StoredCluster == [pub: ClusterPublished, currentness: Currentness, stamp: ObservationStamp]

TypeOK ==
  /\ GateTypeOK
  /\ DOMAIN records \subseteq Items
  /\ records \in [DOMAIN records -> StoredRecord]
  /\ DOMAIN clusters \subseteq Clusters
  /\ clusters \in [DOMAIN clusters -> StoredCluster]

Init ==
  /\ GateInit
  /\ records = [i \in {} |-> Empty]
  /\ clusters = [c \in {} |-> Empty]

-----------------------------------------------------------------------------
Registered == DOMAIN records \cup DOMAIN clusters

stamp_for(ctx) == [key |-> ctx.key, epoch |-> ctx.epoch, sequence |-> ctx.sequence]

Current(ctx, pub) == [pub |-> pub, currentness |-> "Current", stamp |-> stamp_for(ctx)]

(* Accepted, and nothing but the watermark moves: a duplicate suppressed or *)
(* a record that a newer one supersedes.                                    *)
Suppress(ctx) ==
  /\ finish(ctx)
  /\ UNCHANGED <<coordinator_epoch, records, clusters>>

(* Accepted and stored.                                                     *)
Store(ctx) == finish(ctx) /\ UNCHANGED coordinator_epoch

GenerationIsSet(i, pub) == Kind[i] \in {"domain", "workload_class"} \/ pub.generation # 0

(* A workload class has no generation: any change replaces it.              *)
GenerationOf(i, pub) == IF Kind[i] = "workload_class" THEN 0 ELSE pub.generation

(* The stored generation is newer than the one sent.                        *)
Outdated(stored, sent) == stored > sent

OfKind(kind) == {i \in DOMAIN records : Kind[i] = kind}

(* Mutant of Admitted: what the record refers to is not looked up.          *)
AdmittedUnresolved(ctx, i, pub) == check_authority(ctx) /\ GenerationIsSet(i, pub)

(* What register_structural checks before it compares contents.             *)
Admitted(ctx, i, pub) ==
  /\ check_authority(ctx)
  /\ GenerationIsSet(i, pub)
  /\ References[<<i, pub.content>>] \subseteq Registered

(* register_structural of a record not yet stored.                          *)
RegisterFirst(ctx, i, pub) ==
  /\ Admitted(ctx, i, pub)
  /\ i \notin DOMAIN records
  /\ ~duplicate_sequence(ctx)
  /\ Cardinality(OfKind(Kind[i])) < Limit[Kind[i]]
  /\ records' = Insert(records, i, Current(ctx, pub))
  /\ Store(ctx)
  /\ UNCHANGED clusters

(* The same content again: suppressed, whatever its sequence number.        *)
RegisterIdentical(ctx, i, pub) ==
  /\ Admitted(ctx, i, pub)
  /\ i \in DOMAIN records
  /\ records[i].pub = pub
  /\ Suppress(ctx)

(* Other content for a stored record: applied unless the stored generation  *)
(* is newer; an equal generation is overwritten.                            *)
RegisterChanged(ctx, i, pub) ==
  /\ Admitted(ctx, i, pub)
  /\ i \in DOMAIN records
  /\ records[i].pub # pub
  /\ ~duplicate_sequence(ctx)
  /\ IF Outdated(GenerationOf(i, records[i].pub), GenerationOf(i, pub))
     THEN Suppress(ctx)
     ELSE /\ records' = [records EXCEPT ![i] = Current(ctx, pub)]
          /\ Store(ctx)
          /\ UNCHANGED clusters

register_structural(ctx, i, pub) ==
  \/ RegisterFirst(ctx, i, pub)
  \/ RegisterIdentical(ctx, i, pub)
  \/ RegisterChanged(ctx, i, pub)

-----------------------------------------------------------------------------
(* register_cluster: register_structural on the cluster map, and the        *)
(* capacity and readiness of a new incarnation start unknown, even those    *)
(* that the registration itself carried.                                    *)
NewIncarnation(pub) == [pub EXCEPT !.pools = {}, !.readiness = "Unknown"]

ClusterAdmitted(ctx, c, pub) ==
  /\ check_authority(ctx)
  /\ pub.generation # 0
  /\ References[<<c, pub.content>>] \subseteq Registered

RegisterClusterFirst(ctx, c, pub) ==
  /\ ClusterAdmitted(ctx, c, pub)
  /\ c \notin DOMAIN clusters
  /\ ~duplicate_sequence(ctx)
  /\ Cardinality(DOMAIN clusters) < Limit["cluster"]
  /\ clusters' = Insert(clusters, c, Current(ctx, pub))
  /\ Store(ctx)
  /\ UNCHANGED records

RegisterClusterIdentical(ctx, c, pub) ==
  /\ ClusterAdmitted(ctx, c, pub)
  /\ c \in DOMAIN clusters
  /\ clusters[c].pub = pub
  /\ Suppress(ctx)

RegisterClusterChanged(ctx, c, pub) ==
  /\ ClusterAdmitted(ctx, c, pub)
  /\ c \in DOMAIN clusters
  /\ clusters[c].pub # pub
  /\ ~duplicate_sequence(ctx)
  /\ LET stored == clusters[c].pub.generation IN
     IF Outdated(stored, pub.generation)
     THEN Suppress(ctx)
     ELSE /\ clusters' = [clusters EXCEPT ![c] =
               Current(ctx, IF pub.generation > stored THEN NewIncarnation(pub) ELSE pub)]
          /\ Store(ctx)
          /\ UNCHANGED records

register_cluster(ctx, c, pub) ==
  \/ RegisterClusterFirst(ctx, c, pub)
  \/ RegisterClusterIdentical(ctx, c, pub)
  \/ RegisterClusterChanged(ctx, c, pub)

(* Mutant of RetireGeneration: the caller's generation, set or not.         *)
RetireAsGiven(g, stored) == g

(* retire_cluster at generation g, 0 when the caller names none.            *)
RetireGeneration(g, stored) == IF g # 0 THEN g ELSE stored + 1

retire_cluster(ctx, c, g) ==
  /\ check_authority(ctx)
  /\ c \in DOMAIN clusters
  /\ g # 0 => g >= clusters[c].pub.generation
  /\ IF clusters[c].currentness = "Retired"
     THEN Suppress(ctx)
     ELSE /\ RetireGeneration(g, clusters[c].pub.generation) <= MaxGeneration
          /\ clusters[c].pub.capacity_generation < MaxGeneration
          /\ clusters' = [clusters EXCEPT ![c] =
               [pub |-> [clusters[c].pub EXCEPT
                           !.generation = RetireGeneration(g, @),
                           !.readiness = "Retired",
                           !.capacity_generation = @ + 1],
                currentness |-> "Retired", stamp |-> stamp_for(ctx)]]
          /\ Store(ctx)
          /\ UNCHANGED records

-----------------------------------------------------------------------------
check_federation(ctx, m) ==
  /\ ctx.federation \in DOMAIN records
  /\ m.federation_generation # 0 =>
       m.federation_generation = records[ctx.federation].pub.generation

(* Mutant of EvidenceAdmitted: late evidence about a retired cluster.       *)
EvidenceAdmittedLate(ctx, c, m) ==
  /\ check_authority(ctx)
  /\ check_federation(ctx, m)
  /\ c \in DOMAIN clusters
  /\ m.cluster_generation # 0 => m.cluster_generation >= clusters[c].pub.generation

(* The checks the two publications share.                                   *)
EvidenceAdmitted(ctx, c, m) ==
  /\ check_authority(ctx)
  /\ check_federation(ctx, m)
  /\ c \in DOMAIN clusters
  /\ clusters[c].currentness # "Retired"
  /\ m.cluster_generation # 0 => m.cluster_generation >= clusters[c].pub.generation

(* The cluster generation after evidence: advanced when m names a newer one.*)
EvidenceGeneration(m, stored) == Raise(stored, m.cluster_generation)

SameCapability(pub, m) ==
  m.capability_generation = pub.capability_generation /\ pub.capabilities # Empty

publish_capability(ctx, c, m) ==
  /\ EvidenceAdmitted(ctx, c, m)
  /\ m.capability_generation # 0
  /\ m.capability_generation >= clusters[c].pub.capability_generation
  /\ IF SameCapability(clusters[c].pub, m)
     THEN clusters[c].pub.capabilities = m.capabilities /\ Suppress(ctx)
     ELSE /\ clusters' = [clusters EXCEPT ![c] =
               Current(ctx, [clusters[c].pub EXCEPT
                 !.generation = EvidenceGeneration(m, @),
                 !.capability_generation = m.capability_generation,
                 !.capabilities = m.capabilities])]
          /\ Store(ctx)
          /\ UNCHANGED records

(* The stored form of the pools: an unset pool generation becomes the       *)
(* publication's.                                                           *)
AcceptedPools(m) ==
  {[p EXCEPT !.generation = IF @ = 0 THEN m.capacity_generation ELSE @] : p \in m.pools}

SameCapacity(pub, m) ==
  m.capacity_generation = pub.capacity_generation /\ pub.pools # {}

AfterCapacity(pub, m) ==
  [pub EXCEPT !.generation = EvidenceGeneration(m, @),
              !.capacity_generation = m.capacity_generation,
              !.pools = AcceptedPools(m)]

CapacityAdmitted(ctx, c, m) ==
  /\ EvidenceAdmitted(ctx, c, m)
  /\ m.capacity_generation # 0
  /\ m.capacity_generation >= clusters[c].pub.capacity_generation

publish_capacity(ctx, c, m) ==
  /\ CapacityAdmitted(ctx, c, m)
  /\ IF SameCapacity(clusters[c].pub, m)
     THEN clusters[c].pub.pools = m.pools /\ Suppress(ctx)
     ELSE /\ clusters' = [clusters EXCEPT ![c] = Current(ctx, AfterCapacity(clusters[c].pub, m))]
          /\ Store(ctx)
          /\ UNCHANGED records

-----------------------------------------------------------------------------
register_publisher_step(ctx) ==
  /\ register_publisher(ctx)
  /\ UNCHANGED <<records, clusters>>

(* Mutant of StaledByFence: the sites are forgotten.                        *)
StaledByFenceNoSites == {"federation", "domain"}

(* The kinds whose records fence_publisher visits, besides clusters.        *)
StaledByFence == {"federation", "site", "domain"}

Staled(r) == [r EXCEPT !.currentness = IF @ = "Current" THEN "Stale" ELSE @]

fence_publisher(k) ==
  \/ /\ FenceKnown(k)
     /\ records' = [i \in DOMAIN records |->
          IF records[i].stamp.key = k /\ Kind[i] \in StaledByFence
          THEN Staled(records[i]) ELSE records[i]]
     /\ clusters' = [c \in DOMAIN clusters |->
          IF clusters[c].stamp.key = k THEN Staled(clusters[c]) ELSE clusters[c]]
  \/ /\ FenceUnknown(k)
     /\ UNCHANGED <<records, clusters>>

(* Mutant of Revalidate: capacity is dropped, currentness kept.             *)
RevalidateKeepsCurrent(r) == [r EXCEPT !.pub = NewIncarnation(@)]

(* A cluster without its dynamic evidence: what invalidation leaves, what   *)
(* is written to disk and what is restored from it.                         *)
Revalidate(r) ==
  [r EXCEPT !.pub = NewIncarnation(@),
            !.currentness = IF @ = "Retired" THEN "Retired" ELSE "RevalidationRequired"]

invalidate_dynamic_evidence ==
  /\ InvalidateAuthority
  /\ clusters' = [c \in DOMAIN clusters |-> Revalidate(clusters[c])]
  /\ UNCHANGED records

(* DurableState::validate, which save_durable_state and apply_durable_state *)
(* both call: no map over its bound, and no site, workload or cluster that  *)
(* names an object the state does not hold.                                 *)
CountsWithinBounds ==
  /\ \A kind \in RecordKinds : Cardinality(OfKind(kind)) <= Limit[kind]
  /\ Cardinality(DOMAIN clusters) <= Limit["cluster"]

ReferencesResolve ==
  /\ \A i \in DOMAIN records :
       Kind[i] \in {"site", "workload"} =>
         References[<<i, records[i].pub.content>>] \subseteq Registered
  /\ \A c \in DOMAIN clusters :
       References[<<c, clusters[c].pub.content>>] \subseteq Registered

(* save_state at a clean stop, load_state at the next start; a state that   *)
(* does not validate is not saved.                                          *)
Restart ==
  /\ RestoreAuthority
  /\ CountsWithinBounds /\ ReferencesResolve
  /\ records' = [i \in DOMAIN records |-> Staled(records[i])]
  /\ clusters' = [c \in DOMAIN clusters |-> Revalidate(clusters[c])]

(* A publication, tried only when the gate lets its context through.        *)
Publication(ctx) ==
  /\ check_authority(ctx)
  /\ \/ \E i \in Items, pub \in Published : register_structural(ctx, i, pub)
     \/ \E c \in Clusters :
          \/ \E pub \in ClusterRecords : register_cluster(ctx, c, pub)
          \/ \E g \in Generation : retire_cluster(ctx, c, g)
          \/ \E m \in CapabilityMessages : publish_capability(ctx, c, m)
          \/ \E m \in CapacityMessages : publish_capacity(ctx, c, m)

Next ==
  \/ \E ctx \in PublicationContext : register_publisher_step(ctx) \/ Publication(ctx)
  \/ \E k \in Keys : fence_publisher(k)
  \/ invalidate_dynamic_evidence
  \/ Restart

Spec == Init /\ [][Next]_vars

-----------------------------------------------------------------------------
(* Every stored record, of any kind.                                        *)
Stored == {records[i] : i \in DOMAIN records} \cup {clusters[c] : c \in DOMAIN clusters}

(* README.md:271-275: whatever the publications carry, and wherever they    *)
(* end in the registry, the publisher table keeps AuthorityContract.        *)
ImplementsContract == Contract!Spec

(* No record outruns its publisher: each was stamped by an identity in the  *)
(* table, under a number that the identity's watermark covers, so that a    *)
(* replay of the frame that produced it can never be taken for a new one.   *)
StampsBelowWatermark ==
  \A r \in Stored :
    /\ Known(r.stamp.key)
    /\ r.stamp.sequence <= publishers[r.stamp.key].watermark

(* observatory.cpp:510 for the kinds that fence_publisher visits: whoever   *)
(* wrote last, a current federation, site, domain or cluster record was     *)
(* never written by an identity that is fenced.                             *)
FencedStructureNotCurrent ==
  /\ \A i \in DOMAIN records :
       records[i].currentness = "Current" /\ Kind[i] \in {"federation", "site", "domain"}
         => records[i].stamp.key \notin FencedKeys
  /\ \A c \in DOMAIN clusters :
       clusters[c].currentness = "Current" => clusters[c].stamp.key \notin FencedKeys

(* model.hpp:21-23: "After a coordinator restart, nothing dynamic is        *)
(* Current": a record is current only on evidence of this epoch.            *)
CurrentOnlyThisEpoch ==
  \A r \in Stored : r.currentness = "Current" => r.stamp.epoch = coordinator_epoch

(* The registry itself never gets in the way of a save: at every moment its *)
(* maps are within their bounds and what its records name is there, though  *)
(* records are registered and changed by several identities.                *)
RegistrySavable == CountsWithinBounds /\ ReferencesResolve

(* README.md:275 where register_structural enforces it: two structural      *)
(* records never come from the same sequence number of one identity.        *)
StructuralStampsUnique ==
  \A i, j \in DOMAIN records :
    /\ records[i].stamp.key = records[j].stamp.key
    /\ records[i].stamp.sequence = records[j].stamp.sequence
    => i = j

(* What a step leaves of each generation: the same one or a newer one.      *)
GenerationsNotOlder ==
  /\ \A i \in DOMAIN records :
       GenerationOf(i, records'[i].pub) >= GenerationOf(i, records[i].pub)
  /\ \A c \in DOMAIN clusters :
       clusters'[c].pub.generation >= clusters[c].pub.generation

(* Late evidence never takes a cluster, or a record that has a generation,  *)
(* back to an older generation, whoever sends it and in whatever order.     *)
GenerationNeverRegresses == [][GenerationsNotOlder]_vars

(* A retired cluster that a step brings back was registered by it.          *)
BroughtBackByRegistration ==
  \A c \in DOMAIN clusters :
    clusters[c].currentness = "Retired" /\ clusters'[c].currentness # "Retired"
      => \E pub \in ClusterRecords :
           /\ clusters'[c].pub \in {pub, NewIncarnation(pub)}
           /\ pub.generation >= clusters[c].pub.generation

(* A retired cluster takes no evidence: only a registration brings it back, *)
(* and never at an older generation.                                        *)
RetiredOnlyReregistered == [][BroughtBackByRegistration]_vars
=============================================================================
