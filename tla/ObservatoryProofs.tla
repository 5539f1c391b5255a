-------------------------- MODULE ObservatoryProofs --------------------------
(***************************************************************************)
(* Proofs about Observatory for every set of identities, records, contents *)
(* and bounds: type correctness, that the registry keeps AuthorityContract,*)
(* the invariants of the stamps, of the fences and of a save, and what a   *)
(* step may never do to a generation or to a retired cluster.              *)
(*                                                                         *)
(* Every publication is reduced once, in PublicationWrites, to one of three*)
(* forms: nothing is stored, one structural record is, or one cluster      *)
(* record is.  The invariants are proved from these forms.                 *)
(***************************************************************************)
EXTENDS Observatory, GateProofs, FiniteSetTheorems

NothingWritten == records' = records /\ clusters' = clusters

(* Publication ctx stored pub as the record of item i.                      *)
RecordWritten(ctx, i, pub) ==
  /\ pub \in Published
  /\ ~duplicate_sequence(ctx)
  /\ References[<<i, pub.content>>] \subseteq Registered
  /\ records' = Insert(records, i, Current(ctx, pub))
  /\ clusters' = clusters
  /\ i \in DOMAIN records => GenerationOf(i, pub) >= GenerationOf(i, records[i].pub)
  /\ i \notin DOMAIN records => Cardinality(OfKind(Kind[i])) < Limit[Kind[i]]

(* Publication ctx stored r as the record of cluster c.                     *)
ClusterWritten(ctx, c, r) ==
  /\ r \in StoredCluster
  /\ r.stamp = stamp_for(ctx)
  /\ clusters' = Insert(clusters, c, r)
  /\ records' = records
  /\ \/ References[<<c, r.pub.content>>] \subseteq Registered
     \/ c \in DOMAIN clusters /\ r.pub.content = clusters[c].pub.content
  /\ c \in DOMAIN clusters => r.pub.generation >= clusters[c].pub.generation
  /\ c \notin DOMAIN clusters => Cardinality(DOMAIN clusters) < Limit["cluster"]
  /\ c \in DOMAIN clusters /\ clusters[c].currentness = "Retired" /\ r.currentness # "Retired"
       => \E pub \in ClusterRecords :
            /\ r.pub \in {pub, NewIncarnation(pub)}
            /\ pub.generation >= clusters[c].pub.generation

(* The stamp that an admitted context puts on a record.                     *)
LEMMA StampType ==
  ASSUME GateTypeOK, NEW ctx \in PublicationContext, check_authority(ctx)
  PROVE  /\ stamp_for(ctx) \in ObservationStamp
         /\ stamp_for(ctx).key = ctx.key
         /\ stamp_for(ctx).sequence = ctx.sequence
         /\ stamp_for(ctx).epoch = coordinator_epoch
BY DEF stamp_for, ObservationStamp, PublicationContext, check_authority, GateTypeOK

(* Replacing the entry of a record that is there inserts it.                *)
LEMMA ReplaceInserts ==
  ASSUME TypeOK, NEW v
  PROVE  /\ \A i \in DOMAIN records : [records EXCEPT ![i] = v] = Insert(records, i, v)
         /\ \A c \in DOMAIN clusters : [clusters EXCEPT ![c] = v] = Insert(clusters, c, v)
BY DEF TypeOK, Insert

(* register_structural stores one record, or nothing.                       *)
LEMMA StructuralWrites ==
  ASSUME TypeOK, NEW ctx \in PublicationContext, NEW i \in Items, NEW pub \in Published,
         register_structural(ctx, i, pub)
  PROVE  /\ check_authority(ctx) /\ finish(ctx) /\ coordinator_epoch' = coordinator_epoch
         /\ NothingWritten \/ RecordWritten(ctx, i, pub)
<1>1. CASE RegisterFirst(ctx, i, pub)
  BY <1>1 DEF RegisterFirst, Admitted, Store, RecordWritten
<1>2. CASE RegisterIdentical(ctx, i, pub)
  BY <1>2 DEF RegisterIdentical, Admitted, Suppress, NothingWritten
<1>3. CASE RegisterChanged(ctx, i, pub)
  <2>1. CASE Outdated(GenerationOf(i, records[i].pub), GenerationOf(i, pub))
    BY <1>3, <2>1 DEF RegisterChanged, Admitted, Suppress, NothingWritten
  <2>2. CASE ~Outdated(GenerationOf(i, records[i].pub), GenerationOf(i, pub))
    <3>1. i \in DOMAIN records /\ records[i] \in StoredRecord
      BY <1>3 DEF RegisterChanged, TypeOK
    <3>2. GenerationOf(i, pub) >= GenerationOf(i, records[i].pub)
      BY <2>2, <3>1, ObservatoryAssumption
      DEF Outdated, GenerationOf, StoredRecord, Published, Generation
    <3>3. records' = Insert(records, i, Current(ctx, pub))
      BY <1>3, <2>2, <3>1, ReplaceInserts DEF RegisterChanged, TypeOK
    <3> QED BY <1>3, <2>2, <3>1, <3>2, <3>3
        DEF RegisterChanged, Admitted, Store, RecordWritten
  <2> QED BY <2>1, <2>2
<1> QED BY <1>1, <1>2, <1>3 DEF register_structural

(* A record of a new incarnation is a cluster record of the same            *)
(* generation that names the same objects.                                  *)
LEMMA NewIncarnationType ==
  ASSUME NEW pub \in ClusterPublished
  PROVE  /\ NewIncarnation(pub) \in ClusterPublished
         /\ NewIncarnation(pub).content = pub.content
         /\ NewIncarnation(pub).generation = pub.generation
BY DEF NewIncarnation, ClusterPublished, Readiness

(* A stored cluster record made of a well-typed publication.                *)
LEMMA CurrentType ==
  ASSUME GateTypeOK, NEW ctx \in PublicationContext, check_authority(ctx),
         NEW pub \in ClusterPublished
  PROVE  /\ Current(ctx, pub) \in StoredCluster
         /\ Current(ctx, pub).pub = pub
         /\ Current(ctx, pub).stamp = stamp_for(ctx)
         /\ Current(ctx, pub).currentness = "Current"
BY StampType DEF Current, StoredCluster, Currentness

(* register_cluster stores one cluster record, or nothing.                  *)
LEMMA RegisterClusterWrites ==
  ASSUME TypeOK, NEW ctx \in PublicationContext, NEW c \in Clusters,
         NEW pub \in ClusterRecords, register_cluster(ctx, c, pub)
  PROVE  /\ check_authority(ctx) /\ finish(ctx) /\ coordinator_epoch' = coordinator_epoch
         /\ NothingWritten \/ \E r : ClusterWritten(ctx, c, r)
<1>0. GateTypeOK /\ pub \in ClusterPublished
  BY ObservatoryAssumption DEF TypeOK
<1>a. check_authority(ctx) /\ References[<<c, pub.content>>] \subseteq Registered
  BY DEF register_cluster, RegisterClusterFirst, RegisterClusterIdentical,
         RegisterClusterChanged, ClusterAdmitted
<1>1. CASE RegisterClusterFirst(ctx, c, pub)
  <2>1. ClusterWritten(ctx, c, Current(ctx, pub))
    BY <1>0, <1>1, <1>a, CurrentType DEF RegisterClusterFirst, ClusterWritten
  <2> QED BY <1>1, <1>a, <2>1 DEF RegisterClusterFirst, Store
<1>2. CASE RegisterClusterIdentical(ctx, c, pub)
  BY <1>2, <1>a DEF RegisterClusterIdentical, Suppress, NothingWritten
<1>3. CASE RegisterClusterChanged(ctx, c, pub)
  <2> DEFINE stored == clusters[c].pub.generation
             new == IF pub.generation > stored THEN NewIncarnation(pub) ELSE pub
  <2>1. CASE Outdated(stored, pub.generation)
    BY <1>3, <1>a, <2>1 DEF RegisterClusterChanged, Suppress, NothingWritten
  <2>2. CASE ~Outdated(stored, pub.generation)
    <3>1. c \in DOMAIN clusters /\ clusters[c] \in StoredCluster
      BY <1>3 DEF RegisterClusterChanged, TypeOK
    <3>2. pub.generation >= stored
      BY <1>0, <2>2, <3>1, ObservatoryAssumption
      DEF Outdated, StoredCluster, ClusterPublished, Generation
    <3>3. /\ new \in ClusterPublished /\ new.content = pub.content
          /\ new.generation = pub.generation /\ new \in {pub, NewIncarnation(pub)}
      BY <1>0, NewIncarnationType
    <3>4. clusters' = [clusters EXCEPT ![c] = Current(ctx, new)]
          /\ Store(ctx) /\ records' = records
      BY <1>3, <2>2 DEF RegisterClusterChanged
    <3> HIDE DEF new
    <3>5. clusters' = Insert(clusters, c, Current(ctx, new))
      BY <3>1, <3>4, ReplaceInserts
    <3>6. ClusterWritten(ctx, c, Current(ctx, new))
      BY <1>0, <1>a, <3>1, <3>2, <3>3, <3>4, <3>5, CurrentType DEF ClusterWritten
    <3> QED BY <1>a, <3>4, <3>6 DEF Store
  <2> QED BY <2>1, <2>2
<1> QED BY <1>1, <1>2, <1>3 DEF register_cluster

(* retire_cluster stores one cluster record, retired, or nothing.           *)
LEMMA RetireWrites ==
  ASSUME TypeOK, NEW ctx \in PublicationContext, NEW c \in Clusters,
         NEW g \in Generation, retire_cluster(ctx, c, g)
  PROVE  /\ check_authority(ctx) /\ finish(ctx) /\ coordinator_epoch' = coordinator_epoch
         /\ NothingWritten \/ \E r : ClusterWritten(ctx, c, r)
<1>1. CASE clusters[c].currentness = "Retired"
  BY <1>1 DEF retire_cluster, Suppress, NothingWritten
<1>2. CASE clusters[c].currentness # "Retired"
  <2> DEFINE old == clusters[c].pub
             gen == RetireGeneration(g, old.generation)
             pub == [old EXCEPT !.generation = gen, !.readiness = "Retired",
                                !.capacity_generation = old.capacity_generation + 1]
             r == [pub |-> pub, currentness |-> "Retired", stamp |-> stamp_for(ctx)]
  <2>1. /\ c \in DOMAIN clusters /\ clusters[c] \in StoredCluster
        /\ GateTypeOK /\ check_authority(ctx)
        /\ clusters \in [DOMAIN clusters -> StoredCluster]
    BY DEF retire_cluster, TypeOK
  <2>2. old \in ClusterPublished
    BY <2>1 DEF StoredCluster
  <2>3. /\ g # 0 => g >= old.generation
        /\ gen <= MaxGeneration /\ old.capacity_generation < MaxGeneration
    BY <1>2 DEF retire_cluster
  <2>4. /\ gen \in Generation /\ gen >= old.generation
        /\ old.capacity_generation + 1 \in Generation
    BY <2>2, <2>3, ObservatoryAssumption DEF RetireGeneration, ClusterPublished, Generation
  <2>5. clusters' = [clusters EXCEPT ![c] = r] /\ Store(ctx) /\ records' = records
    BY <1>2 DEF retire_cluster
  <2> HIDE DEF gen
  <2>6. /\ pub \in ClusterPublished /\ pub.generation = gen /\ pub.content = old.content
    BY <2>2, <2>4 DEF ClusterPublished, Readiness
  <2> HIDE DEF pub
  <2>7. /\ r \in StoredCluster /\ r.stamp = stamp_for(ctx) /\ r.pub = pub
        /\ r.currentness = "Retired"
    BY <2>1, <2>6, StampType DEF StoredCluster, Currentness
  <2> HIDE DEF r
  <2>8. clusters' = Insert(clusters, c, r)
    BY <2>1, <2>5, ReplaceInserts
  <2>9. ClusterWritten(ctx, c, r)
    BY <2>1, <2>4, <2>5, <2>6, <2>7, <2>8 DEF ClusterWritten
  <2> QED BY <2>1, <2>5, <2>9 DEF Store
<1> QED BY <1>1, <1>2

(* The cluster generation after evidence is a generation, and not an older  *)
(* one.                                                                     *)
LEMMA EvidenceGenerationType ==
  ASSUME NEW stored \in Generation, NEW m, m.cluster_generation \in Generation
  PROVE  /\ EvidenceGeneration(m, stored) \in Generation
         /\ EvidenceGeneration(m, stored) >= stored
BY ObservatoryAssumption DEF EvidenceGeneration, Raise, Generation

(* Evidence that changes a cluster which is not retired writes its record.  *)
LEMMA EvidenceWrites ==
  ASSUME TypeOK, NEW ctx \in PublicationContext, check_authority(ctx),
         NEW c \in DOMAIN clusters, clusters[c].currentness # "Retired",
         NEW pub \in ClusterPublished, pub.content = clusters[c].pub.content,
         pub.generation >= clusters[c].pub.generation,
         clusters' = [clusters EXCEPT ![c] = Current(ctx, pub)], records' = records
  PROVE  ClusterWritten(ctx, c, Current(ctx, pub))
<1>1. /\ Current(ctx, pub) \in StoredCluster /\ Current(ctx, pub).pub = pub
      /\ Current(ctx, pub).stamp = stamp_for(ctx)
  BY CurrentType DEF TypeOK
<1>2. clusters' = Insert(clusters, c, Current(ctx, pub))
  BY ReplaceInserts DEF TypeOK
<1> QED BY <1>1, <1>2 DEF ClusterWritten

(* publish_capability stores one cluster record, or nothing.                *)
LEMMA CapabilityWrites ==
  ASSUME TypeOK, NEW ctx \in PublicationContext, NEW c \in Clusters,
         NEW m \in CapabilityMessages, publish_capability(ctx, c, m)
  PROVE  /\ check_authority(ctx) /\ finish(ctx) /\ coordinator_epoch' = coordinator_epoch
         /\ NothingWritten \/ \E r : ClusterWritten(ctx, c, r)
<1> DEFINE old == clusters[c].pub
           gen == EvidenceGeneration(m, old.generation)
           pub == [old EXCEPT !.generation = gen,
                              !.capability_generation = m.capability_generation,
                              !.capabilities = m.capabilities]
<1>1. /\ check_authority(ctx) /\ c \in DOMAIN clusters
      /\ clusters[c].currentness # "Retired"
  BY DEF publish_capability, EvidenceAdmitted
<1>2. CASE SameCapability(old, m)
  BY <1>1, <1>2 DEF publish_capability, Suppress, NothingWritten
<1>3. CASE ~SameCapability(old, m)
  <2>1. m \in CapabilityMessage /\ old \in ClusterPublished
    BY <1>1, ObservatoryAssumption DEF TypeOK, StoredCluster
  <2>2. gen \in Generation /\ gen >= old.generation
    BY <2>1, EvidenceGenerationType DEF CapabilityMessage, ClusterPublished
  <2>3. clusters' = [clusters EXCEPT ![c] = Current(ctx, pub)]
        /\ Store(ctx) /\ records' = records
    BY <1>3 DEF publish_capability
  <2> HIDE DEF gen
  <2>4. pub \in ClusterPublished /\ pub.generation = gen /\ pub.content = old.content
    BY <2>1, <2>2 DEF CapabilityMessage, ClusterPublished
  <2> HIDE DEF pub
  <2>5. ClusterWritten(ctx, c, Current(ctx, pub))
    BY <1>1, <2>2, <2>3, <2>4, EvidenceWrites
  <2> QED BY <1>1, <2>3, <2>5 DEF Store
<1> QED BY <1>2, <1>3

(* publish_capacity stores one cluster record, or nothing.                  *)
LEMMA CapacityWrites ==
  ASSUME TypeOK, NEW ctx \in PublicationContext, NEW c \in Clusters,
         NEW m \in CapacityMessages, publish_capacity(ctx, c, m)
  PROVE  /\ check_authority(ctx) /\ finish(ctx) /\ coordinator_epoch' = coordinator_epoch
         /\ NothingWritten \/ \E r : ClusterWritten(ctx, c, r)
<1> DEFINE old == clusters[c].pub
           gen == EvidenceGeneration(m, old.generation)
           pub == [old EXCEPT !.generation = gen,
                              !.capacity_generation = m.capacity_generation,
                              !.pools = AcceptedPools(m)]
<1>1. /\ check_authority(ctx) /\ c \in DOMAIN clusters
      /\ clusters[c].currentness # "Retired"
  BY DEF publish_capacity, CapacityAdmitted, EvidenceAdmitted
<1>2. CASE SameCapacity(old, m)
  BY <1>1, <1>2 DEF publish_capacity, Suppress, NothingWritten
<1>3. CASE ~SameCapacity(old, m)
  <2>1. m \in CapacityMessage /\ old \in ClusterPublished
    BY <1>1, ObservatoryAssumption DEF TypeOK, StoredCluster
  <2>2. gen \in Generation /\ gen >= old.generation
    BY <2>1, EvidenceGenerationType DEF CapacityMessage, ClusterPublished
  <2>3. clusters' = [clusters EXCEPT ![c] = Current(ctx, pub)]
        /\ Store(ctx) /\ records' = records
    BY <1>3 DEF publish_capacity, AfterCapacity
  <2>4. AcceptedPools(m) \in SUBSET CapacityPool
    <3>1. ASSUME NEW p \in m.pools
          PROVE  [p EXCEPT !.generation = IF @ = 0 THEN m.capacity_generation ELSE @]
                   \in CapacityPool
      BY <2>1, <3>1 DEF CapacityMessage, CapacityPool
    <3> QED BY <3>1 DEF AcceptedPools
  <2> HIDE DEF gen
  <2>5. pub \in ClusterPublished /\ pub.generation = gen /\ pub.content = old.content
    BY <2>1, <2>2, <2>4 DEF CapacityMessage, ClusterPublished
  <2> HIDE DEF pub
  <2>6. ClusterWritten(ctx, c, Current(ctx, pub))
    BY <1>1, <2>2, <2>3, <2>5, EvidenceWrites
  <2> QED BY <1>1, <2>3, <2>6 DEF Store
<1> QED BY <1>2, <1>3

(* Every publication passes the gate, finishes, and stores nothing, one     *)
(* structural record or one cluster record.                                 *)
LEMMA PublicationWrites ==
  ASSUME TypeOK, NEW ctx \in PublicationContext, Publication(ctx)
  PROVE  /\ check_authority(ctx) /\ finish(ctx) /\ coordinator_epoch' = coordinator_epoch
         /\ \/ NothingWritten
            \/ \E i \in Items, pub \in Published : RecordWritten(ctx, i, pub)
            \/ \E c \in Clusters : \E r : ClusterWritten(ctx, c, r)
BY StructuralWrites, RegisterClusterWrites, RetireWrites, CapabilityWrites, CapacityWrites
DEF Publication

-----------------------------------------------------------------------------
(* The maps after one record was stored.                                    *)
LEMMA RecordEntries ==
  ASSUME TypeOK, NEW ctx \in PublicationContext, check_authority(ctx),
         NEW i \in Items, NEW pub \in Published, RecordWritten(ctx, i, pub)
  PROVE  /\ DOMAIN records' = DOMAIN records \cup {i}
         /\ records'[i] \in StoredRecord
         /\ records'[i].pub = pub
         /\ records'[i].stamp = stamp_for(ctx)
         /\ \A j \in DOMAIN records : j # i => records'[j] = records[j]
         /\ clusters' = clusters
<1>1. Current(ctx, pub) \in StoredRecord
  BY StampType DEF TypeOK, Current, StoredRecord, Currentness
<1>2. /\ DOMAIN records' = DOMAIN records \cup {i}
      /\ records'[i] = Current(ctx, pub)
      /\ \A j \in DOMAIN records : j # i => records'[j] = records[j]
      /\ clusters' = clusters
  BY DEF RecordWritten, Insert
<1>3. Current(ctx, pub).pub = pub /\ Current(ctx, pub).stamp = stamp_for(ctx)
  BY DEF Current
<1> QED BY <1>1, <1>2, <1>3

(* The maps after one cluster record was stored.                            *)
LEMMA ClusterEntries ==
  ASSUME TypeOK, NEW ctx \in PublicationContext,
         NEW c \in Clusters, NEW r, ClusterWritten(ctx, c, r)
  PROVE  /\ DOMAIN clusters' = DOMAIN clusters \cup {c}
         /\ clusters'[c] = r /\ r.stamp = stamp_for(ctx)
         /\ \A d \in DOMAIN clusters : d # c => clusters'[d] = clusters[d]
         /\ records' = records
BY DEF ClusterWritten, Insert

(* What a fence and a restart make of a record, and what invalidation and   *)
(* restart make of a cluster: the publication's generation, what it names   *)
(* and its stamp stay.                                                      *)
LEMMA StaledType ==
  /\ \A r \in StoredRecord :
       /\ Staled(r) \in StoredRecord
       /\ Staled(r).pub = r.pub /\ Staled(r).stamp = r.stamp
       /\ Staled(r).currentness # "Current"
  /\ \A r \in StoredCluster :
       /\ Staled(r) \in StoredCluster
       /\ Staled(r).pub = r.pub /\ Staled(r).stamp = r.stamp
       /\ Staled(r).currentness # "Current"
       /\ r.currentness = "Retired" => Staled(r).currentness = "Retired"
BY DEF Staled, StoredRecord, StoredCluster, Currentness

(* A cluster restored without its evidence keeps its stamp and generation.  *)
LEMMA RevalidateType ==
  ASSUME NEW r \in StoredCluster
  PROVE  /\ Revalidate(r) \in StoredCluster
         /\ Revalidate(r).stamp = r.stamp
         /\ Revalidate(r).currentness # "Current"
         /\ Revalidate(r).pub.generation = r.pub.generation
         /\ Revalidate(r).pub.content = r.pub.content
         /\ r.currentness = "Retired" => Revalidate(r).currentness = "Retired"
<1>1. /\ NewIncarnation(r.pub) \in ClusterPublished
      /\ NewIncarnation(r.pub).content = r.pub.content
      /\ NewIncarnation(r.pub).generation = r.pub.generation
  BY NewIncarnationType DEF StoredCluster
<1> DEFINE p == NewIncarnation(r.pub)
           q == IF r.currentness = "Retired" THEN "Retired" ELSE "RevalidationRequired"
<1>2. Revalidate(r) = [r EXCEPT !.pub = p, !.currentness = q]
  BY DEF Revalidate
<1>3. q \in Currentness \ {"Current"} /\ (r.currentness = "Retired" => q = "Retired")
  BY DEF Currentness
<1> HIDE DEF p, q
<1>4. /\ Revalidate(r) \in StoredCluster /\ Revalidate(r).stamp = r.stamp
      /\ Revalidate(r).pub = p /\ Revalidate(r).currentness = q
  BY <1>1, <1>2, <1>3 DEF StoredCluster, p
<1> QED BY <1>1, <1>3, <1>4 DEF p

(* The forms of the steps that are not publications, for the maps: the same *)
(* records, with the publication's generation, contents and stamp kept, and *)
(* none made current.                                                       *)
RegistryKept ==
  /\ records' \in [DOMAIN records -> StoredRecord]
  /\ \A i \in DOMAIN records :
       /\ records'[i].pub = records[i].pub
       /\ records'[i].stamp = records[i].stamp
       /\ records'[i].currentness = "Current" => records'[i] = records[i]
  /\ clusters' \in [DOMAIN clusters -> StoredCluster]
  /\ \A c \in DOMAIN clusters :
       /\ clusters'[c].stamp = clusters[c].stamp
       /\ clusters'[c].pub.generation = clusters[c].pub.generation
       /\ clusters'[c].pub.content = clusters[c].pub.content
       /\ clusters'[c].currentness = "Current" => clusters'[c] = clusters[c]
       /\ clusters[c].currentness = "Retired" => clusters'[c].currentness = "Retired"

(* A step that writes nothing keeps what is stored.                         *)
LEMMA NothingKeeps == TypeOK /\ NothingWritten => RegistryKept
BY DEF TypeOK, NothingWritten, RegistryKept

(* A fence makes records stale, and takes none away.                        *)
LEMMA FenceKeeps ==
  ASSUME TypeOK, NEW k \in Keys, fence_publisher(k)
  PROVE  RegistryKept
<1>1. CASE FenceKnown(k) /\ ~UNCHANGED <<records, clusters>>
  <2>1. /\ records' = [i \in DOMAIN records |->
             IF records[i].stamp.key = k /\ Kind[i] \in StaledByFence
             THEN Staled(records[i]) ELSE records[i]]
        /\ clusters' = [c \in DOMAIN clusters |->
             IF clusters[c].stamp.key = k THEN Staled(clusters[c]) ELSE clusters[c]]
    BY <1>1 DEF fence_publisher
  <2>2. \A i \in DOMAIN records : records[i] \in StoredRecord
    BY DEF TypeOK
  <2>3. \A c \in DOMAIN clusters : clusters[c] \in StoredCluster
    BY DEF TypeOK
  <2> QED BY <2>1, <2>2, <2>3, StaledType DEF RegistryKept
<1>2. CASE UNCHANGED <<records, clusters>>
  BY <1>2, NothingKeeps DEF NothingWritten
<1> QED BY <1>1, <1>2 DEF fence_publisher

(* So does the loss of dynamic evidence.                                    *)
LEMMA InvalidateKeeps ==
  ASSUME TypeOK, invalidate_dynamic_evidence
  PROVE  RegistryKept
<1>1. records \in [DOMAIN records -> StoredRecord]
  BY DEF TypeOK
<1>2. \A c \in DOMAIN clusters : clusters[c] \in StoredCluster
  BY DEF TypeOK
<1> QED BY <1>1, <1>2, RevalidateType DEF RegistryKept, invalidate_dynamic_evidence

(* A restart keeps every record, and none of them current.                  *)
LEMMA RestartKeeps ==
  ASSUME TypeOK, Restart
  PROVE  /\ RegistryKept
         /\ \A i \in DOMAIN records : records'[i].currentness # "Current"
         /\ \A c \in DOMAIN clusters : clusters'[c].currentness # "Current"
<1>1. \A i \in DOMAIN records : records[i] \in StoredRecord
  BY DEF TypeOK
<1>2. \A c \in DOMAIN clusters : clusters[c] \in StoredCluster
  BY DEF TypeOK
<1> QED BY <1>1, <1>2, StaledType, RevalidateType DEF RegistryKept, Restart

(* The steps of the registry: a publication in one of its forms, or a step  *)
(* that keeps every record's stamp and generation.                          *)
LEMMA StepForms ==
  ASSUME TypeOK, [Next]_vars
  PROVE  \/ \E ctx \in PublicationContext :
              /\ check_authority(ctx) /\ finish(ctx) /\ coordinator_epoch' = coordinator_epoch
              /\ \/ NothingWritten
                 \/ \E i \in Items, pub \in Published : RecordWritten(ctx, i, pub)
                 \/ \E c \in Clusters : \E r : ClusterWritten(ctx, c, r)
         \/ \E ctx \in PublicationContext : register_publisher(ctx) /\ NothingWritten
         \/ \E k \in Keys : fence_publisher(k) /\ RegistryKept
         \/ InvalidateAuthority /\ RegistryKept
         \/ Restart /\ RegistryKept
         \/ UNCHANGED gateVars /\ NothingWritten
<1>1. ASSUME NEW ctx \in PublicationContext, register_publisher_step(ctx)
      PROVE  register_publisher(ctx) /\ NothingWritten
  BY <1>1 DEF register_publisher_step, NothingWritten
<1>2. CASE UNCHANGED vars
  BY <1>2 DEF vars, gateVars, NothingWritten
<1>3. invalidate_dynamic_evidence => InvalidateAuthority
  BY DEF invalidate_dynamic_evidence
<1> QED BY <1>1, <1>2, <1>3, PublicationWrites, FenceKeeps, InvalidateKeeps, RestartKeeps
    DEF Next

(* Every step keeps the table and the maps in their types.                  *)
LEMMA StepType == TypeOK /\ [Next]_vars => TypeOK'
<1> SUFFICES ASSUME TypeOK, [Next]_vars PROVE TypeOK'
  OBVIOUS
<1>0. GateTypeOK
  BY DEF TypeOK
<1>a. ASSUME GateTypeOK', RegistryKept PROVE TypeOK'
  <2>1. /\ records' \in [DOMAIN records' -> StoredRecord]
        /\ clusters' \in [DOMAIN clusters' -> StoredCluster]
    BY <1>a DEF RegistryKept
  <2> QED BY <1>a, <2>1 DEF TypeOK, RegistryKept
<1>1. ASSUME NEW ctx \in PublicationContext,
             check_authority(ctx), finish(ctx), coordinator_epoch' = coordinator_epoch,
             \/ NothingWritten
             \/ \E i \in Items, pub \in Published : RecordWritten(ctx, i, pub)
             \/ \E c \in Clusters : \E r : ClusterWritten(ctx, c, r)
      PROVE  TypeOK'
  <2>1. GateTypeOK'
    BY <1>0, <1>1, FinishType
  <2>2. CASE NothingWritten
    BY <1>a, <2>1, <2>2, NothingKeeps
  <2>3. ASSUME NEW i \in Items, NEW pub \in Published, RecordWritten(ctx, i, pub)
        PROVE  TypeOK'
    <3>1. /\ DOMAIN records' = DOMAIN records \cup {i} /\ records'[i] \in StoredRecord
          /\ \A j \in DOMAIN records : j # i => records'[j] = records[j]
          /\ clusters' = clusters
      BY <1>1, <2>3, RecordEntries
    <3>2. records' = [j \in DOMAIN records' |-> records'[j]]
      BY <2>3 DEF RecordWritten, Insert
    <3> QED BY <2>1, <3>1, <3>2 DEF TypeOK
  <2>4. ASSUME NEW c \in Clusters, NEW r, ClusterWritten(ctx, c, r) PROVE TypeOK'
    BY <1>1, <2>1, <2>4, ClusterEntries DEF TypeOK, ClusterWritten, Insert
  <2> QED BY <1>1, <2>2, <2>3, <2>4
<1>2. ASSUME NEW ctx \in PublicationContext, register_publisher(ctx), NothingWritten
      PROVE  TypeOK'
  BY <1>0, <1>2, <1>a, RegisterType, NothingKeeps
<1>3. ASSUME NEW k \in Keys, fence_publisher(k), RegistryKept PROVE TypeOK'
  BY <1>0, <1>3, <1>a, FenceType DEF fence_publisher
<1>4. CASE InvalidateAuthority /\ RegistryKept
  BY <1>0, <1>4, <1>a, InvalidateType
<1>5. CASE Restart /\ RegistryKept
  BY <1>0, <1>5, <1>a, RestoreType DEF Restart
<1>6. CASE UNCHANGED gateVars /\ NothingWritten
  BY <1>0, <1>6, <1>a, NothingKeeps DEF gateVars, GateTypeOK
<1> QED BY <1>1, <1>2, <1>3, <1>4, <1>5, <1>6, StepForms

(* The registry is empty and well typed before the first publication.       *)
LEMMA InitType == Init => TypeOK
BY GateInitContract DEF Init, TypeOK

(* The publisher table, every structural record and every cluster record    *)
(* keep their types under every sequence of publications, fences,           *)
(* invalidations and restarts.                                              *)
THEOREM TypeCorrect == Spec => []TypeOK
<1> QED BY InitType, StepType, PTL DEF Spec

-----------------------------------------------------------------------------
(* One step of the registry is one step, or a stutter, of the contract.     *)
LEMMA StepContract ==
  ASSUME TypeOK, [Next]_vars
  PROVE  [Contract!Next]_Contract!contractVars
<1>0. GateTypeOK
  BY DEF TypeOK
<1>1. ASSUME NEW ctx \in PublicationContext,
             \/ check_authority(ctx) /\ finish(ctx) /\ coordinator_epoch' = coordinator_epoch
             \/ register_publisher(ctx)
      PROVE  Contract!Next
  <2>1. Contract!Accept(ctx.key, ctx.sequence)
    BY <1>0, <1>1, RegisterAccepts, FinishAccepts
  <2> QED BY <2>1 DEF Contract!Next, PublicationContext
<1>2. ASSUME NEW k \in Keys, fence_publisher(k) PROVE Contract!Next
  BY <1>0, <1>2, FenceFences DEF fence_publisher, Contract!Next
<1>3. CASE InvalidateAuthority
  BY <1>0, <1>3, InvalidateStutters
<1>4. CASE Restart
  BY <1>0, <1>4, RestoreAdvances DEF Restart, Contract!Next
<1>5. CASE UNCHANGED gateVars
  BY <1>5 DEF gateVars, Contract!contractVars, FencedKeys, Watermark, Known
<1> QED BY <1>1, <1>2, <1>3, <1>4, <1>5, StepForms

(* Whatever is registered, retired or published about a cluster, by whom    *)
(* and in whatever order, the publisher table keeps AuthorityContract: no   *)
(* sequence number goes back, no fence is lifted, no epoch is repeated.     *)
THEOREM RegistryImplementsContract == Spec => ImplementsContract
<1>1. Init => Contract!Init
  BY GateInitContract DEF Init
<1>2. TypeOK /\ [Next]_vars => [Contract!Next]_Contract!contractVars
  BY StepContract
<1> QED BY <1>1, <1>2, TypeCorrect, PTL DEF Spec, ImplementsContract, Contract!Spec

-----------------------------------------------------------------------------
(* The identity is known, and the number not beyond its watermark.          *)
StampCovered(stamp) == Known(stamp.key) /\ stamp.sequence <= publishers[stamp.key].watermark

(* StampsBelowWatermark, one map at a time.                                 *)
LEMMA StampsByMap ==
  StampsBelowWatermark <=>
    /\ \A i \in DOMAIN records : StampCovered(records[i].stamp)
    /\ \A c \in DOMAIN clusters : StampCovered(clusters[c].stamp)
BY DEF StampsBelowWatermark, StampCovered, Stored

(* A stamp that the table covers stays covered while the table grows.       *)
LEMMA CoveredStays ==
  ASSUME GateTypeOK, GateTypeOK', TableGrows, NEW stamp \in ObservationStamp,
         StampCovered(stamp)
  PROVE  StampCovered(stamp)'
<1>1. stamp.key \in DOMAIN publishers /\ stamp.key \in DOMAIN publishers'
  BY DEF StampCovered, Known, TableGrows
<1>2. /\ publishers[stamp.key].watermark \in Sequence
      /\ publishers'[stamp.key].watermark \in Sequence
      /\ stamp.sequence \in Sequence
  BY <1>1 DEF GateTypeOK, PublisherAuthority, ObservationStamp
<1>3. publishers'[stamp.key].watermark >= publishers[stamp.key].watermark
  BY <1>1 DEF TableGrows
<1> QED BY <1>1, <1>2, <1>3, GateAssumption DEF StampCovered, Known, Sequence

(* No step of the registry takes back what the table holds.                 *)
LEMMA StepGrows ==
  ASSUME TypeOK, [Next]_vars
  PROVE  TableGrows
<1>0. GateTypeOK
  BY DEF TypeOK
<1>1. ASSUME UNCHANGED gateVars PROVE TableGrows
  BY <1>0, <1>1, GateAssumption
  DEF gateVars, TableGrows, GateTypeOK, PublisherAuthority, Sequence
<1> QED BY <1>0, <1>1, StepForms, AcceptGrows, OthersGrow DEF fence_publisher, Restart

(* A step stores at most under the stamp of its own publication, whose      *)
(* number finish has just made the watermark.                               *)
LEMMA StepStamps ==
  ASSUME TypeOK, StampsBelowWatermark, [Next]_vars
  PROVE  StampsBelowWatermark'
<1>0. GateTypeOK /\ TypeOK' /\ GateTypeOK'
  BY StepType DEF TypeOK
<1>t. /\ \A i \in DOMAIN records : records[i].stamp \in ObservationStamp
      /\ \A c \in DOMAIN clusters : clusters[c].stamp \in ObservationStamp
  BY DEF TypeOK, StoredRecord, StoredCluster
<1>g. \A s \in ObservationStamp : StampCovered(s) => StampCovered(s)'
  BY <1>0, CoveredStays, StepGrows
<1>o. /\ \A i \in DOMAIN records : StampCovered(records[i].stamp)
      /\ \A c \in DOMAIN clusters : StampCovered(clusters[c].stamp)
  BY StampsByMap
<1> DEFINE CoveredNext(s) == s.key \in DOMAIN publishers'
                             /\ s.sequence <= publishers'[s.key].watermark
<1>s. SUFFICES /\ \A i \in DOMAIN records' : CoveredNext(records'[i].stamp)
               /\ \A c \in DOMAIN clusters' : CoveredNext(clusters'[c].stamp)
  BY StampsByMap DEF StampsBelowWatermark, Stored, Known
<1>n. /\ \A i \in DOMAIN records : CoveredNext(records[i].stamp)
      /\ \A c \in DOMAIN clusters : CoveredNext(clusters[c].stamp)
  BY <1>g, <1>o, <1>t DEF StampCovered, Known
<1> HIDE DEF CoveredNext
<1>1. CASE RegistryKept
  BY <1>1, <1>n DEF RegistryKept
<1>2. ASSUME NEW ctx \in PublicationContext,
             check_authority(ctx), finish(ctx), coordinator_epoch' = coordinator_epoch
      PROVE  CoveredNext(stamp_for(ctx))
  BY <1>0, <1>2, AcceptGrows, StampType, GateAssumption
  DEF CoveredNext, PublicationContext, Sequence
<1>3. ASSUME NEW ctx \in PublicationContext, check_authority(ctx), finish(ctx),
             coordinator_epoch' = coordinator_epoch,
             NEW i \in Items, NEW pub \in Published, RecordWritten(ctx, i, pub)
      PROVE  /\ \A j \in DOMAIN records' : CoveredNext(records'[j].stamp)
             /\ \A c \in DOMAIN clusters' : CoveredNext(clusters'[c].stamp)
  <2>1. /\ DOMAIN records' = DOMAIN records \cup {i}
        /\ records'[i].stamp = stamp_for(ctx)
        /\ \A j \in DOMAIN records : j # i => records'[j] = records[j]
        /\ clusters' = clusters
    BY <1>3, RecordEntries
  <2> QED BY <1>2, <1>3, <1>n, <2>1
<1>4. ASSUME NEW ctx \in PublicationContext, check_authority(ctx), finish(ctx),
             coordinator_epoch' = coordinator_epoch,
             NEW c \in Clusters, NEW r, ClusterWritten(ctx, c, r)
      PROVE  /\ \A j \in DOMAIN records' : CoveredNext(records'[j].stamp)
             /\ \A d \in DOMAIN clusters' : CoveredNext(clusters'[d].stamp)
  <2>1. /\ DOMAIN clusters' = DOMAIN clusters \cup {c}
        /\ clusters'[c].stamp = stamp_for(ctx)
        /\ \A d \in DOMAIN clusters : d # c => clusters'[d] = clusters[d]
        /\ records' = records
    BY <1>4, ClusterEntries
  <2> QED BY <1>2, <1>4, <1>n, <2>1
<1> QED BY <1>1, <1>3, <1>4, StepForms, NothingKeeps

(* No record outruns its publisher, for every number of publishers and      *)
(* records: the identity that stamped it is in the table and its watermark  *)
(* covers the stamp, through fences and restarts.                           *)
THEOREM StampsCovered == Spec => []StampsBelowWatermark
<1>1. Init => StampsBelowWatermark
  BY DEF Init, StampsBelowWatermark, Stored
<1>2. TypeOK /\ StampsBelowWatermark /\ [Next]_vars => StampsBelowWatermark'
  BY StepStamps
<1> QED BY <1>1, <1>2, TypeCorrect, PTL DEF Spec

-----------------------------------------------------------------------------
(* A record's currentness is judged by its stamp: what FencedStructureNot-  *)
(* Current and CurrentOnlyThisEpoch say of the stamp of a current record.   *)
LEMMA StepFenced ==
  ASSUME TypeOK, StampsBelowWatermark, FencedStructureNotCurrent, [Next]_vars
  PROVE  FencedStructureNotCurrent'
<1>0. GateTypeOK
  BY DEF TypeOK
<1>a. ASSUME RegistryKept, FencedKeys' = FencedKeys PROVE FencedStructureNotCurrent'
  BY <1>a DEF RegistryKept, FencedStructureNotCurrent
<1>1. ASSUME NEW ctx \in PublicationContext, check_authority(ctx), finish(ctx),
             coordinator_epoch' = coordinator_epoch
      PROVE  FencedKeys' = FencedKeys /\ stamp_for(ctx).key \notin FencedKeys
  BY <1>0, <1>1, AcceptGrows, StampType DEF check_authority, FencedKeys
<1>2. ASSUME NEW ctx \in PublicationContext, check_authority(ctx), finish(ctx),
             coordinator_epoch' = coordinator_epoch,
             NEW i \in Items, NEW pub \in Published, RecordWritten(ctx, i, pub)
      PROVE  FencedStructureNotCurrent'
  <2>1. /\ DOMAIN records' = DOMAIN records \cup {i}
        /\ records'[i].stamp = stamp_for(ctx)
        /\ \A j \in DOMAIN records : j # i => records'[j] = records[j]
        /\ clusters' = clusters
    BY <1>2, RecordEntries
  <2> QED BY <1>1, <1>2, <2>1 DEF FencedStructureNotCurrent
<1>3. ASSUME NEW ctx \in PublicationContext, check_authority(ctx), finish(ctx),
             coordinator_epoch' = coordinator_epoch,
             NEW c \in Clusters, NEW r, ClusterWritten(ctx, c, r)
      PROVE  FencedStructureNotCurrent'
  <2>1. /\ DOMAIN clusters' = DOMAIN clusters \cup {c}
        /\ clusters'[c].stamp = stamp_for(ctx)
        /\ \A d \in DOMAIN clusters : d # c => clusters'[d] = clusters[d]
        /\ records' = records
    BY <1>3, ClusterEntries
  <2> QED BY <1>1, <1>3, <2>1 DEF FencedStructureNotCurrent
<1>4. ASSUME NEW ctx \in PublicationContext, register_publisher(ctx), NothingWritten
      PROVE  FencedStructureNotCurrent'
  BY <1>0, <1>4, <1>a, AcceptGrows, NothingKeeps
<1>5. ASSUME NEW k \in Keys, fence_publisher(k), RegistryKept
      PROVE  FencedStructureNotCurrent'
  <2>1. FencedKeys' = FencedKeys \cup {k}
    BY <1>0, <1>5, FenceFences DEF fence_publisher, Contract!Fence
  <2>2. ASSUME FenceUnknown(k)
        PROVE  /\ \A i \in DOMAIN records : records[i].stamp.key # k
               /\ \A c \in DOMAIN clusters : clusters[c].stamp.key # k
    BY <2>2, StampsByMap DEF FenceUnknown, StampCovered
  <2>3. CASE FenceUnknown(k)
    BY <1>5, <2>1, <2>2, <2>3 DEF RegistryKept, FencedStructureNotCurrent
  <2>4. CASE ~FenceUnknown(k)
    <3>1. /\ records' = [i \in DOMAIN records |->
                IF records[i].stamp.key = k /\ Kind[i] \in StaledByFence
                THEN Staled(records[i]) ELSE records[i]]
          /\ clusters' = [c \in DOMAIN clusters |->
                IF clusters[c].stamp.key = k THEN Staled(clusters[c]) ELSE clusters[c]]
      BY <1>5, <2>4 DEF fence_publisher
    <3>2. /\ \A i \in DOMAIN records : Staled(records[i]).currentness # "Current"
          /\ \A c \in DOMAIN clusters : Staled(clusters[c]).currentness # "Current"
      BY StaledType DEF TypeOK
    <3> QED BY <2>1, <3>1, <3>2 DEF StaledByFence, FencedStructureNotCurrent
  <2> QED BY <2>3, <2>4
<1>6. CASE InvalidateAuthority /\ RegistryKept
  BY <1>0, <1>6, <1>a, InvalidateStutters DEF Contract!contractVars
<1>7. CASE Restart /\ RegistryKept
  BY <1>0, <1>7, <1>a, RestoreAdvances DEF Restart, Contract!NewEpoch
<1>8. CASE UNCHANGED gateVars /\ NothingWritten
  BY <1>8, <1>a, NothingKeeps DEF gateVars, FencedKeys
<1>9. ASSUME NEW ctx \in PublicationContext, check_authority(ctx), finish(ctx),
             coordinator_epoch' = coordinator_epoch, NothingWritten
      PROVE  FencedStructureNotCurrent'
  BY <1>1, <1>9, <1>a, NothingKeeps
<1> QED BY <1>2, <1>3, <1>4, <1>5, <1>6, <1>7, <1>8, <1>9, StepForms

(* For every number of identities: a federation, site, domain or cluster    *)
(* record that fence_publisher leaves current was written by an identity    *)
(* that is not fenced, whatever publication raced the fence.                *)
THEOREM FencedNotCurrent == Spec => []FencedStructureNotCurrent
<1>1. Init => FencedStructureNotCurrent
  BY DEF Init, FencedStructureNotCurrent
<1>2. TypeOK /\ StampsBelowWatermark /\ FencedStructureNotCurrent /\ [Next]_vars
        => FencedStructureNotCurrent'
  BY StepFenced
<1> QED BY <1>1, <1>2, TypeCorrect, StampsCovered, PTL DEF Spec

(* CurrentOnlyThisEpoch, map by map.                                        *)
LEMMA CurrentByMap ==
  CurrentOnlyThisEpoch <=>
    /\ \A i \in DOMAIN records :
         records[i].currentness = "Current" => records[i].stamp.epoch = coordinator_epoch
    /\ \A c \in DOMAIN clusters :
         clusters[c].currentness = "Current" => clusters[c].stamp.epoch = coordinator_epoch
BY DEF CurrentOnlyThisEpoch, Stored

(* Each step leaves current only what this epoch has published.             *)
LEMMA StepThisEpoch ==
  ASSUME TypeOK, CurrentOnlyThisEpoch, [Next]_vars
  PROVE  CurrentOnlyThisEpoch'
<1>0. GateTypeOK
  BY DEF TypeOK
<1>s. SUFFICES
        /\ \A i \in DOMAIN records' :
             records'[i].currentness = "Current" => records'[i].stamp.epoch = coordinator_epoch'
        /\ \A c \in DOMAIN clusters' :
             clusters'[c].currentness = "Current" => clusters'[c].stamp.epoch = coordinator_epoch'
  BY DEF CurrentOnlyThisEpoch, Stored
<1>1. CASE RegistryKept /\ coordinator_epoch' = coordinator_epoch
  BY <1>1, CurrentByMap DEF RegistryKept
<1>2. ASSUME NEW ctx \in PublicationContext, check_authority(ctx), finish(ctx),
             coordinator_epoch' = coordinator_epoch,
             NEW i \in Items, NEW pub \in Published, RecordWritten(ctx, i, pub)
      PROVE  CurrentOnlyThisEpoch'
  <2>1. /\ DOMAIN records' = DOMAIN records \cup {i}
        /\ records'[i].stamp = stamp_for(ctx)
        /\ \A j \in DOMAIN records : j # i => records'[j] = records[j]
        /\ clusters' = clusters
    BY <1>2, RecordEntries
  <2>2. stamp_for(ctx).epoch = coordinator_epoch
    BY <1>0, <1>2, StampType
  <2> QED BY <1>2, <2>1, <2>2, CurrentByMap DEF CurrentOnlyThisEpoch, Stored
<1>3. ASSUME NEW ctx \in PublicationContext, check_authority(ctx), finish(ctx),
             coordinator_epoch' = coordinator_epoch,
             NEW c \in Clusters, NEW r, ClusterWritten(ctx, c, r)
      PROVE  CurrentOnlyThisEpoch'
  <2>1. /\ DOMAIN clusters' = DOMAIN clusters \cup {c}
        /\ clusters'[c].stamp = stamp_for(ctx)
        /\ \A d \in DOMAIN clusters : d # c => clusters'[d] = clusters[d]
        /\ records' = records
    BY <1>3, ClusterEntries
  <2>2. stamp_for(ctx).epoch = coordinator_epoch
    BY <1>0, <1>3, StampType
  <2> QED BY <1>3, <2>1, <2>2, CurrentByMap DEF CurrentOnlyThisEpoch, Stored
<1>4. CASE Restart
  BY <1>4, RestartKeeps DEF RegistryKept
<1>5. ASSUME \/ \E ctx \in PublicationContext : register_publisher(ctx)
             \/ \E k \in Keys : fence_publisher(k)
             \/ InvalidateAuthority
             \/ UNCHANGED gateVars
      PROVE  coordinator_epoch' = coordinator_epoch
  BY <1>5 DEF register_publisher, ReRegister, RegisterNew, fence_publisher, FenceKnown,
              FenceUnknown, InvalidateAuthority, gateVars
<1> QED BY <1>1, <1>2, <1>3, <1>4, <1>5, StepForms, NothingKeeps DEF CurrentOnlyThisEpoch, Stored

(* After any number of restarts, and through late publications of earlier   *)
(* epochs: whatever the registry calls current was stamped in the epoch     *)
(* that the coordinator is in.                                              *)
THEOREM CurrentIsThisEpoch == Spec => []CurrentOnlyThisEpoch
<1>1. Init => CurrentOnlyThisEpoch
  BY DEF Init, CurrentOnlyThisEpoch, Stored
<1>2. TypeOK /\ CurrentOnlyThisEpoch /\ [Next]_vars => CurrentOnlyThisEpoch'
  BY StepThisEpoch
<1> QED BY <1>1, <1>2, TypeCorrect, PTL DEF Spec

-----------------------------------------------------------------------------
(* The number of an admitted publication that is not a duplicate is above   *)
(* every stamp of its identity: it is not below the watermark, and equal to *)
(* it only when both are unset, which the gate refuses.                     *)
LEMMA FreshNumber ==
  ASSUME GateTypeOK, NEW ctx \in PublicationContext, check_authority(ctx),
         ~duplicate_sequence(ctx), NEW stamp \in ObservationStamp, StampCovered(stamp),
         stamp.key = ctx.key
  PROVE  stamp.sequence # ctx.sequence
<1>1. /\ ctx.sequence \in Sequence /\ stamp.sequence \in Sequence
      /\ publishers[ctx.key].watermark \in Sequence
  BY DEF PublicationContext, ObservationStamp, check_authority, Known, GateTypeOK,
         PublisherAuthority
<1> QED BY <1>1, GateAssumption
    DEF check_authority, ValidContext, duplicate_sequence, StampCovered, Sequence

(* Each step keeps the stamps of structural records apart.                  *)
LEMMA StepUnique ==
  ASSUME TypeOK, StampsBelowWatermark, StructuralStampsUnique, [Next]_vars
  PROVE  StructuralStampsUnique'
<1>0. GateTypeOK
  BY DEF TypeOK
<1>1. CASE RegistryKept
  BY <1>1 DEF RegistryKept, StructuralStampsUnique
<1>2. ASSUME NEW ctx \in PublicationContext, check_authority(ctx), finish(ctx),
             coordinator_epoch' = coordinator_epoch,
             NEW i \in Items, NEW pub \in Published, RecordWritten(ctx, i, pub)
      PROVE  StructuralStampsUnique'
  <2>1. /\ DOMAIN records' = DOMAIN records \cup {i}
        /\ records'[i].stamp = stamp_for(ctx)
        /\ \A j \in DOMAIN records : j # i => records'[j] = records[j]
    BY <1>2, RecordEntries
  <2>2. stamp_for(ctx).key = ctx.key /\ stamp_for(ctx).sequence = ctx.sequence
    BY <1>0, <1>2, StampType
  <2>3. \A j \in DOMAIN records : records[j].stamp \in ObservationStamp
                                  /\ StampCovered(records[j].stamp)
    BY StampsByMap DEF TypeOK, StoredRecord
  <2>4. \A j \in DOMAIN records :
          records[j].stamp.key = ctx.key => records[j].stamp.sequence # ctx.sequence
    BY <1>0, <1>2, <2>3, FreshNumber DEF RecordWritten
  <2> QED BY <2>1, <2>2, <2>4 DEF StructuralStampsUnique
<1>3. ASSUME NEW ctx \in PublicationContext,
             NEW c \in Clusters, NEW r, ClusterWritten(ctx, c, r)
      PROVE  StructuralStampsUnique'
  BY <1>3 DEF ClusterWritten, StructuralStampsUnique
<1> QED BY <1>1, <1>2, <1>3, StepForms, NothingKeeps

(* Two structural records never come from one sequence number of one        *)
(* identity: a frame delivered twice, with or without other content, is     *)
(* stored once.  The invariant it rests on is StampsBelowWatermark.         *)
THEOREM StampsUnique == Spec => []StructuralStampsUnique
<1>1. Init => StructuralStampsUnique
  BY DEF Init, StructuralStampsUnique
<1>2. TypeOK /\ StampsBelowWatermark /\ StructuralStampsUnique /\ [Next]_vars
        => StructuralStampsUnique'
  BY StepUnique
<1> QED BY <1>1, <1>2, TypeCorrect, StampsCovered, PTL DEF Spec

-----------------------------------------------------------------------------
(* What the count of a map needs besides its bound: the maps are finite.    *)
RegistryFinite == IsFiniteSet(DOMAIN records) /\ IsFiniteSet(DOMAIN clusters)

(* A bounded finite set takes one element more while it is below its bound. *)
LEMMA RoomForOne ==
  ASSUME NEW S, IsFiniteSet(S), NEW x, NEW n \in Nat, Cardinality(S) <= n,
         x \notin S => Cardinality(S) < n
  PROVE  Cardinality(S \cup {x}) <= n /\ IsFiniteSet(S \cup {x})
<1>1. Cardinality(S) \in Nat
  BY FS_CardinalityType
<1>2. IsFiniteSet(S \cup {x})
      /\ Cardinality(S \cup {x}) = IF x \in S THEN Cardinality(S) ELSE Cardinality(S) + 1
  BY FS_AddElement
<1> QED BY <1>1, <1>2

(* Storing one record keeps the counts within their bounds.                 *)
LEMMA RecordCounts ==
  ASSUME TypeOK, RegistryFinite, CountsWithinBounds,
         NEW ctx \in PublicationContext, check_authority(ctx),
         NEW i \in Items, NEW pub \in Published, RecordWritten(ctx, i, pub)
  PROVE  RegistryFinite' /\ CountsWithinBounds'
<1>1. DOMAIN records' = DOMAIN records \cup {i} /\ clusters' = clusters
  BY RecordEntries
<1>2. IsFiniteSet(DOMAIN records')
  BY <1>1, FS_AddElement DEF RegistryFinite
<1>3. ASSUME NEW kind \in RecordKinds PROVE Cardinality(OfKind(kind)') <= Limit[kind]
  <2>1. /\ IsFiniteSet(OfKind(kind)) /\ Limit[kind] \in Nat
        /\ Cardinality(OfKind(kind)) <= Limit[kind]
    BY FS_Subset, ObservatoryAssumption DEF OfKind, RegistryFinite, CountsWithinBounds
  <2>2. CASE kind = Kind[i]
    <3>1. OfKind(kind)' = OfKind(kind) \cup {i}
      BY <1>1, <2>2 DEF OfKind
    <3>2. i \notin OfKind(kind) => Cardinality(OfKind(kind)) < Limit[kind]
      BY <2>2 DEF RecordWritten, OfKind
    <3> QED BY <2>1, <3>1, <3>2, RoomForOne
  <2>3. CASE kind # Kind[i]
    <3>1. OfKind(kind)' = OfKind(kind)
      BY <1>1, <2>3 DEF OfKind
    <3> QED BY <2>1, <3>1
  <2> QED BY <2>2, <2>3
<1>4. \A kind \in RecordKinds : Cardinality(OfKind(kind)') <= Limit[kind]
  BY <1>3
<1> QED BY <1>1, <1>2, <1>4 DEF RegistryFinite, CountsWithinBounds

(* Storing one cluster record keeps the counts within their bounds.         *)
LEMMA ClusterCounts ==
  ASSUME TypeOK, RegistryFinite, CountsWithinBounds, NEW ctx \in PublicationContext,
         NEW c \in Clusters, NEW r, ClusterWritten(ctx, c, r)
  PROVE  RegistryFinite' /\ CountsWithinBounds'
<1>1. DOMAIN clusters' = DOMAIN clusters \cup {c} /\ records' = records
  BY ClusterEntries
<1>2. Limit["cluster"] \in Nat
  BY ObservatoryAssumption
<1>3. c \notin DOMAIN clusters => Cardinality(DOMAIN clusters) < Limit["cluster"]
  BY DEF ClusterWritten
<1>4. Cardinality(DOMAIN clusters') <= Limit["cluster"] /\ IsFiniteSet(DOMAIN clusters')
  BY <1>1, <1>2, <1>3, RoomForOne DEF RegistryFinite, CountsWithinBounds
<1> QED BY <1>1, <1>4 DEF RegistryFinite, CountsWithinBounds, OfKind

(* A step that keeps the registry keeps its counts and what resolves.       *)
LEMMA KeptSavable ==
  ASSUME TypeOK, RegistryFinite, RegistrySavable, RegistryKept
  PROVE  RegistryFinite' /\ RegistrySavable'
<1>1. DOMAIN records' = DOMAIN records /\ DOMAIN clusters' = DOMAIN clusters
      /\ Registered' = Registered
  BY DEF RegistryKept, Registered
<1>2. RegistryFinite' /\ CountsWithinBounds'
  BY <1>1 DEF RegistryFinite, RegistrySavable, CountsWithinBounds, OfKind
<1>3. ReferencesResolve'
  BY <1>1 DEF RegistrySavable, ReferencesResolve, RegistryKept
<1> QED BY <1>2, <1>3 DEF RegistrySavable

(* Each step keeps the registry within what save_state accepts.             *)
LEMMA StepSavable ==
  ASSUME TypeOK, RegistryFinite, RegistrySavable, [Next]_vars
  PROVE  RegistryFinite' /\ RegistrySavable'
<1>1. ASSUME NEW ctx \in PublicationContext, check_authority(ctx),
             NEW i \in Items, NEW pub \in Published, RecordWritten(ctx, i, pub)
      PROVE  RegistryFinite' /\ RegistrySavable'
  <2>1. RegistryFinite' /\ CountsWithinBounds'
    BY <1>1, RecordCounts DEF RegistrySavable
  <2>2. /\ DOMAIN records' = DOMAIN records \cup {i} /\ records'[i].pub = pub
        /\ \A j \in DOMAIN records : j # i => records'[j] = records[j]
        /\ clusters' = clusters
    BY <1>1, RecordEntries
  <2>3. Registered \subseteq Registered' /\ References[<<i, pub.content>>] \subseteq Registered
    BY <1>1, <2>2 DEF Registered, RecordWritten
  <2>4. ReferencesResolve'
    BY <2>2, <2>3 DEF RegistrySavable, ReferencesResolve
  <2> QED BY <2>1, <2>4 DEF RegistrySavable
<1>2. ASSUME NEW ctx \in PublicationContext,
             NEW c \in Clusters, NEW r, ClusterWritten(ctx, c, r)
      PROVE  RegistryFinite' /\ RegistrySavable'
  <2>1. RegistryFinite' /\ CountsWithinBounds'
    BY <1>2, ClusterCounts DEF RegistrySavable
  <2>2. /\ DOMAIN clusters' = DOMAIN clusters \cup {c} /\ clusters'[c] = r
        /\ \A d \in DOMAIN clusters : d # c => clusters'[d] = clusters[d]
        /\ records' = records
    BY <1>2, ClusterEntries
  <2>3. Registered \subseteq Registered'
    BY <2>2 DEF Registered
  <2>4. References[<<c, r.pub.content>>] \subseteq Registered
    BY <1>2 DEF ClusterWritten, RegistrySavable, ReferencesResolve
  <2>5. ReferencesResolve'
    BY <2>2, <2>3, <2>4 DEF RegistrySavable, ReferencesResolve
  <2> QED BY <2>1, <2>5 DEF RegistrySavable
<1> QED BY <1>1, <1>2, KeptSavable, StepForms, NothingKeeps

(* For every configured bound and every way records may name each other:    *)
(* the registry can be saved at every moment.  Inductive with RegistryFinite,*)
(* because nothing is ever removed from the registry.                       *)
THEOREM AlwaysSavable == Spec => []RegistrySavable
<1>1. Init => RegistryFinite /\ RegistrySavable
  <2> SUFFICES ASSUME Init PROVE RegistryFinite /\ RegistrySavable
    OBVIOUS
  <2>1. DOMAIN records = {} /\ DOMAIN clusters = {}
    BY DEF Init
  <2>2. \A kind \in RecordKinds : OfKind(kind) = {}
    BY <2>1 DEF OfKind
  <2>3. IsFiniteSet({}) /\ Cardinality({}) = 0
    BY FS_EmptySet
  <2>4. Limit["cluster"] \in Nat /\ \A kind \in RecordKinds : Limit[kind] \in Nat
    BY ObservatoryAssumption
  <2>5. CountsWithinBounds
    <3>1. ASSUME NEW kind \in RecordKinds PROVE Cardinality(OfKind(kind)) <= Limit[kind]
      <4>1. Cardinality(OfKind(kind)) = 0 /\ Limit[kind] \in Nat
        BY <2>2, <2>3, <2>4
      <4> QED BY <4>1
    <3>2. Cardinality(DOMAIN clusters) <= Limit["cluster"]
      BY <2>1, <2>3, <2>4
    <3> QED BY <3>1, <3>2 DEF CountsWithinBounds
  <2> QED BY <2>1, <2>3, <2>5 DEF RegistryFinite, RegistrySavable, ReferencesResolve
<1>2. TypeOK /\ RegistryFinite /\ RegistrySavable /\ [Next]_vars
        => RegistryFinite' /\ RegistrySavable'
  BY StepSavable
<1> QED BY <1>1, <1>2, TypeCorrect, PTL DEF Spec

-----------------------------------------------------------------------------
(* Late or repeated evidence, whoever sends it, never takes a cluster or a  *)
(* structural record back to an older generation; nor does a retirement, an *)
(* invalidation or a restart.                                               *)
THEOREM GenerationsAdvance == Spec => GenerationNeverRegresses
<1>1. ASSUME TypeOK, [Next]_vars PROVE GenerationsNotOlder
  <2>t. /\ \A i \in DOMAIN records : GenerationOf(i, records[i].pub) \in Nat
        /\ \A c \in DOMAIN clusters : clusters[c].pub.generation \in Nat
    BY <1>1, ObservatoryAssumption
    DEF TypeOK, StoredRecord, StoredCluster, Published, ClusterPublished, Generation, GenerationOf
  <2>1. CASE RegistryKept
    BY <2>1, <2>t DEF RegistryKept, GenerationsNotOlder
  <2>2. ASSUME NEW ctx \in PublicationContext, check_authority(ctx),
               NEW i \in Items, NEW pub \in Published, RecordWritten(ctx, i, pub)
        PROVE  GenerationsNotOlder
    <3>1. /\ records'[i].pub = pub /\ clusters' = clusters
          /\ \A j \in DOMAIN records : j # i => records'[j] = records[j]
      BY <1>1, <2>2, RecordEntries
    <3>2. i \in DOMAIN records => GenerationOf(i, pub) >= GenerationOf(i, records[i].pub)
      BY <2>2 DEF RecordWritten
    <3> QED BY <2>t, <3>1, <3>2 DEF GenerationsNotOlder
  <2>3. ASSUME NEW ctx \in PublicationContext,
               NEW c \in Clusters, NEW r, ClusterWritten(ctx, c, r)
        PROVE  GenerationsNotOlder
    <3>1. /\ clusters'[c] = r /\ records' = records
          /\ \A d \in DOMAIN clusters : d # c => clusters'[d] = clusters[d]
      BY <1>1, <2>3, ClusterEntries
    <3>2. c \in DOMAIN clusters => r.pub.generation >= clusters[c].pub.generation
      BY <2>3 DEF ClusterWritten
    <3> QED BY <2>t, <3>1, <3>2 DEF GenerationsNotOlder
  <2> QED BY <1>1, <2>1, <2>2, <2>3, StepForms, NothingKeeps
<1> QED BY <1>1, TypeCorrect, PTL DEF Spec, GenerationNeverRegresses

(* Once a cluster is retired no evidence, however late, makes it anything   *)
(* else: only a registration of the cluster does, and not at an older       *)
(* generation.                                                              *)
THEOREM RetiredStaysRetired == Spec => RetiredOnlyReregistered
<1>1. ASSUME TypeOK, [Next]_vars PROVE BroughtBackByRegistration
  <2>1. CASE RegistryKept
    BY <2>1 DEF RegistryKept, BroughtBackByRegistration
  <2>2. ASSUME clusters' = clusters PROVE BroughtBackByRegistration
    BY <2>2 DEF BroughtBackByRegistration
  <2>3. ASSUME NEW ctx \in PublicationContext,
               NEW c \in Clusters, NEW r, ClusterWritten(ctx, c, r)
        PROVE  BroughtBackByRegistration
    <3>1. /\ clusters'[c] = r
          /\ \A d \in DOMAIN clusters : d # c => clusters'[d] = clusters[d]
      BY <1>1, <2>3, ClusterEntries
    <3>2. c \in DOMAIN clusters /\ clusters[c].currentness = "Retired" /\ r.currentness # "Retired"
            => \E pub \in ClusterRecords :
                 /\ r.pub \in {pub, NewIncarnation(pub)}
                 /\ pub.generation >= clusters[c].pub.generation
      BY <2>3 DEF ClusterWritten
    <3> QED BY <3>1, <3>2 DEF BroughtBackByRegistration
  <2> QED BY <1>1, <2>1, <2>2, <2>3, StepForms, NothingKeeps DEF RecordWritten
<1> QED BY <1>1, TypeCorrect, PTL DEF Spec, RetiredOnlyReregistered
=============================================================================
