------------------------------ MODULE Analyses ------------------------------
(***************************************************************************)
(* The questions put to the observatory while its records change: each is  *)
(* answered from a snapshot (build_snapshot of observatory.cpp) by the     *)
(* analyses of Compatibility, Portability and Stranding.                   *)
(*                                                                         *)
(* The records change by publications that the observatory accepts, which  *)
(* are Observatory's matter, and by a restart.  Identifiers are numbers in *)
(* their order.  Of the records only the fields that an analysis reads are *)
(* kept, and of the collections those that it looks into.                  *)
(***************************************************************************)
EXTENDS Stranding, Portability

CONSTANTS
  Registered,   \* the records at the start
  Changes,      \* publications, a sequence of [kind, ids, field, values]: one field of
                \* one of the records is replaced
  Losses,       \* those after which something is no longer said
  MaxChanges    \* bound of the model: publications in a behaviour

(* The fields of the records of each kind that an analysis reads            *)
FieldsOf ==
  [sites |-> {}, domains |-> {},
   clusters |-> {"site", "domain", "currentness", "readiness", "accelerator_classes",
                 "runtimes", "capabilities", "pools"},
   accelerator_classes |-> {"architecture", "compute_capability", "memory", "capabilities"},
   runtimes |-> {"kind", "abi", "driver_abi", "generation", "capabilities"},
   policies |-> {"denied_sites", "allowed_sites", "denied_clusters", "allowed_clusters"},
   artifacts |-> {"kind", "target_architectures", "minimum_compute_capability", "format",
                  "kernel_format", "state_format", "compiler_target", "runtime_abi",
                  "driver_abi"},
   workloads |-> {"workload_class", "artifact", "policy", "memory", "required_accelerators",
                  "acceptable", "requirements", "isolation_requirement",
                  "required_domain_kind"},
   placements |-> {"workload", "selected", "currentness", "observed_at"}]

(* What the record's type, its validate and the registration let through of *)
(* a field: an enumerator of its type, an amount that is not negative, at   *)
(* least one accelerator, a text, finitely many pools, and in a cluster     *)
(* only runtimes that are registered                                        *)
Valid(kind, field, value) ==
  /\ kind = "clusters" /\ field = "currentness" => value \in Currentness
  /\ kind = "clusters" /\ field = "runtimes" => value \in Seq(DOMAIN Registered.runtimes)
  /\ kind = "clusters" /\ field = "pools" =>
       IsFiniteSet(DOMAIN value) /\ \A n \in DOMAIN value : value[n].idle \in Nat
  /\ kind = "accelerator_classes" /\ field = "memory" => value \in Nat
  /\ kind = "artifacts" /\ field \in {"runtime_abi", "driver_abi"} => value \in Seq(Nat)
  /\ kind = "workloads" /\ field = "memory" => value \in Nat
  /\ kind = "workloads" /\ field = "required_accelerators" => value \in Nat \ {0}
  /\ kind = "workloads" /\ field = "requirements" =>
       \A req \in value : req.comparator \in Comparators

(* What is ever said of a field of the records of a kind                    *)
SaidBy(publications, kind, field) ==
  UNION {publications[n].values : n \in {m \in DOMAIN publications :
           publications[m].kind = kind /\ publications[m].field = field}}
Said(kind, field) ==
  {Registered[kind][i][field] : i \in DOMAIN Registered[kind]}
  \cup SaidBy(Changes, kind, field) \cup SaidBy(Losses, kind, field)

Workload ==
  LET Of(field) == Said("workloads", field)
  IN [workload_class: Of("workload_class"), artifact: Of("artifact"), policy: Of("policy"),
      memory: Of("memory"), required_accelerators: Of("required_accelerators"),
      acceptable: Of("acceptable"), requirements: Of("requirements"),
      isolation_requirement: Of("isolation_requirement"),
      required_domain_kind: Of("required_domain_kind")]

IsMap(f) == f = [i \in DOMAIN f |-> f[i]]
WellFormed(all) ==
  /\ DOMAIN all = DOMAIN FieldsOf
  /\ \A w \in DOMAIN all.workloads : all.workloads[w] \in Workload
  /\ \A kind \in DOMAIN FieldsOf :
       /\ DOMAIN all[kind] = DOMAIN Registered[kind]
       /\ IsMap(all[kind])
       /\ \A i \in DOMAIN all[kind] :
            /\ DOMAIN all[kind][i] = FieldsOf[kind]
            /\ \A field \in FieldsOf[kind] : Valid(kind, field, all[kind][i][field])

(* The records, as the pairs of a kind and an identifier                    *)
RecordsIn(all) == UNION {{kind} \X DOMAIN all[kind] : kind \in DOMAIN all}

ValidChange(change) ==
  /\ change.kind \in DOMAIN FieldsOf
  /\ change.field \in FieldsOf[change.kind]
  /\ \A v \in change.values : Valid(change.kind, change.field, v)

ASSUME RecordsAssumption ==
  /\ WellFormed(Registered)
  /\ DOMAIN Registered.workloads \subseteq Nat
  /\ IsFiniteSet(RecordsIn(Registered))
  /\ Nothing \notin Workload
  /\ \A n \in DOMAIN Changes : ValidChange(Changes[n])
  /\ \A n \in DOMAIN Losses : ValidChange(Losses[n])

VARIABLES
  records,      \* the observatory's maps, by kind
  changed       \* how many publications there were

vars == <<records, changed>>

-----------------------------------------------------------------------------
(* Mutant of AppendOrder: workloads are taken before what they refer to.    *)
AppendOrderWorkloadsFirst ==
  <<"sites", "clusters", "workloads", "accelerator_classes", "runtimes", "domains",
    "policies", "artifacts", "placements">>

(* The order in which build_snapshot takes the maps                         *)
AppendOrder ==
  <<"sites", "clusters", "accelerator_classes", "runtimes", "domains", "policies",
    "artifacts", "workloads", "placements">>

(* The records that are taken before one                                    *)
Place(kind) == CHOOSE n \in DOMAIN AppendOrder : AppendOrder[n] = kind
Earlier(all, kind, i) ==
  {e \in RecordsIn(all) : Place(e[1]) < Place(kind) \/ (e[1] = kind /\ e[2] < i)}

(* A snapshot whose bound allows for max records: the record that goes over *)
(* the bound is still taken, and then no more.                              *)
build_snapshot(all, max) ==
  [kind \in DOMAIN all |->
     [i \in {j \in DOMAIN all[kind] : Cardinality(Earlier(all, kind, j)) <= max} |-> all[kind][i]]]

-----------------------------------------------------------------------------
(* The accelerator class an assessment is about: the workload's first       *)
(* choice, whether the cluster has it or not, else the cluster's first.     *)
target_class(snapshot, cluster, workload) ==
  LET chosen == IF workload.acceptable = <<>> THEN Nothing
                ELSE Find(snapshot.accelerator_classes, Head(workload.acceptable))
  IN IF chosen # Nothing THEN chosen
     ELSE FirstFound(snapshot.accelerator_classes, cluster.accelerator_classes)

first_runtime(snapshot, cluster) ==
  IF cluster.runtimes = <<>> THEN Nothing ELSE Find(snapshot.runtimes, Head(cluster.runtimes))

(* collect_assessment_inputs, for a cluster and a workload in the snapshot  *)
collect_assessment_inputs(snapshot, c, w) ==
  LET cluster == snapshot.clusters[c]
      workload == snapshot.workloads[w]
      class == target_class(snapshot, cluster, workload)
      runtime == first_runtime(snapshot, cluster)
  IN [cluster_id |-> c, cluster |-> cluster, workload |-> workload,
      artifact |-> Find(snapshot.artifacts, workload.artifact),
      policy |-> Find(snapshot.policies, workload.policy), class |-> class,
      runtime |-> runtime,
      capabilities |-> merge_capabilities(cluster.capabilities,
        IF class = Nothing THEN <<>> ELSE class.capabilities,
        IF runtime = Nothing THEN <<>> ELSE runtime.capabilities)]

(* The cluster a workload is on: that of its current placement observed     *)
(* last, and of those the last by identifier                                *)
source_placement(placements, w) ==
  LET on == {p \in DOMAIN placements : /\ placements[p].workload = w
                                       /\ placements[p].currentness = "Current"}
      At(p) == placements[p].observed_at
      latest == CHOOSE p \in on : \A q \in on : At(q) < At(p) \/ (At(q) = At(p) /\ q <= p)
  IN IF on = {} THEN Nothing ELSE placements[latest]
source_cluster(snapshot, w) ==
  LET placement == source_placement(snapshot.placements, w)
  IN IF placement = Nothing THEN Nothing ELSE Find(snapshot.clusters, placement.selected)

(* portability_inputs_for: the runtime the workload is on, beside the       *)
(* inputs for the destination                                               *)
source_runtime_for(snapshot, w) ==
  LET source == source_cluster(snapshot, w)
  IN IF source = Nothing THEN Nothing ELSE first_runtime(snapshot, source)

(* FederationObservatory::compatibility, evaluate_portability               *)
compatibility(snapshot, c, w) == assess_compatibility(collect_assessment_inputs(snapshot, c, w))
evaluate_portability(snapshot, w, c) ==
  assess_portability(source_runtime_for(snapshot, w), collect_assessment_inputs(snapshot, c, w))

-----------------------------------------------------------------------------
TypeOK == WellFormed(records) /\ changed \in Nat

Init == records = Registered /\ changed = 0

Publish(change) ==
  /\ changed < MaxChanges
  /\ \E i \in change.ids, v \in change.values :
       records' = [records EXCEPT ![change.kind][i][change.field] = v]
  /\ records' # records
  /\ changed' = changed + 1

(* A publication after which a capability is said by nobody                 *)
Without(set, key) == [k \in DOMAIN set \ {key} |-> set[k]]
Silent(map, key) == [i \in DOMAIN map |-> [map[i] EXCEPT !.capabilities = Without(@, key)]]
Silence(key) ==
  /\ changed < MaxChanges
  /\ records' = [records EXCEPT !.clusters = Silent(@, key), !.runtimes = Silent(@, key),
                                !.accelerator_classes = Silent(@, key)]
  /\ records' # records
  /\ changed' = changed + 1

(* The clusters come back without capacity and unvalidated, the placements  *)
(* as history.                                                              *)
Unvalidated(cluster) ==
  [cluster EXCEPT !.pools = <<>>, !.readiness = "Unknown",
     !.currentness = IF @ = "Retired" THEN "Retired" ELSE "RevalidationRequired"]
Restart ==
  /\ records' = [records EXCEPT
       !.clusters = [c \in DOMAIN @ |-> Unvalidated(@[c])],
       !.placements = [p \in DOMAIN @ |-> [@[p] EXCEPT !.currentness = "Stale"]]]
  /\ records' # records
  /\ UNCHANGED changed

PublishedKeys ==
  UNION {DOMAIN r.capabilities : r \in {records.clusters[c] : c \in DOMAIN records.clusters}
           \cup {records.runtimes[x] : x \in DOMAIN records.runtimes}
           \cup {records.accelerator_classes[a] : a \in DOMAIN records.accelerator_classes}}

Next ==
  \/ \E n \in DOMAIN Changes : Publish(Changes[n])
  \/ \E n \in DOMAIN Losses : Publish(Losses[n])
  \/ \E key \in PublishedKeys : Silence(key)
  \/ Restart

Spec == Init /\ [][Next]_vars

-----------------------------------------------------------------------------
Pairs == (DOMAIN records.clusters) \X (DOMAIN records.workloads)
Classes == {records.workloads[w].workload_class : w \in DOMAIN records.workloads}

FindingsOf(all) == UNION {findings(all, class, FALSE) : class \in Classes}
PoolsOf(fs) == {<<f.cluster, f.pool>> : f \in fs}
UsablePools(all) == PoolsOf({f \in FindingsOf(all) : f.judgements = {}})
StrandedPools(all) == PoolsOf({f \in FindingsOf(all) : ReasonsOf(f.judgements) # {}})

(* The capabilities of which a workload requires no more than presence or   *)
(* absence                                                                  *)
AskedForPresence ==
  {req.key : req \in {r \in UNION {records.workloads[w].requirements :
                                     w \in DOMAIN records.workloads} :
                        r.comparator \in {"Present", "Absent"}}}

(* A runtime contradicts neither a cluster nor the catalogue.               *)
RuntimesOverruleNothing ==
  \A below \in {records.clusters[c].capabilities : c \in DOMAIN records.clusters}
              \cup {records.accelerator_classes[a].capabilities :
                      a \in DOMAIN records.accelerator_classes} :
    \A r \in DOMAIN records.runtimes :
      LET said == records.runtimes[r].capabilities
      IN \A key \in DOMAIN below \cap DOMAIN said : below[key] \in {said[key], UnknownValue}

(* README.md:119: "absent evidence is never treated as evidence of          *)
(* absence". When something is no longer published, an answer of            *)
(* compatibility or of stranded_capacity may become open but never changes  *)
(* for the better or for the worse.  A capability whose mere presence or    *)
(* absence is required is excepted, where the code does conclude from       *)
(* silence, and so is the loss of word that overrules other word            *)
(* (analysis.cpp:23-26), which then counts again: that of a cluster's       *)
(* runtimes by name, and that of one publisher's capability because Silence *)
(* takes a key from the runtimes, the clusters and the catalogue at once.   *)
EvidenceLossOnlyUndecides ==
  [][\/ \E n \in DOMAIN Losses : /\ Losses[n].field = "runtimes" => RuntimesOverruleNothing
                                 /\ Publish(Losses[n])
     \/ \E key \in PublishedKeys \ AskedForPresence : Silence(key)
     => /\ \A p \in Pairs :
             LET before == compatibility(records, p[1], p[2]).overall
                 after == compatibility(records', p[1], p[2]).overall
             IN /\ is_compatible_family(after) => is_compatible_family(before)
                /\ is_hard_incompatible(after) => is_hard_incompatible(before)
        /\ UsablePools(records') \subseteq UsablePools(records)
        /\ StrandedPools(records') \subseteq StrandedPools(records)]_vars

(* The snapshots that a bound may leave, and the pairs that one knows       *)
Truncated == {build_snapshot(records, max) : max \in 0..Cardinality(RecordsIn(records))}
KnownPairs(cut) == {p \in Pairs : p[1] \in DOMAIN cut.clusters /\ p[2] \in DOMAIN cut.workloads}

(* observatory.cpp:1386-1470: a snapshot cut short by its bound may not     *)
(* know the workload that is asked about, but what it answers of one it     *)
(* knows is what the whole would answer.  Of the runtime that the workload  *)
(* is on it may know less, and then the answer is open; only where it still *)
(* holds an earlier placement, which nothing has made history, it may take  *)
(* that for the latest.                                                     *)
TruncationNeverMisleads ==
  \A cut \in Truncated : \A p \in KnownPairs(cut) :
    LET before == evaluate_portability(records, p[2], p[1])
        after == evaluate_portability(cut, p[2], p[1])
        class == records.workloads[p[2]].workload_class
    IN /\ compatibility(cut, p[1], p[2]) = compatibility(records, p[1], p[2])
       /\ \A d \in Dimensions \ {"RuntimeApi"} : after.dimensions[d] = before.dimensions[d]
       /\ source_placement(cut.placements, p[2])
            \in {source_placement(records.placements, p[2]), Nothing}
          => after.overall \in {before.overall, "Unknown"}
       /\ findings(cut, class, FALSE) = findings(records, class, FALSE)

(* compatibility.cpp:442-598, analysis.cpp:180-285: the two analyses read   *)
(* the same publications by different code and do not contradict each       *)
(* other.  A cluster that is found compatible has no pool of the assessed   *)
(* class stranded for a technical reason; the state format is looked at by  *)
(* one of them only.                                                        *)
CompatibleNotStranded ==
  \A p \in Pairs :
    LET workload == records.workloads[p[2]]
        class == target_class(records, records.clusters[p[1]], workload)
    IN /\ is_compatible_family(compatibility(records, p[1], p[2]).overall)
       /\ select_workload(records, workload.workload_class) = workload
       => \A f \in findings(records, workload.workload_class, FALSE) :
            /\ f.cluster = p[1]
            /\ Find(records.accelerator_classes, records.clusters[p[1]].pools[f.pool].class) = class
            => \A reason \in ReasonsOf(f.judgements) \ {"MissingLocalStorageState"} :
                 ~is_technical_reason(reason)

(* A policy is published, or the policy that a workload names.              *)
PolicyPublished ==
  \E n \in DOMAIN Changes : /\ Changes[n].kind = "policies" \/ Changes[n].field = "policy"
                            /\ Publish(Changes[n])

(* The verdict of compatibility, the dimensions of portability and the      *)
(* technical reasons and open questions of the pools stay what they were.   *)
Technical(f) == {j \in f.judgements : is_technical_reason(j)}
SameTechnicalAnswers ==
  /\ \A p \in Pairs :
       /\ compatibility(records, p[1], p[2]).overall = compatibility(records', p[1], p[2]).overall
       /\ evaluate_portability(records, p[2], p[1]).technically_blocked
            = evaluate_portability(records', p[2], p[1]).technically_blocked
       /\ evaluate_portability(records, p[2], p[1]).dimensions
            = evaluate_portability(records', p[2], p[1]).dimensions
  /\ {<<f.cluster, f.pool, Technical(f)>> : f \in FindingsOf(records)}
       = {<<f.cluster, f.pool, Technical(f)>> : f \in FindingsOf(records')}

(* README.md "Policy admissibility is tracked outside the verdict",         *)
(* portability.cpp:613-615: another policy changes no technical answer: not *)
(* the compatibility verdict, no dimension of portability and no technical  *)
(* reason or open question of a pool.                                       *)
PolicyKeptApart == [][PolicyPublished => SameTechnicalAnswers]_vars

(* compatibility.cpp:415, portability.cpp:566-609, analysis.cpp:482-488:    *)
(* whatever else is published of a cluster, the overall verdict on it is    *)
(* open when its evidence is not current, for and against alike, and none   *)
(* of its capacity is counted.  (A single dimension may still conclude:     *)
(* technically_blocked can be set for such a destination.)                  *)
ConclusionsNeedCurrentEvidence ==
  \A p \in Pairs : records.clusters[p[1]].currentness # "Current" =>
    /\ is_undecided(compatibility(records, p[1], p[2]).overall)
    /\ evaluate_portability(records, p[2], p[1]).overall = "Unknown"
    /\ \A f \in FindingsOf(records) : f.cluster # p[1]

PartitionedBy(report, finding, required) ==
  /\ report.idle = report.usable + report.unknown + SumFunction(report.by_reason)
  /\ <<finding.usable, finding.stranded, finding.unknown>>
       = <<report.usable, report.stranded, report.unknown>>
  /\ finding.classification = "CapacityShortage" <=> report.usable < required
  /\ finding.classification = "None" <=> finding.legal_domain_count > 0

(* capacity.hpp:155-173, README.md:188, 204: idle capacity is partitioned,  *)
(* every pool is in one placement domain, and fragmentation is reported     *)
(* only where the capacity is there and no domain has enough of it.         *)
CapacityPartitioned ==
  \A class \in Classes :
    PartitionedBy(analyze_stranded_capacity(records, class, FALSE),
                  analyze_fragmentation(records, class),
                  select_workload(records, class).required_accelerators)
=============================================================================
