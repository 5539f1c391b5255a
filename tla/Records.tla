------------------------------ MODULE Records -------------------------------
(***************************************************************************)
(* What every record must satisfy before it is stored, and after it is     *)
(* decoded: the validate functions of model.cpp, placement.cpp,            *)
(* migration.cpp, portability.cpp, snapshot.cpp and observatory.cpp.       *)
(*                                                                         *)
(* A text is abstracted to its length, so 0 is the empty text and an       *)
(* identifier longer than kMaxIdentifierLength is malformed; a generation  *)
(* of 0 is unset. The limits are those of bounds.hpp, scaled down.         *)
(***************************************************************************)
EXTENDS Capacity, MigrationStages, Sequences, FiniteSets, TLC

CONSTANTS
  kMaxIdentifierLength, kMaxStringFieldBytes, kMaxFrameBytes, kMaxBannerLength,
  kMaxEvidencePerFinding, kDefaultEvidencePerFinding,
  kMaxCapabilityEntriesPerPublication, kMaxValueSetEntries, kMaxArchitectures,
  kMaxPoolsPerCluster, kMaxClusterPerSite, kMaxCandidatesPerPlacement,
  kMaxStageEventsPerMigration, kPortabilityDimensionCount, kMaxDriftEntries, kCollectionLimit

Values(s) == {s[n] : n \in DOMAIN s}
has_duplicates(s) == Cardinality(Values(s)) # Len(s)
Distinct(r, fields) == \A f \in fields : ~has_duplicates(r[f])
Set(r, fields) == \A f \in fields : r[f] # 0

(* The enumerators of CapabilityKey by number: 0 is Unknown, CustomKey is   *)
(* Custom, and the numbers above the known ones name no capability.         *)
KnownKeys == {1, 2}
CustomKey == 9
valid_capability_key(n) == n \in KnownKeys \cup {CustomKey}

(* CapabilityRef::valid                                                     *)
RefOK(ref) == ref.key # 0 /\ (ref.key = CustomKey <=> ref.custom # 0)
KeysOK(s) == \A n \in DOMAIN s : RefOK(s[n].key)

FederationOK(r) ==
  /\ Set(r, {"id", "generation", "coordinator_epoch"})
  /\ Distinct(r, {"sites", "clusters", "accelerator_classes", "runtimes",
                  "workload_classes"})

SiteOK(r) ==
  /\ Set(r, {"id", "generation", "federation"})
  /\ Distinct(r, {"clusters", "policies"})
  /\ Len(r.clusters) <= kMaxClusterPerSite

AcceleratorClassOK(r) ==
  Set(r, {"id", "capability_generation"}) /\ KeysOK(r.capabilities)

RuntimeOK(r) == Set(r, {"id", "generation"})

BackendOK(r) == Set(r, {"id", "generation", "runtime"})

(* ResourceKind: Accelerator, Memory, Custom.                               *)
PoolOK(p) ==
  /\ p.pool_id # 0
  /\ LedgerOK(p.ledger)
  /\ p.kind = 0 => p.accelerator_class # 0
  /\ p.kind = 2 => p.custom_name # 0

ClusterOK(r) ==
  /\ Set(r, {"id", "generation", "epoch", "federation", "site"})
  /\ Distinct(r, {"accelerator_classes", "runtimes", "backends"})
  /\ Len(r.capacity_pools) <= kMaxPoolsPerCluster
  /\ \A n \in DOMAIN r.capacity_pools : PoolOK(r.capacity_pools[n])
  /\ ~has_duplicates([n \in DOMAIN r.capacity_pools |-> r.capacity_pools[n].pool_id])
  /\ KeysOK(r.capabilities)

(* DomainKind: Unknown, Cluster, Site, Federation.                          *)
DomainOK(r) ==
  /\ Set(r, {"id", "kind", "federation"})
  /\ r.kind = 2 => r.site # 0
  /\ r.clusters # <<>> /\ Distinct(r, {"clusters"})

ArtifactOK(r) ==
  /\ Set(r, {"id", "generation"})
  /\ Distinct(r, {"target_architectures"})
  /\ \A a \in Values(r.target_architectures) : a \in 1..64

WorkloadClassOK(r) == Set(r, {"id"})

WorkloadOK(r) ==
  /\ Set(r, {"id", "generation", "workload_class", "required_accelerators"})
  /\ Distinct(r, {"acceptable_accelerator_classes"})
  /\ KeysOK(r.requirements)
  /\ r.required_domain_kind = 0 => r.required_domain = 0
  /\ Len(r.requirements) <= kMaxCapabilityEntriesPerPublication

PolicyOK(r) ==
  /\ Set(r, {"id", "generation"})
  /\ Distinct(r, {"allowed_sites", "denied_sites", "allowed_clusters",
                  "denied_clusters"})
  /\ Values(r.allowed_sites) \cap Values(r.denied_sites) = {}
  /\ Values(r.allowed_clusters) \cap Values(r.denied_clusters) = {}

(* CandidateStatus: Selected, Rejected, NotConsidered, Unattributed;        *)
(* CandidateSetCompleteness: Unknown, SelectedOnly, Partial, Complete. Two  *)
(* selected candidates would name the same cluster.                         *)
PlacementOK(r) ==
  /\ Set(r, {"id", "generation", "workload", "workload_generation", "federation",
             "selected"})
  /\ Len(r.candidates) <= kMaxCandidatesPerPlacement
  /\ \A n \in DOMAIN r.candidates :
       LET c == r.candidates[n] IN
       /\ c.cluster # 0
       /\ c.status = 0 => c.cluster = r.selected
       /\ c.status = 1 => c.reasons # 0
  /\ ~has_duplicates([n \in DOMAIN r.candidates |-> r.candidates[n].cluster])
  /\ r.candidate_completeness = 1 =>
       Len(r.candidates) <= 1 /\ \A n \in DOMAIN r.candidates : r.candidates[n].status # 1

StageEventsOK(events, generation) ==
  \A n \in DOMAIN events :
    /\ events[n].generation \in 1..generation
    /\ n > 1 => /\ events[n].sequence > events[n - 1].sequence
                /\ is_acceptable_migration_event(StageNumbered(events[n - 1].stage),
                                                 StageNumbered(events[n].stage))

MigrationOK(r) ==
  /\ Set(r, {"id", "generation", "workload", "workload_generation", "federation",
             "source", "destination"})
  /\ r.source # r.destination
  /\ Len(r.stage_events) <= kMaxStageEventsPerMigration
  /\ StageEventsOK(r.stage_events, r.generation)
  /\ r.stage_events # <<>> => r.stage_events[Len(r.stage_events)].stage = r.stage
  /\ OutcomeNumbered(r.outcome) = OutcomeOf(StageNumbered(r.stage))
  /\ r.supersedes # r.id

PortabilityOK(r) ==
  /\ Set(r, {"workload", "workload_generation", "destination"})
  /\ Len(r.dimensions) <= kPortabilityDimensionCount
  /\ ~has_duplicates([n \in DOMAIN r.dimensions |-> r.dimensions[n].dimension])

(* PublicationContext::validate                                             *)
ContextOK(c) ==
  /\ Set(c, {"publisher", "boot", "coordinator_epoch", "federation", "sequence"})
  /\ {c.publisher, c.federation} \subseteq 1..kMaxIdentifierLength

(* IntendedFederationState::validate                                        *)
IntendedOK(r) ==
  /\ Set(r, {"intended_federation", "generation"})
  /\ Distinct(r, {"expected_sites", "expected_clusters"})
  /\ \A n \in DOMAIN r.expected_capabilities :
       r.expected_capabilities[n].cluster # 0 /\ RefOK(r.expected_capabilities[n].key)
  /\ \A n \in DOMAIN r.expected_runtime_versions :
       Set(r.expected_runtime_versions[n], {"cluster", "version"})
  /\ \A n \in DOMAIN r.expected_capacity :
       r.expected_capacity[n].cluster # 0 /\ LedgerOK(r.expected_capacity[n].ledger)
  /\ \A f \in {"expected_clusters", "expected_sites", "expected_capabilities"} :
       Len(r[f]) <= kMaxDriftEntries

=============================================================================
