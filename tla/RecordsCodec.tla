---------------------------- MODULE RecordsCodec ----------------------------
(***************************************************************************)
(* The encoding of every record (records_codec.cpp): encode_x and decode_x *)
(* list the fields of x in the order the two functions write and read them.*)
(***************************************************************************)
EXTENDS Codec

All(t, names) == [n \in DOMAIN names |-> [f |-> names[n], t |-> t]]
One(t, name) == All(t, <<name>>)

(* The types of the fields; a limit is the reader's.                        *)
Plain(k) == [k |-> k]
Id       == Plain("id")
Gen      == Plain("u64")
Str      == Plain("str")
Flag     == Plain("bool")
U32      == Plain("u32")
U64      == Plain("u64")
I64      == Plain("i64")
CapValue == Plain("value")
Enum           == [k |-> "enum", max |-> 255]
EnumTo(max)    == [k |-> "enum", max |-> max]
Texts(max)     == [k |-> "texts", max |-> max]
Rec(fields)    == [k |-> "rec", fields |-> fields, check |-> "none"]
Validated(fields, check) == [k |-> "rec", fields |-> fields, check |-> check]
ListOf(t, max) == [k |-> "list", of |-> t, max |-> max]
SortedBy(by, t) == [k |-> "sorted", of |-> t, by |-> by]
Evidence(t, max)     == [k |-> "evidence", of |-> t, max |-> max]
Capabilities(t, max) == [k |-> "capabilities", of |-> t, max |-> max]

(* enum_max                                                                 *)
Currentness == EnumTo(4)
Readiness == EnumTo(4)
RuntimeKind == EnumTo(8)
ArtifactKind == EnumTo(9)
DomainKind == EnumTo(3)
ResourceKind == EnumTo(2)
Tri == EnumTo(2)
Precision == EnumTo(6)
ReasonBasis == EnumTo(3)
EvidenceClass == EnumTo(3)
Provenance == EnumTo(16)
CapabilityComparator == EnumTo(7)
PortabilityDimension == EnumTo(10)
PortabilityOutcome == EnumTo(13)
MigrationStage == EnumTo(12)
MigrationOutcome == EnumTo(4)
CandidateStatus == EnumTo(3)
CandidateSetCompleteness == EnumTo(3)

(* enc_vector and dec_vector of identifiers                                 *)
SortedIds == SortedBy(<<>>, Id)
IdsRead == ListOf(Id, kCollectionLimit)

(* RejectionMask: one bit for each of kRejectionReasonCount reasons         *)
kRejectionReasonCount == 19
RejectionMask == [k |-> "mask", max |-> 2^kRejectionReasonCount]

-----------------------------------------------------------------------------
(* The parts of records.                                                    *)

encode_evidence ==
  All(Enum, <<"source", "evidence_class">>) \o One(Str, "source_id")
  \o One(Gen, "generation") \o One(Enum, "precision") \o One(Str, "detail")
decode_evidence ==
  One(Provenance, "source") \o One(EvidenceClass, "evidence_class")
  \o One(Str, "source_id") \o One(Gen, "generation") \o One(Precision, "precision")
  \o One(Str, "detail")

encode_evidence_list == Evidence(Rec(encode_evidence), 0)
decode_evidence_list == Evidence(Rec(decode_evidence), kDefaultEvidencePerFinding)

encode_capability_ref == One(Plain("u16"), "key") \o One(Id, "custom")
decode_capability_ref == Validated(One(Plain("key"), "key") \o One(Id, "custom"), "ref")

encode_capability_entry ==
  One(Rec(encode_capability_ref), "key") \o One(CapValue, "value")
  \o All(Enum, <<"precision", "evidence_class">>) \o One(Gen, "generation")
  \o One(Str, "note")
decode_capability_entry ==
  One(decode_capability_ref, "key") \o One(CapValue, "value")
  \o One(Precision, "precision") \o One(EvidenceClass, "evidence_class")
  \o One(Gen, "generation") \o One(Str, "note")

encode_capability_set == Capabilities(Rec(encode_capability_entry), 0)
decode_capability_set ==
  Capabilities(Rec(decode_capability_entry), kMaxCapabilityEntriesPerPublication)

encode_capability_requirement ==
  One(Rec(encode_capability_ref), "key") \o One(Enum, "comparator")
  \o One(CapValue, "value") \o One(Flag, "optional") \o One(Str, "rationale")
decode_capability_requirement ==
  One(decode_capability_ref, "key") \o One(CapabilityComparator, "comparator")
  \o One(CapValue, "value") \o One(Flag, "optional") \o One(Str, "rationale")

encode_stamp ==
  One(Id, "publisher")
  \o All(Gen, <<"publisher_boot", "coordinator_epoch", "evidence_generation", "sequence">>)
  \o One(I64, "observed_at") \o All(Enum, <<"precision", "evidence_class", "provenance">>)
decode_stamp ==
  One(Id, "publisher")
  \o All(Gen, <<"publisher_boot", "coordinator_epoch", "evidence_generation", "sequence">>)
  \o One(I64, "observed_at") \o One(Precision, "precision")
  \o One(EvidenceClass, "evidence_class") \o One(Provenance, "provenance")

(* currentness, stamp and evidence, which end most records                  *)
encode_observation ==
  One(Enum, "currentness") \o One(Rec(encode_stamp), "stamp")
  \o One(encode_evidence_list, "evidence")
decode_observation ==
  One(Currentness, "currentness") \o One(Rec(decode_stamp), "stamp")
  \o One(decode_evidence_list, "evidence")

Ledger == <<"nominal", "offline", "allocated", "reserved", "draining", "unusable", "idle">>
encode_ledger == All(U64, Ledger)
decode_ledger == Validated(All(U64, Ledger), "ledger")

encode_capacity_pool ==
  One(Id, "pool_id") \o One(Enum, "kind") \o One(Id, "accelerator_class")
  \o One(Str, "custom_name") \o One(Rec(encode_ledger), "ledger") \o One(Gen, "generation")
  \o All(Enum, <<"precision", "evidence_class">>) \o One(encode_evidence_list, "evidence")
decode_capacity_pool ==
  One(Id, "pool_id") \o One(ResourceKind, "kind") \o One(Id, "accelerator_class")
  \o One(Str, "custom_name") \o One(decode_ledger, "ledger") \o One(Gen, "generation")
  \o One(Precision, "precision") \o One(EvidenceClass, "evidence_class")
  \o One(decode_evidence_list, "evidence")

-----------------------------------------------------------------------------
(* The records.                                                             *)

encode_federation ==
  One(Id, "id") \o One(Gen, "generation") \o One(Str, "display_name")
  \o One(Gen, "coordinator_epoch")
  \o All(SortedIds, <<"sites", "clusters", "accelerator_classes", "runtimes",
                      "workload_classes">>)
  \o One(Id, "policy")
  \o All(Gen, <<"policy_generation", "compatibility_generation", "capacity_generation",
                "topology_generation", "evidence_generation">>)
  \o encode_observation
decode_federation ==
  One(Id, "id") \o One(Gen, "generation") \o One(Str, "display_name")
  \o One(Gen, "coordinator_epoch")
  \o All(IdsRead, <<"sites", "clusters", "accelerator_classes", "runtimes",
                    "workload_classes">>)
  \o One(Id, "policy")
  \o All(Gen, <<"policy_generation", "compatibility_generation", "capacity_generation",
                "topology_generation", "evidence_generation">>)
  \o decode_observation

encode_site ==
  One(Id, "id") \o One(Gen, "generation") \o One(Id, "federation")
  \o All(Str, <<"region", "zone", "failure_domain">>)
  \o All(SortedIds, <<"clusters", "policies">>) \o encode_observation
decode_site ==
  One(Id, "id") \o One(Gen, "generation") \o One(Id, "federation")
  \o All(Str, <<"region", "zone", "failure_domain">>)
  \o All(IdsRead, <<"clusters", "policies">>) \o decode_observation

encode_accelerator_class ==
  One(Id, "id") \o One(Gen, "capability_generation")
  \o All(Str, <<"vendor", "family", "model", "architecture", "compute_capability">>)
  \o One(U64, "memory_bytes_per_device") \o One(U32, "memory_bandwidth_gbps")
  \o One(encode_capability_set, "capabilities") \o encode_observation
decode_accelerator_class ==
  One(Id, "id") \o One(Gen, "capability_generation")
  \o All(Str, <<"vendor", "family", "model", "architecture", "compute_capability">>)
  \o One(U64, "memory_bytes_per_device") \o One(U32, "memory_bandwidth_gbps")
  \o One(decode_capability_set, "capabilities") \o decode_observation

encode_runtime ==
  One(Id, "id") \o One(Gen, "generation") \o One(Id, "backend")
  \o One(Gen, "backend_generation") \o One(Enum, "kind")
  \o All(Str, <<"version", "abi", "driver_version", "driver_abi", "compiler_version">>)
  \o One(encode_capability_set, "capabilities") \o encode_observation
decode_runtime ==
  One(Id, "id") \o One(Gen, "generation") \o One(Id, "backend")
  \o One(Gen, "backend_generation") \o One(RuntimeKind, "kind")
  \o All(Str, <<"version", "abi", "driver_version", "driver_abi", "compiler_version">>)
  \o One(decode_capability_set, "capabilities") \o decode_observation

encode_backend ==
  One(Id, "id") \o One(Gen, "generation") \o One(Id, "runtime")
  \o All(Str, <<"name", "version">>)
  \o One(encode_capability_set, "capabilities") \o encode_observation
decode_backend ==
  One(Id, "id") \o One(Gen, "generation") \o One(Id, "runtime")
  \o All(Str, <<"name", "version">>)
  \o One(decode_capability_set, "capabilities") \o decode_observation

encode_domain ==
  One(Id, "id") \o One(Enum, "kind") \o All(Id, <<"federation", "site">>)
  \o One(SortedIds, "clusters") \o One(Gen, "topology_generation") \o encode_observation
decode_domain ==
  One(Id, "id") \o One(DomainKind, "kind") \o All(Id, <<"federation", "site">>)
  \o One(IdsRead, "clusters") \o One(Gen, "topology_generation") \o decode_observation

encode_cluster ==
  One(Id, "id") \o All(Gen, <<"generation", "epoch">>)
  \o All(Id, <<"federation", "site", "domain">>) \o All(Str, <<"failure_domain", "zone">>)
  \o All(SortedIds, <<"accelerator_classes", "runtimes", "backends">>)
  \o One(SortedBy(<<"pool_id", "kind", "accelerator_class">>, Rec(encode_capacity_pool)),
         "capacity_pools")
  \o All(Gen, <<"topology_generation", "capability_generation", "capacity_generation",
                "runtime_generation", "compatibility_generation", "evidence_generation">>)
  \o One(Enum, "readiness") \o One(encode_capability_set, "capabilities")
  \o encode_observation
decode_cluster ==
  One(Id, "id") \o All(Gen, <<"generation", "epoch">>)
  \o All(Id, <<"federation", "site", "domain">>) \o All(Str, <<"failure_domain", "zone">>)
  \o All(IdsRead, <<"accelerator_classes", "runtimes", "backends">>)
  \o One(ListOf(Rec(decode_capacity_pool), kMaxPoolsPerCluster), "capacity_pools")
  \o All(Gen, <<"topology_generation", "capability_generation", "capacity_generation",
                "runtime_generation", "compatibility_generation", "evidence_generation">>)
  \o One(Readiness, "readiness") \o One(decode_capability_set, "capabilities")
  \o decode_observation

encode_policy ==
  One(Id, "id") \o One(Gen, "generation") \o One(Str, "name")
  \o All(SortedIds, <<"allowed_sites", "denied_sites", "allowed_clusters",
                      "denied_clusters">>)
  \o One(Enum, "allow_cross_site") \o All(Str, <<"data_residency", "isolation_requirement">>)
  \o One(encode_capability_set, "capabilities") \o encode_observation
decode_policy ==
  One(Id, "id") \o One(Gen, "generation") \o One(Str, "name")
  \o All(IdsRead, <<"allowed_sites", "denied_sites", "allowed_clusters",
                    "denied_clusters">>)
  \o One(Tri, "allow_cross_site") \o All(Str, <<"data_residency", "isolation_requirement">>)
  \o One(decode_capability_set, "capabilities") \o decode_observation

encode_artifact ==
  One(Id, "id") \o One(Gen, "generation") \o One(Enum, "kind")
  \o All(Str, <<"format", "kernel_format">>) \o One(Texts(0), "target_architectures")
  \o All(Str, <<"minimum_compute_capability", "runtime_abi", "driver_abi",
                "compiler_target", "state_format">>)
  \o All(U64, <<"size_bytes", "required_memory_bytes">>)
  \o One(encode_capability_set, "capabilities") \o encode_observation

(* Mutant of decode_artifact: two texts of the same width in the other order*)
decode_artifact_abis_swapped ==
  One(Id, "id") \o One(Gen, "generation") \o One(ArtifactKind, "kind")
  \o All(Str, <<"format", "kernel_format">>)
  \o One(Texts(kMaxArchitectures), "target_architectures")
  \o All(Str, <<"minimum_compute_capability", "driver_abi", "runtime_abi",
                "compiler_target", "state_format">>)
  \o All(U64, <<"size_bytes", "required_memory_bytes">>)
  \o One(decode_capability_set, "capabilities") \o decode_observation

decode_artifact ==
  One(Id, "id") \o One(Gen, "generation") \o One(ArtifactKind, "kind")
  \o All(Str, <<"format", "kernel_format">>)
  \o One(Texts(kMaxArchitectures), "target_architectures")
  \o All(Str, <<"minimum_compute_capability", "runtime_abi", "driver_abi",
                "compiler_target", "state_format">>)
  \o All(U64, <<"size_bytes", "required_memory_bytes">>)
  \o One(decode_capability_set, "capabilities") \o decode_observation

encode_workload_class ==
  One(Id, "id") \o One(Str, "display_name") \o One(Flag, "prefers_accelerators")
  \o encode_observation
decode_workload_class ==
  One(Id, "id") \o One(Str, "display_name") \o One(Flag, "prefers_accelerators")
  \o decode_observation

encode_workload ==
  One(Id, "id") \o One(Gen, "generation") \o All(Id, <<"workload_class", "artifact">>)
  \o One(Gen, "artifact_generation") \o One(U32, "required_accelerators")
  \o One(U64, "required_memory_bytes_per_accelerator")
  \o One(SortedIds, "acceptable_accelerator_classes")
  \o One(ListOf(Rec(encode_capability_requirement), 0), "requirements")
  \o One(Id, "policy") \o One(Gen, "policy_generation") \o One(Id, "required_domain")
  \o One(Enum, "required_domain_kind") \o One(Flag, "require_single_failure_domain")
  \o All(Str, <<"isolation_requirement", "portability_class">>) \o encode_observation
decode_workload ==
  One(Id, "id") \o One(Gen, "generation") \o All(Id, <<"workload_class", "artifact">>)
  \o One(Gen, "artifact_generation") \o One(U32, "required_accelerators")
  \o One(U64, "required_memory_bytes_per_accelerator")
  \o One(IdsRead, "acceptable_accelerator_classes")
  \o One(ListOf(Rec(decode_capability_requirement), kMaxCapabilityEntriesPerPublication),
         "requirements")
  \o One(Id, "policy") \o One(Gen, "policy_generation") \o One(Id, "required_domain")
  \o One(DomainKind, "required_domain_kind") \o One(Flag, "require_single_failure_domain")
  \o All(Str, <<"isolation_requirement", "portability_class">>) \o decode_observation

encode_candidate ==
  One(Id, "cluster") \o All(Gen, <<"cluster_generation", "cluster_epoch">>)
  \o One(Id, "accelerator_class") \o One(Enum, "status") \o One(U32, "reasons")
  \o All(Enum, <<"basis", "precision", "evidence_class">>) \o One(Str, "detail")
  \o One(encode_evidence_list, "evidence")
decode_candidate ==
  One(Id, "cluster") \o All(Gen, <<"cluster_generation", "cluster_epoch">>)
  \o One(Id, "accelerator_class") \o One(CandidateStatus, "status")
  \o One(RejectionMask, "reasons") \o One(ReasonBasis, "basis")
  \o One(Precision, "precision") \o One(EvidenceClass, "evidence_class")
  \o One(Str, "detail") \o One(decode_evidence_list, "evidence")

encode_placement ==
  One(Id, "id") \o One(Gen, "generation") \o One(Id, "workload")
  \o One(Gen, "workload_generation") \o One(Id, "federation")
  \o One(Gen, "federation_generation") \o All(Id, <<"workload_class", "selected">>)
  \o All(Gen, <<"selected_generation", "selected_epoch">>)
  \o One(Id, "selected_accelerator_class") \o One(U32, "selected_accelerator_count")
  \o One(U64, "selected_memory_bytes")
  \o One(SortedBy(<<"cluster", "status", "accelerator_class">>, Rec(encode_candidate)),
         "candidates")
  \o One(Enum, "candidate_completeness")
  \o All(Gen, <<"policy_generation", "capacity_generation", "topology_generation",
                "compatibility_generation", "runtime_generation">>)
  \o One(Flag, "capacity_available")
  \o All(Enum, <<"compatibility_constrained", "topology_constrained",
                 "policy_constrained", "capability_constrained", "affinity_constrained">>)
  \o One(Flag, "fallback_required") \o One(Str, "fallback_detail")
  \o One(Flag, "cost_known") \o One(U64, "cost_estimate") \o One(Str, "slo_class")
  \o encode_observation
decode_placement ==
  One(Id, "id") \o One(Gen, "generation") \o One(Id, "workload")
  \o One(Gen, "workload_generation") \o One(Id, "federation")
  \o One(Gen, "federation_generation") \o All(Id, <<"workload_class", "selected">>)
  \o All(Gen, <<"selected_generation", "selected_epoch">>)
  \o One(Id, "selected_accelerator_class") \o One(U32, "selected_accelerator_count")
  \o One(U64, "selected_memory_bytes")
  \o One(ListOf(Rec(decode_candidate), kMaxCandidatesPerPlacement), "candidates")
  \o One(CandidateSetCompleteness, "candidate_completeness")
  \o All(Gen, <<"policy_generation", "capacity_generation", "topology_generation",
                "compatibility_generation", "runtime_generation">>)
  \o One(Flag, "capacity_available")
  \o All(Tri, <<"compatibility_constrained", "topology_constrained",
                "policy_constrained", "capability_constrained", "affinity_constrained">>)
  \o One(Flag, "fallback_required") \o One(Str, "fallback_detail")
  \o One(Flag, "cost_known") \o One(U64, "cost_estimate") \o One(Str, "slo_class")
  \o decode_observation

encode_stage_event ==
  One(Gen, "generation") \o One(Enum, "stage") \o One(U64, "sequence")
  \o One(I64, "observed_at") \o All(Enum, <<"precision", "evidence_class">>)
  \o One(Str, "detail")
decode_stage_event ==
  One(Gen, "generation") \o One(MigrationStage, "stage") \o One(U64, "sequence")
  \o One(I64, "observed_at") \o One(Precision, "precision")
  \o One(EvidenceClass, "evidence_class") \o One(Str, "detail")

(* The identities and generations that begin a migration, and the facts     *)
(* that follow its stage events.                                            *)
MigrationHead ==
  One(Id, "id") \o One(Gen, "generation") \o One(Id, "workload")
  \o One(Gen, "workload_generation") \o One(Id, "federation")
  \o One(Gen, "federation_generation") \o All(Id, <<"workload_class", "supersedes">>)
  \o One(Gen, "supersedes_generation") \o One(Id, "source")
  \o All(Gen, <<"source_generation", "source_epoch">>) \o One(Id, "destination")
  \o All(Gen, <<"destination_generation", "destination_epoch">>) \o One(Id, "artifact")
  \o One(Gen, "artifact_generation") \o One(Id, "source_runtime")
  \o One(Gen, "source_runtime_generation") \o One(Id, "destination_runtime")
  \o All(Gen, <<"destination_runtime_generation", "compatibility_generation",
                "policy_generation", "capacity_generation", "topology_generation">>)
MigrationFacts ==
  One(Str, "reason") \o All(Flag, <<"reason_observed", "state_transfer_known">>)
  \o One(U64, "state_transfer_bytes") \o One(Flag, "downtime_known")
  \o One(U64, "downtime_micros")
  \o All(Flag, <<"requires_rebuild", "requires_recompile", "requires_conversion",
                 "requires_state_translation", "revalidation_pending",
                 "destination_generation_changed", "changed_effective_capability",
                 "changed_slo">>)
  \o One(Str, "fallback_detail")

encode_migration ==
  MigrationHead \o All(Enum, <<"stage", "outcome">>)
  \o One(ListOf(Rec(encode_stage_event), 0), "stage_events")
  \o MigrationFacts \o encode_observation
decode_migration ==
  MigrationHead \o One(MigrationStage, "stage") \o One(MigrationOutcome, "outcome")
  \o One(ListOf(Rec(decode_stage_event), kMaxStageEventsPerMigration), "stage_events")
  \o MigrationFacts \o decode_observation

encode_dimension ==
  All(Enum, <<"dimension", "outcome">>) \o One(Str, "detail")
  \o All(Enum, <<"basis", "precision", "evidence_class">>)
  \o One(Flag, "constrains_overall") \o One(encode_evidence_list, "evidence")
decode_dimension ==
  One(PortabilityDimension, "dimension") \o One(PortabilityOutcome, "outcome")
  \o One(Str, "detail") \o One(ReasonBasis, "basis") \o One(Precision, "precision")
  \o One(EvidenceClass, "evidence_class") \o One(Flag, "constrains_overall")
  \o One(decode_evidence_list, "evidence")

PortabilityHead ==
  One(Id, "workload") \o One(Gen, "workload_generation") \o One(Id, "artifact")
  \o One(Gen, "artifact_generation") \o All(Id, <<"workload_class", "source">>)
  \o All(Gen, <<"source_generation", "source_epoch">>) \o One(Id, "destination")
  \o All(Gen, <<"destination_generation", "destination_epoch">>)
  \o One(Id, "source_runtime") \o One(Gen, "source_runtime_generation")
  \o One(Id, "destination_runtime") \o One(Gen, "destination_runtime_generation")
  \o One(Id, "federation")
  \o All(Gen, <<"federation_generation", "compatibility_generation",
                "policy_generation">>)
PortabilityFlags ==
  All(Flag, <<"requires_rebuild", "requires_recompile", "requires_conversion",
              "requires_state_translation", "requires_fallback", "technically_blocked",
              "policy_blocked">>)

encode_portability ==
  PortabilityHead \o One(ListOf(Rec(encode_dimension), 0), "dimensions")
  \o One(Enum, "overall") \o PortabilityFlags
  \o All(Enum, <<"currentness", "precision", "evidence_class">>)
  \o One(Rec(encode_stamp), "stamp") \o One(encode_evidence_list, "evidence")
decode_portability ==
  PortabilityHead \o One(ListOf(Rec(decode_dimension), kPortabilityDimensionCount), "dimensions")
  \o One(PortabilityOutcome, "overall") \o PortabilityFlags
  \o One(Currentness, "currentness") \o One(Precision, "precision")
  \o One(EvidenceClass, "evidence_class")
  \o One(Rec(decode_stamp), "stamp") \o One(decode_evidence_list, "evidence")

=============================================================================
