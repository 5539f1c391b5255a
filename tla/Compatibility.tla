--------------------------- MODULE Compatibility ----------------------------
(***************************************************************************)
(* assess_compatibility (compatibility.cpp): is a cluster fit for a        *)
(* workload generation, as far as what is published tells?  An assessment  *)
(* is the set of the outcomes of its checks; the worst of them decides.    *)
(*                                                                         *)
(* The inputs are a record of what the assessor may look at, in which      *)
(* Nothing stands for a null pointer.                                      *)
(***************************************************************************)
EXTENDS Capability

CONSTANT Nothing

(* The enumerators of CompatibilityOutcome by compatibility_severity, from 0 *)
OutcomesBySeverity ==
  <<"Compatible", "CompatibleWithFallback", "CompatibleAfterReconfiguration",
    "CompatibleAfterRebuild", "CapabilityMissing", "IncompatibleMemory",
    "IncompatibleTopology", "IncompatibleIsolation", "IncompatibleArtifact",
    "IncompatibleAbi", "IncompatibleDriver", "IncompatibleRuntime",
    "IncompatibleArchitecture", "StaleEvidence", "UnknownCompatibility", "Unsupported">>
compatibility_severity(o) == (CHOOSE n \in DOMAIN OutcomesBySeverity : OutcomesBySeverity[n] = o) - 1

is_compatible_family(o) == compatibility_severity(o) <= 3
is_hard_incompatible(o) == compatibility_severity(o) \in 4..12
is_undecided(o) == compatibility_severity(o) >= 13

outcome_for_failed_requirement(key) ==
  CASE key \in {"MemoryBytes", "MemoryBandwidthGbps"} -> "IncompatibleMemory"
    [] key \in KeysBetween("PartitionSupport", "PartitionMaxInstances") -> "IncompatibleTopology"
    [] key = "SecurityIsolation" -> "IncompatibleIsolation"
    [] key \in KeysBetween("ArtifactFormat", "InferenceServingBackend")
         \cup {"KernelFormat", "KernelArchitectures"} -> "IncompatibleArtifact"
    [] key \in {"RuntimeApi", "RuntimeVersion", "RuntimeGeneration"} -> "IncompatibleRuntime"
    [] key \in {"RuntimeAbi", "CompilerTarget", "CompilerVersion"} -> "IncompatibleAbi"
    [] key \in KeysBetween("DriverApi", "DriverGeneration") -> "IncompatibleDriver"
    [] key = "AcceleratorArchitecture" -> "IncompatibleArchitecture"
    [] OTHER -> "CapabilityMissing"

(* add_capability_requirement                                               *)
requirement_outcome(req, set) ==
  LET satisfied == evaluate_requirement(req, set) IN
  CASE satisfied = "Yes" -> "Compatible"
    [] satisfied = "Unknown" -> "UnknownCompatibility"
    [] satisfied = "No" -> IF req.optional THEN "CompatibleWithFallback"
                           ELSE outcome_for_failed_requirement(req.key)

Required(key, comparator, value) ==
  [key |-> key, comparator |-> comparator, value |-> value, optional |-> FALSE]

(* A check that is made when its text is not empty                          *)
WhenSet(text, outcome) == IF text = <<>> THEN {} ELSE {outcome}

-----------------------------------------------------------------------------
Currentness == {"Current", "RevalidationRequired", "Stale", "Retired", "Unknown"}

freshness(currentness) ==
  CASE currentness = "Current" -> "Compatible"
    [] currentness \in {"RevalidationRequired", "Stale"} -> "StaleEvidence"
    [] currentness = "Retired" -> "Unsupported"
    [] currentness = "Unknown" -> "UnknownCompatibility"

is_code_bearing(kind) ==
  kind \in {"ExecutableBinary", "SharedLibrary", "DeviceImage", "ContainerImage"}

(* <<>> when no accelerator class is known or it does not say               *)
Published(record, field) == IF record = Nothing THEN <<>> ELSE record[field]

architecture_checks(artifact, class) ==
  LET targets == artifact.target_architectures
      architecture == Published(class, "architecture")
      capability == Published(class, "compute_capability")
  IN IF ~is_code_bearing(artifact.kind) THEN {}
     ELSE {IF targets = {} \/ architecture = <<>> THEN "UnknownCompatibility"
           ELSE IF architecture \in targets THEN "Compatible"
           ELSE "IncompatibleArchitecture"}
          \cup WhenSet(artifact.minimum_compute_capability,
                 IF capability = <<>> THEN "UnknownCompatibility"
                 ELSE IF compare_version_strings(capability,
                           artifact.minimum_compute_capability) >= 0 THEN "Compatible"
                 ELSE "IncompatibleArchitecture")

format_checks(artifact, set) ==
  WhenSet(artifact.format, requirement_outcome(
    Required("ArtifactFormats", "AnyOf", TextSet({artifact.format})), set))
  \cup WhenSet(artifact.kernel_format, requirement_outcome(
         Required("KernelFormat", "Equals", Text(artifact.kernel_format)), set))
  \cup WhenSet(artifact.compiler_target, requirement_outcome(
         Required("CompilerTarget", "Equals", Text(artifact.compiler_target)), set))

(* The runtime ABI decides before the driver ABI is looked at.              *)
compare_runtime_versions(required_runtime, observed_runtime, required_driver, observed_driver) ==
  LET Disagree(required, observed) == required # <<>> /\ required # observed
      Failing(observed, incompatible) ==
        IF observed = <<>> THEN "UnknownCompatibility" ELSE incompatible
  IN CASE Disagree(required_runtime, observed_runtime) ->
            Failing(observed_runtime, "IncompatibleAbi")
       [] ~Disagree(required_runtime, observed_runtime)
          /\ Disagree(required_driver, observed_driver) ->
            Failing(observed_driver, "IncompatibleDriver")
       [] OTHER -> "Compatible"

(* Mutant of abi_checks: only the driver ABI is compared.                   *)
abi_checks_driver_only(artifact, runtime) ==
  WhenSet(artifact.driver_abi,
          compare_runtime_versions(<<>>, <<>>, artifact.driver_abi,
                                   Published(runtime, "driver_abi")))

abi_checks(artifact, runtime) ==
  WhenSet(artifact.runtime_abi \o artifact.driver_abi,
          compare_runtime_versions(artifact.runtime_abi, Published(runtime, "abi"),
                                   artifact.driver_abi, Published(runtime, "driver_abi")))

memory_checks(workload, class) ==
  IF workload.memory = 0 THEN {}
  ELSE {IF class = Nothing THEN "UnknownCompatibility"
        ELSE IF class.memory = 0 THEN "UnknownCompatibility"
        ELSE IF workload.memory > class.memory THEN "IncompatibleMemory"
        ELSE "Compatible"}

workload_checks(workload, class, set) ==
  {requirement_outcome(req, set) : req \in workload.requirements}
  \cup memory_checks(workload, class)
  \cup WhenSet(workload.isolation_requirement, requirement_outcome(
         Required("SecurityIsolation", "AnyOf", TextSet({workload.isolation_requirement})), set))

-----------------------------------------------------------------------------
(* PolicyRecord: a name that is denied, or not among those allowed          *)
permits(denied, allowed, name) ==
  tri_from_bool(name \notin denied /\ (allowed = {} \/ name \in allowed))
permits_site(policy, site) == permits(policy.denied_sites, policy.allowed_sites, site)
permits_cluster(policy, id) == permits(policy.denied_clusters, policy.allowed_clusters, id)

permits_target(policy, id, site) ==
  IF policy = Nothing THEN "Unknown"
  ELSE tri_and(permits_site(policy, site), permits_cluster(policy, id))

checks(in) ==
  IF in.cluster = Nothing THEN {"UnknownCompatibility"}
  ELSE {freshness(in.cluster.currentness)}
       \cup (IF in.artifact = Nothing THEN {}
             ELSE architecture_checks(in.artifact, in.class)
                  \cup format_checks(in.artifact, in.capabilities)
                  \cup abi_checks(in.artifact, in.runtime))
       \cup (IF in.workload = Nothing THEN {}
             ELSE workload_checks(in.workload, in.class, in.capabilities))

(* weakest, from the strongest outcome on                                   *)
Weakest(outcomes) ==
  CHOOSE o \in outcomes \cup {"Compatible"} :
    \A p \in outcomes : compatibility_severity(p) <= compatibility_severity(o)

assess_compatibility(in) ==
  [overall |-> Weakest(checks(in)),
   policy_admissible |-> IF in.cluster = Nothing THEN "Unknown"
                         ELSE permits_target(in.policy, in.cluster_id, in.cluster.site)]
=============================================================================
