----------------------------- MODULE Stranding ------------------------------
(***************************************************************************)
(* Which idle capacity a workload class could use, which it could not and  *)
(* why, and how what it could use is spread (analysis.cpp,                 *)
(* EligibilityBreakdown and ReasonTally of capacity.cpp).                  *)
(*                                                                         *)
(* A snapshot is a record of partial functions from identifiers to         *)
(* records.  Amounts are far from the width of a word: a sum that would    *)
(* overflow is refused or saturates, and the report is refused if it does  *)
(* not close.                                                              *)
(***************************************************************************)
EXTENDS Compatibility, FiniteSetsExt

(* StrandingReason by stranding_reason_precedence, from 1                   *)
ReasonsByPrecedence ==
  <<"UnsupportedAcceleratorCapability", "UnsupportedPrecision", "MissingOffloadCapability",
    "MissingInterconnectFeature", "RuntimeMismatch", "DriverMismatch", "AbiMismatch",
    "ArtifactIncompatibility", "MissingCompilerTarget", "PartitionGeometry",
    "TopologyConstraint", "IsolationRequirement", "MissingLocalStorageState",
    "MemoryInsufficient", "SiteRestriction", "PolicyRestriction">>
Reasons == {ReasonsByPrecedence[n] : n \in DOMAIN ReasonsByPrecedence}
is_technical_reason(reason) == reason \notin {"SiteRestriction", "PolicyRestriction"}

reason_for_requirement(key) ==
  CASE key \in PrecisionKeys -> "UnsupportedPrecision"
    [] key \in KeysBetween("InterconnectType", "PcieGeneration") -> "MissingInterconnectFeature"
    [] key = "OffloadCapability" -> "MissingOffloadCapability"
    [] key \in KeysBetween("PartitionSupport", "PartitionMaxInstances") -> "PartitionGeometry"
    [] key \in {"RuntimeApi", "RuntimeVersion", "RuntimeGeneration"} -> "RuntimeMismatch"
    [] key = "RuntimeAbi" -> "AbiMismatch"
    [] key \in KeysBetween("DriverApi", "DriverGeneration") -> "DriverMismatch"
    [] key \in {"CompilerTarget", "CompilerVersion"} -> "MissingCompilerTarget"
    [] key \in KeysBetween("ArtifactFormat", "InferenceServingBackend")
         \cup {"KernelFormat", "KernelArchitectures"} -> "ArtifactIncompatibility"
    [] key \in KeysBetween("CollectiveSupport", "CollectiveMaxGroupSize") -> "TopologyConstraint"
    [] key = "SecurityIsolation" -> "IsolationRequirement"
    [] key \in KeysBetween("MemoryBytes", "MemoryEcc") -> "MemoryInsufficient"
    [] OTHER -> "UnsupportedAcceleratorCapability"

-----------------------------------------------------------------------------
(* What is known of one check: nothing of note, an open question or the     *)
(* reason it fails for                                                      *)
Undecided == "Undecided"
Judge(satisfied, reason) ==
  CASE satisfied = "Yes" -> {} [] satisfied = "No" -> {reason} [] OTHER -> {Undecided}
JudgeText(text, set, key, reason) ==
  IF text = <<>> THEN {} ELSE Judge(supports_text(set, key, text), reason)

artifact_judgements(artifact, class, runtime, set) ==
  LET architecture == Published(class, "architecture")
      abi == Published(runtime, "abi")
  IN (IF ~is_code_bearing(artifact.kind) THEN {}
      ELSE IF artifact.target_architectures = {} \/ architecture = <<>> THEN {Undecided}
      ELSE Judge(tri_from_bool(architecture \in artifact.target_architectures),
                 "ArtifactIncompatibility"))
     \cup JudgeText(artifact.format, set, "ArtifactFormats", "ArtifactIncompatibility")
     \cup JudgeText(artifact.kernel_format, set, "KernelFormat", "ArtifactIncompatibility")
     \cup JudgeText(artifact.state_format, set, "ArtifactFormats", "MissingLocalStorageState")
     \cup JudgeText(artifact.compiler_target, set, "CompilerTarget", "MissingCompilerTarget")
     \cup (IF artifact.runtime_abi = <<>> THEN {}
           ELSE IF abi = <<>> THEN {Undecided}
           ELSE Judge(tri_from_bool(abi = artifact.runtime_abi), "AbiMismatch"))

workload_judgements(workload, class, set) ==
  (UNION {IF req.optional /\ evaluate_requirement(req, set) = "No" THEN {}
          ELSE Judge(evaluate_requirement(req, set), reason_for_requirement(req.key))
          : req \in workload.requirements})
  \cup (IF workload.memory = 0 THEN {}
        ELSE IF class = Nothing THEN {Undecided}
        ELSE IF class.memory = 0 THEN {Undecided}
        ELSE Judge(tri_from_bool(workload.memory <= class.memory), "MemoryInsufficient"))

(* A site that is not known is not asked about; a denied site is named, not *)
(* the cluster.                                                             *)
policy_judgements(policy, id, cluster, sites) ==
  IF cluster.site \in sites /\ permits_site(policy, cluster.site) = "No" THEN {"SiteRestriction"}
  ELSE Judge(permits_cluster(policy, id), "PolicyRestriction")

(* Mutant of evaluate_pool: a policy that forbids the target decides first. *)
evaluate_pool_policy_first(workload, artifact, id, cluster, sites, class, runtime, policy) ==
  LET set == merge_capabilities(cluster.capabilities,
               IF class = Nothing THEN <<>> ELSE class.capabilities,
               IF runtime = Nothing THEN <<>> ELSE runtime.capabilities)
      forbidden == IF policy = Nothing THEN {} ELSE policy_judgements(policy, id, cluster, sites)
  IN IF cluster.readiness \in {"NotReady", "Draining"} \/ class = Nothing THEN {Undecided}
     ELSE IF forbidden # {} THEN forbidden
     ELSE (IF artifact = Nothing THEN {}
           ELSE artifact_judgements(artifact, class, runtime, set))
          \cup (IF workload = Nothing THEN {} ELSE workload_judgements(workload, class, set))

(* evaluate_pool: every judgement of a pool of accelerators.  A cluster     *)
(* that is not ready decides nothing.                                       *)
evaluate_pool(workload, artifact, id, cluster, sites, class, runtime, policy) ==
  LET set == merge_capabilities(cluster.capabilities,
               IF class = Nothing THEN <<>> ELSE class.capabilities,
               IF runtime = Nothing THEN <<>> ELSE runtime.capabilities)
  IN IF cluster.readiness \in {"NotReady", "Draining"} \/ class = Nothing THEN {Undecided}
     ELSE (IF artifact = Nothing THEN {}
           ELSE artifact_judgements(artifact, class, runtime, set))
          \cup (IF workload = Nothing THEN {} ELSE workload_judgements(workload, class, set))
          \cup (IF policy = Nothing THEN {}
                ELSE policy_judgements(policy, id, cluster, sites))

(* A reason decides, whatever else is open; the first by precedence counts. *)
ReasonsOf(judgements) == judgements \ {Undecided}
PrimaryReason(judgements) ==
  ReasonsByPrecedence[Min({n \in DOMAIN ReasonsByPrecedence :
                             ReasonsByPrecedence[n] \in judgements})]

-----------------------------------------------------------------------------
(* The lookups of a snapshot                                                *)
Find(map, id) == IF id \in DOMAIN map THEN map[id] ELSE Nothing
FirstFound(map, ids) ==
  IF \E n \in DOMAIN ids : ids[n] \in DOMAIN map
  THEN map[ids[Min({n \in DOMAIN ids : ids[n] \in DOMAIN map})]]
  ELSE Nothing

(* The first workload of the class by identifier                            *)
select_workload(snapshot, class) ==
  LET of == {w \in DOMAIN snapshot.workloads : snapshot.workloads[w].workload_class = class}
  IN IF of = {} THEN Nothing ELSE snapshot.workloads[Min(of)]

(* A finding for every pool of every cluster that is current, or also of    *)
(* those that are not when stale evidence is asked for; the retired ones    *)
(* are left out.                                                            *)
findings(snapshot, class, include_stale) ==
  LET workload == select_workload(snapshot, class)
      artifact == IF workload = Nothing THEN Nothing
                  ELSE Find(snapshot.artifacts, workload.artifact)
      policy == IF workload = Nothing THEN Nothing
                ELSE Find(snapshot.policies, workload.policy)
      counted == {c \in DOMAIN snapshot.clusters :
                    LET currentness == snapshot.clusters[c].currentness IN
                    currentness = "Current" \/ (include_stale /\ currentness # "Retired")}
  IN UNION {LET cluster == snapshot.clusters[c] IN
            {[cluster |-> c, pool |-> n, domain |-> cluster.domain, site |-> cluster.site,
              nominal |-> cluster.pools[n].nominal, idle |-> cluster.pools[n].idle,
              judgements |-> evaluate_pool(workload, artifact, c, cluster,
                DOMAIN snapshot.sites, Find(snapshot.accelerator_classes, cluster.pools[n].class),
                FirstFound(snapshot.runtimes, cluster.runtimes), policy)]
             : n \in DOMAIN cluster.pools}
            : c \in counted}

Usable(f) == IF f.judgements = {} THEN f.idle ELSE 0
(* Mutant of Unknown: capacity with an open question also counts when it is *)
(* stranded for another reason.                                             *)
UnknownTwice(f) == IF Undecided \in f.judgements THEN f.idle ELSE 0

Unknown(f) == IF f.judgements = {Undecided} THEN f.idle ELSE 0
Stranded(f) == IF ReasonsOf(f.judgements) # {} THEN f.idle ELSE 0

(* stranded_by_primary_reason over the findings                             *)
ByReason(fs) ==
  [r \in Reasons |->
     SumFunction([f \in fs |-> IF Stranded(f) > 0 /\ PrimaryReason(f.judgements) = r
                               THEN f.idle ELSE 0])]

report_of(fs, excluded) ==
  [findings |-> fs, nominal |-> SumFunction([f \in fs |-> f.nominal]),
   idle |-> SumFunction([f \in fs |-> f.idle]),
   usable |-> SumFunction([f \in fs |-> Usable(f)]),
   stranded |-> SumFunction([f \in fs |-> Stranded(f)]),
   unknown |-> SumFunction([f \in fs |-> Unknown(f)]),
   by_reason |-> ByReason(fs), excluded_stale |-> excluded]

analyze_stranded_capacity(snapshot, class, include_stale) ==
  report_of(findings(snapshot, class, include_stale),
            {c \in DOMAIN snapshot.clusters :
               snapshot.clusters[c].currentness \notin {"Current", "Retired"} /\ ~include_stale})

-----------------------------------------------------------------------------
(* The placement domain a finding counts in: that of its cluster, or the    *)
(* cluster on its own.                                                      *)
DomainOf(f) == IF f.domain = Nothing THEN f.cluster ELSE f.domain

(* required is at least 1 (WorkloadRecord::validate).                       *)
classify(required, usable, largest, scope, reasons) ==
  LET policy == reasons \cap {"SiteRestriction", "PolicyRestriction"} # {}
      topology == reasons \cap {"TopologyConstraint", "PartitionGeometry",
                                "MissingInterconnectFeature"} # {}
      compatibility == reasons \ {"SiteRestriction", "PolicyRestriction",
        "TopologyConstraint", "PartitionGeometry", "MissingInterconnectFeature",
        "IsolationRequirement", "MissingLocalStorageState", "MemoryInsufficient"} # {}
      kinds == <<policy, compatibility, topology>>
  IN CASE usable < required -> "CapacityShortage"
       [] usable >= required /\ largest >= required -> "None"
       [] OTHER ->
            CASE policy /\ scope = "Federation" -> "SiteFragmentation"
              [] kinds = <<FALSE, TRUE, FALSE>> -> "CompatibilityFragmentation"
              [] kinds = <<FALSE, FALSE, TRUE>> -> "TopologyFragmentation"
              [] kinds = <<FALSE, FALSE, FALSE>> -> "PhysicalFragmentation"
              [] kinds = <<TRUE, FALSE, FALSE>> /\ scope # "Federation" -> "PolicyFragmentation"
              [] OTHER -> "Mixed"

(* The usable capacity of every registered domain and of every domain that  *)
(* a finding counts in                                                      *)
domain_map(snapshot, fs) ==
  LET registered == DOMAIN snapshot.domains IN
  [d \in registered \cup {DomainOf(f) : f \in fs} |->
     LET here == {f \in fs : DomainOf(f) = d} IN
     [nominal |-> SumFunction([f \in here |-> f.nominal]),
      usable |-> SumFunction([f \in here |-> Usable(f)]),
      stranded |-> SumFunction([f \in here |-> Stranded(f)]),
      unknown |-> SumFunction([f \in here |-> Unknown(f)])]]

fragmentation_of(workload, reasons, domains) ==
  LET Sum(field) == SumFunction([d \in DOMAIN domains |-> domains[d][field]])
      largest == Max({domains[d].usable : d \in DOMAIN domains} \cup {0})
  IN [domains |-> domains, usable |-> Sum("usable"), stranded |-> Sum("stranded"),
      unknown |-> Sum("unknown"), largest_legal_group |-> largest,
      legal_domain_count |-> Cardinality({d \in DOMAIN domains :
        domains[d].usable >= workload.required_accelerators}),
      classification |-> classify(workload.required_accelerators, Sum("usable"), largest,
                                  workload.required_domain_kind, reasons)]

analyze_fragmentation(snapshot, class) ==
  LET report == analyze_stranded_capacity(snapshot, class, FALSE)
  IN fragmentation_of(select_workload(snapshot, class),
                      {r \in Reasons : report.by_reason[r] # 0},
                      domain_map(snapshot, report.findings))
=============================================================================
