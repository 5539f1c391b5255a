---------------------------- MODULE Portability -----------------------------
(***************************************************************************)
(* assess_portability (portability.cpp): can a workload move from the      *)
(* cluster it is on to another?  An assessment has an outcome for each     *)
(* dimension, of which some do not bear on the verdict, and keeps what the *)
(* policy says apart.                                                      *)
(*                                                                         *)
(* Precision and evidence class are left out.                              *)
(***************************************************************************)
EXTENDS Compatibility

(* The enumerators of PortabilityOutcome by portability_severity, from 0    *)
PortabilityBySeverity ==
  <<"PortableDirect", "PortableWithFallback", "PortableWithRebuild", "PortableWithRecompile",
    "PortableWithConversion", "PortableWithStateTranslation", "NotPortableTopology",
    "NotPortablePolicy", "NotPortableArtifact", "NotPortableRuntime", "NotPortableState",
    "NotPortableArchitecture", "Unknown", "Unsupported">>
portability_severity(o) ==
  (CHOOSE n \in DOMAIN PortabilityBySeverity : PortabilityBySeverity[n] = o) - 1
is_technical_failure(o) ==
  o \in {"NotPortableTopology", "NotPortableArtifact", "NotPortableRuntime",
         "NotPortableState", "NotPortableArchitecture"}

WeakestOf(outcomes) ==
  CHOOSE o \in outcomes : \A p \in outcomes : portability_severity(p) <= portability_severity(o)

Dimensions ==
  {"Binary", "Artifact", "Model", "Checkpoint", "RuntimeApi", "Kernel", "DataFormat",
   "State", "NumericalSemantic", "Performance", "Operational"}

(* record: an outcome that bears on the verdict, or one that does not       *)
Bears(outcome) == [outcome |-> outcome, constrains |-> TRUE]
Unconstrained == [outcome |-> "Unknown", constrains |-> FALSE]

(* By what destination_supports_text decided                                *)
Supported(satisfied, otherwise) ==
  CASE satisfied = "Yes" -> "PortableDirect" [] satisfied = "No" -> otherwise
    [] OTHER -> "Unknown"

-----------------------------------------------------------------------------
binary(artifact, class, set) ==
  LET architecture == Published(class, "architecture") IN
  IF artifact = Nothing THEN Unconstrained
  ELSE IF ~is_code_bearing(artifact.kind) THEN Unconstrained
  ELSE Bears(
    CASE artifact.target_architectures = {} \/ architecture = <<>> -> "Unknown"
      [] architecture # <<>> /\ architecture \in artifact.target_architectures -> "PortableDirect"
      [] OTHER -> IF /\ artifact.compiler_target # <<>>
                     /\ supports_text(set, "CompilerTarget", artifact.compiler_target) = "Yes"
                  THEN "PortableWithRebuild" ELSE "NotPortableArchitecture")

(* The Artifact and the DataFormat dimension                                *)
data_format(artifact, set) ==
  IF artifact = Nothing THEN Unconstrained
  ELSE IF artifact.format = <<>> THEN Unconstrained
  ELSE Bears(Supported(supports_text(set, "ArtifactFormats", artifact.format),
                       "NotPortableArtifact"))

model(artifact, set) ==
  IF artifact = Nothing THEN Unconstrained
  ELSE IF artifact.kind \notin {"ModelWeights", "Adapter"} THEN Unconstrained
  ELSE Bears(Supported(supports_text(set, "InferenceServingBackend", artifact.format),
                       "NotPortableArtifact"))

(* The Checkpoint and the State dimension: one can be translated, the other *)
(* cannot be restored.                                                      *)
state_format(artifact, set, otherwise) ==
  IF artifact = Nothing THEN Unconstrained
  ELSE IF artifact.state_format = <<>> THEN Unconstrained
  ELSE Bears(Supported(supports_text(set, "ArtifactFormats", artifact.state_format), otherwise))

runtime_api(source, destination) ==
  Bears(IF source = Nothing \/ destination = Nothing THEN "Unknown"
        ELSE IF source.kind # destination.kind THEN "NotPortableRuntime"
        ELSE IF source.abi # destination.abi \/ source.generation # destination.generation
        THEN "PortableWithRecompile"
        ELSE "PortableDirect")

kernel(artifact, set) ==
  IF artifact = Nothing THEN Unconstrained
  ELSE IF artifact.kernel_format = <<>> THEN Unconstrained
  ELSE Bears(Supported(supports_text(set, "KernelFormat", artifact.kernel_format),
                       "PortableWithRecompile"))

(* A requirement that fails decides before one that is open.                *)
numerical_semantic(workload, set) ==
  LET satisfied == {evaluate_requirement(req, set) :
                      req \in {r \in workload.requirements : r.key \in PrecisionKeys}}
  IN IF workload.requirements = {} THEN Unconstrained
     ELSE Bears(IF "No" \in satisfied THEN "NotPortableArchitecture"
                ELSE IF "Unknown" \in satisfied THEN "Unknown"
                ELSE "PortableDirect")

(* Mutant of operational: evidence that is not current still counts.        *)
operational_stale(cluster) ==
  Bears(CASE cluster.readiness = "Ready" -> "PortableDirect"
          [] cluster.readiness = "Unknown" -> "Unknown"
          [] OTHER -> "NotPortableRuntime")

operational(cluster) ==
  Bears(CASE cluster.currentness # "Current" \/ cluster.readiness = "Unknown" -> "Unknown"
          [] cluster.currentness = "Current" /\ cluster.readiness = "Ready" -> "PortableDirect"
          [] OTHER -> "NotPortableRuntime")

-----------------------------------------------------------------------------
dimensions(source_runtime, in) ==
  [d \in Dimensions |->
     CASE d = "Binary" -> binary(in.artifact, in.class, in.capabilities)
       [] d \in {"Artifact", "DataFormat"} -> data_format(in.artifact, in.capabilities)
       [] d = "Model" -> model(in.artifact, in.capabilities)
       [] d = "Checkpoint" -> state_format(in.artifact, in.capabilities,
                                           "PortableWithStateTranslation")
       [] d = "State" -> state_format(in.artifact, in.capabilities, "NotPortableState")
       [] d = "RuntimeApi" -> runtime_api(source_runtime, in.runtime)
       [] d = "Kernel" -> kernel(in.artifact, in.capabilities)
       [] d = "NumericalSemantic" -> numerical_semantic(in.workload, in.capabilities)
       [] d = "Performance" -> Unconstrained
       [] d = "Operational" -> operational(in.cluster)]

(* The flags are set by every dimension, also by one that does not bear on  *)
(* the verdict; a policy that forbids the destination weakens the verdict   *)
(* at most to NotPortablePolicy.                                            *)
assess_portability(source_runtime, in) ==
  LET dims == dimensions(source_runtime, in)
      outcomes == {dims[d].outcome : d \in Dimensions}
      bearing == {dims[d].outcome : d \in {e \in Dimensions : dims[e].constrains}}
      blocked == permits_target(in.policy, in.cluster_id, in.cluster.site) = "No"
  IN [dimensions |-> dims,
      overall |-> WeakestOf(bearing \cup (IF blocked THEN {"NotPortablePolicy"} ELSE {})),
      policy_blocked |-> blocked,
      technically_blocked |-> \E o \in outcomes : is_technical_failure(o),
      requires_rebuild |-> "PortableWithRebuild" \in outcomes,
      requires_recompile |-> "PortableWithRecompile" \in outcomes,
      requires_conversion |-> "PortableWithStateTranslation" \in outcomes,
      requires_state_translation |-> "NotPortableState" \in outcomes]
=============================================================================
