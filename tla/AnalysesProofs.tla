--------------------------- MODULE AnalysesProofs ---------------------------
(***************************************************************************)
(* What the analyses conclude, for every federation and every sequence of  *)
(* publications that the registry lets through: the type invariant of      *)
(* Analyses, that no conclusion is drawn from evidence that is not         *)
(* current, that compatibility and stranded capacity do not contradict     *)
(* each other, that policy is kept apart from the technical answers, that  *)
(* a truncated snapshot does not mislead, and that idle capacity is        *)
(* partitioned.                                                            *)
(***************************************************************************)
EXTENDS Analyses, FiniteSetTheorems, WellFoundedInduction, TLAPS

Tri == {"Yes", "No", "Unknown"}
Fitting ==
  {"Compatible", "CompatibleWithFallback", "CompatibleAfterReconfiguration",
   "CompatibleAfterRebuild"}
Hard ==
  {"CapabilityMissing", "IncompatibleMemory", "IncompatibleTopology",
   "IncompatibleIsolation", "IncompatibleArtifact", "IncompatibleAbi",
   "IncompatibleDriver", "IncompatibleRuntime", "IncompatibleArchitecture"}
Open == {"StaleEvidence", "UnknownCompatibility", "Unsupported"}
Verdicts == Fitting \cup Hard \cup Open

-----------------------------------------------------------------------------
(* Requirements                                                             *)

(* The three-valued connectives of capability.cpp give three-valued answers.*)
LEMMA TriTypes ==
  ASSUME NEW a
  PROVE  /\ tri_from_bool(a) \in {"Yes", "No"}
         /\ tri_not(a) \in Tri
BY DEF tri_from_bool, tri_not, Tri

(* So does each way of comparing a published value with a required one.     *)
LEMMA ComparisonTypes ==
  ASSUME NEW v, NEW r, NEW sense
  PROVE  /\ equals(v, r) \in Tri
         /\ ordered(v, r, sense) \in Tri
         /\ any_of(v, r) \in Tri
         /\ all_of(v, r) \in Tri
         /\ present(v) \in Tri
<1>1. equals(v, r) \in Tri
  BY TriTypes DEF equals, Tri
<1>2. ordered(v, r, sense) \in Tri
  BY TriTypes DEF ordered, Tri
<1>3. any_of(v, r) \in Tri
  BY TriTypes DEF any_of, Tri
<1>4. all_of(v, r) \in Tri
  BY TriTypes DEF all_of, Tri
<1>5. present(v) \in Tri
  BY TriTypes DEF present, Tri
<1> QED
  BY <1>1, <1>2, <1>3, <1>4, <1>5

(* evaluate_requirement decides for, against or not at all.                 *)
LEMMA RequirementType ==
  ASSUME NEW req, NEW set, req.comparator \in Comparators
  PROVE  evaluate_requirement(req, set) \in Tri
<1>1. ASSUME NEW v, NEW r PROVE Compare(req.comparator, v, r) \in Tri
  <2>1. /\ equals(v, r) \in Tri
        /\ any_of(v, r) \in Tri
        /\ all_of(v, r) \in Tri
        /\ present(v) \in Tri
        /\ ordered(v, r, 1) \in Tri
        /\ ordered(v, r, -1) \in Tri
    BY ComparisonTypes
  <2>2. tri_not(equals(v, r)) \in Tri /\ tri_not(present(v)) \in Tri
    BY TriTypes
  <2> QED
    BY <2>1, <2>2 DEF Compare, Comparators
<1>2. Unpublished(req.comparator) \in Tri
  BY DEF Unpublished, Tri
<1> QED
  BY <1>1, <1>2 DEF evaluate_requirement, Tri

(* A requirement that fails is a hard incompatibility of some kind.         *)
LEMMA FailedType ==
  ASSUME NEW key
  PROVE  outcome_for_failed_requirement(key) \in Hard
BY DEF outcome_for_failed_requirement, Hard

(* add_capability_requirement: the outcome of a requirement fits only if it *)
(* is met, or is optional and known not to be.                              *)
LEMMA RequirementOutcome ==
  ASSUME NEW req, NEW set, req.comparator \in Comparators
  PROVE  /\ requirement_outcome(req, set) \in Verdicts
         /\ requirement_outcome(req, set) \in Fitting
            => \/ evaluate_requirement(req, set) = "Yes"
               \/ req.optional /\ evaluate_requirement(req, set) = "No"
<1>1. evaluate_requirement(req, set) \in Tri
  BY RequirementType
<1>2. outcome_for_failed_requirement(req.key) \in Hard
  BY FailedType
<1> QED
  BY <1>1, <1>2 DEF requirement_outcome, Verdicts, Tri, Fitting, Hard, Open

-----------------------------------------------------------------------------
(* The order of the outcomes                                                *)

(* compatibility_severity of every CompatibilityOutcome.                    *)
LEMMA Severities ==
  /\ compatibility_severity("Compatible") = 0
  /\ compatibility_severity("CompatibleWithFallback") = 1
  /\ compatibility_severity("CompatibleAfterReconfiguration") = 2
  /\ compatibility_severity("CompatibleAfterRebuild") = 3
  /\ \A o \in Hard : compatibility_severity(o) \in 4..12
  /\ compatibility_severity("StaleEvidence") = 13
  /\ compatibility_severity("UnknownCompatibility") = 14
  /\ compatibility_severity("Unsupported") = 15
<1>1. compatibility_severity("Compatible") = 0
  BY DEF compatibility_severity, OutcomesBySeverity
<1>2. compatibility_severity("CompatibleWithFallback") = 1
  BY DEF compatibility_severity, OutcomesBySeverity
<1>3. compatibility_severity("CompatibleAfterReconfiguration") = 2
  BY DEF compatibility_severity, OutcomesBySeverity
<1>4. compatibility_severity("CompatibleAfterRebuild") = 3
  BY DEF compatibility_severity, OutcomesBySeverity
<1>5. compatibility_severity("StaleEvidence") = 13
  BY DEF compatibility_severity, OutcomesBySeverity
<1>6. compatibility_severity("UnknownCompatibility") = 14
  BY DEF compatibility_severity, OutcomesBySeverity
<1>7. compatibility_severity("Unsupported") = 15
  BY DEF compatibility_severity, OutcomesBySeverity
<1>8. /\ compatibility_severity("CapabilityMissing") = 4
      /\ compatibility_severity("IncompatibleMemory") = 5
      /\ compatibility_severity("IncompatibleTopology") = 6
  BY DEF compatibility_severity, OutcomesBySeverity
<1>9. /\ compatibility_severity("IncompatibleIsolation") = 7
      /\ compatibility_severity("IncompatibleArtifact") = 8
      /\ compatibility_severity("IncompatibleAbi") = 9
  BY DEF compatibility_severity, OutcomesBySeverity
<1>10. /\ compatibility_severity("IncompatibleDriver") = 10
       /\ compatibility_severity("IncompatibleRuntime") = 11
       /\ compatibility_severity("IncompatibleArchitecture") = 12
  BY DEF compatibility_severity, OutcomesBySeverity
<1> QED
  BY <1>1, <1>2, <1>3, <1>4, <1>5, <1>6, <1>7, <1>8, <1>9, <1>10 DEF Hard

(* The three families of outcomes are told apart by their severity.         *)
LEMMA Families ==
  ASSUME NEW o \in Verdicts
  PROVE  /\ compatibility_severity(o) \in 0..15
         /\ is_compatible_family(o) <=> o \in Fitting
         /\ is_undecided(o) <=> o \in Open
BY Severities DEF Verdicts, Fitting, Hard, Open, is_compatible_family, is_undecided

(* A set of natural numbers that is not empty has a smallest element.       *)
LEMMA Smallest ==
  ASSUME NEW T, T \subseteq Nat, T # {}
  PROVE  \E r \in T : \A q \in T : r <= q
<1> DEFINE Less == {ss \in Nat \X Nat : ss[1] < ss[2]}
<1>1. IsWellFoundedOn(Less, Nat)
  BY NatLessThanWellFounded DEF OpToRel
<1>2. PICK r \in T : \A q \in T : ~(<<q, r>> \in Less)
  <2> HIDE DEF Less
  <2> QED
    BY <1>1, WFMin
<1>3. \A q \in T : ~(q < r)
  BY <1>2
<1> QED
  BY <1>3

(* A bounded one has a largest.                                             *)
LEMMA LargestSeverity ==
  ASSUME NEW T, T \subseteq 0..15, T # {}
  PROVE  \E r \in T : \A q \in T : q <= r
<1> DEFINE rooms == {15 - s : s \in T}
<1>1. \A s \in T : s \in 0..15 /\ 15 - s \in Nat
  OBVIOUS
<1>2. rooms \subseteq Nat
  BY <1>1
<1>3. rooms # {}
  <2>1. PICK s : s \in T
    OBVIOUS
  <2>2. 15 - s \in rooms
    BY <2>1
  <2> QED
    BY <2>2
<1>4. PICK room \in rooms : \A q \in rooms : room <= q
  <2> HIDE DEF rooms
  <2> QED
    BY <1>2, <1>3, Smallest
<1>5. PICK r \in T : room = 15 - r
  OBVIOUS
<1>6. ASSUME NEW q \in T PROVE q <= r
  <2>1. 15 - q \in rooms
    OBVIOUS
  <2>2. 15 - r <= 15 - q
    BY <1>4, <1>5, <2>1
  <2> QED
    BY <1>1, <2>2
<1> QED
  BY <1>6

(* weakest: of a set of outcomes one of the worst decides.                  *)
LEMMA WeakestDecides ==
  ASSUME NEW outcomes \in SUBSET Verdicts
  PROVE  /\ Weakest(outcomes) \in outcomes \cup {"Compatible"}
         /\ Weakest(outcomes) \in Verdicts
         /\ \A p \in outcomes :
              compatibility_severity(p) <= compatibility_severity(Weakest(outcomes))
<1> DEFINE all == outcomes \cup {"Compatible"}
           severities == {compatibility_severity(o) : o \in all}
<1>1. all \subseteq Verdicts
  BY DEF Verdicts, Fitting
<1>2. \A o \in all : compatibility_severity(o) \in 0..15
  BY <1>1, Families
<1>3. severities \subseteq 0..15 /\ severities # {}
  BY <1>2
<1>4. PICK r \in severities : \A q \in severities : q <= r
  <2> HIDE DEF severities
  <2> QED
    BY <1>3, LargestSeverity
<1>5. PICK o \in all : r = compatibility_severity(o)
  OBVIOUS
<1>6. \A p \in outcomes : compatibility_severity(p) <= compatibility_severity(o)
  BY <1>4, <1>5
<1>7. /\ Weakest(outcomes) \in all
      /\ \A p \in outcomes :
           compatibility_severity(p) <= compatibility_severity(Weakest(outcomes))
  BY <1>6 DEF Weakest
<1> QED
  BY <1>1, <1>7

-----------------------------------------------------------------------------
(* The checks of compatibility                                              *)

(* What collect_assessment_inputs hands to the assessor is valid.           *)
InputsOK(in) ==
  /\ in.cluster # Nothing => in.cluster.currentness \in Currentness
  /\ in.workload # Nothing =>
       \A req \in in.workload.requirements : req.comparator \in Comparators

(* Evidence that is not current leaves the verdict open.                    *)
LEMMA FreshnessOutcome ==
  ASSUME NEW currentness \in Currentness
  PROVE  /\ freshness(currentness) \in Verdicts
         /\ currentness # "Current" => freshness(currentness) \in Open
BY DEF freshness, Currentness, Verdicts, Open, Fitting

(* The requirements that assess_compatibility makes up itself are           *)
(* requirements like those of a workload.                                   *)
LEMMA OwnRequirement ==
  ASSUME NEW key, NEW comparator \in Comparators, NEW value, NEW set
  PROVE  LET req == Required(key, comparator, value) IN
         /\ requirement_outcome(req, set) \in Verdicts
         /\ requirement_outcome(req, set) \in Fitting => evaluate_requirement(req, set) = "Yes"
<1> DEFINE req == Required(key, comparator, value)
<1>1. req.comparator \in Comparators /\ ~req.optional
  BY DEF Required
<1> HIDE DEF req
<1>2. /\ requirement_outcome(req, set) \in Verdicts
      /\ requirement_outcome(req, set) \in Fitting => evaluate_requirement(req, set) = "Yes"
  BY <1>1, RequirementOutcome
<1> QED
  BY <1>2 DEF req

(* Every check of the artifact has an outcome.                              *)
LEMMA ArtifactChecks ==
  ASSUME NEW artifact, NEW class, NEW runtime, NEW set
  PROVE  /\ architecture_checks(artifact, class) \subseteq Verdicts
         /\ format_checks(artifact, set) \subseteq Verdicts
         /\ abi_checks(artifact, runtime) \subseteq Verdicts
<1>1. architecture_checks(artifact, class) \subseteq Verdicts
  BY DEF architecture_checks, WhenSet, Verdicts, Fitting, Hard, Open
<1>2. format_checks(artifact, set) \subseteq Verdicts
  <2>1. {"AnyOf", "Equals"} \subseteq Comparators
    BY DEF Comparators
  <2> QED
    BY <2>1, OwnRequirement DEF format_checks, WhenSet
<1>3. abi_checks(artifact, runtime) \subseteq Verdicts
  <2>1. ASSUME NEW a, NEW b, NEW c, NEW d
        PROVE  compare_runtime_versions(a, b, c, d) \in Verdicts
    BY DEF compare_runtime_versions, Verdicts, Fitting, Hard, Open
  <2> QED
    BY <2>1 DEF abi_checks, WhenSet
<1> QED
  BY <1>1, <1>2, <1>3

(* So has every check of the workload.                                      *)
LEMMA WorkloadChecks ==
  ASSUME NEW workload, NEW class, NEW set,
         \A req \in workload.requirements : req.comparator \in Comparators
  PROVE  workload_checks(workload, class, set) \subseteq Verdicts
<1>1. {requirement_outcome(req, set) : req \in workload.requirements} \subseteq Verdicts
  BY RequirementOutcome
<1>2. memory_checks(workload, class) \subseteq Verdicts
  BY DEF memory_checks, Verdicts, Fitting, Hard, Open
<1>3. "AnyOf" \in Comparators
  BY DEF Comparators
<1> QED
  BY <1>1, <1>2, <1>3, OwnRequirement DEF workload_checks, WhenSet

(* assess_compatibility: every check has an outcome, and the verdict is in  *)
(* the family of fitting ones only if that of every check is.               *)
LEMMA VerdictOfChecks ==
  ASSUME NEW in, InputsOK(in)
  PROVE  LET overall == assess_compatibility(in).overall IN
         /\ checks(in) \subseteq Verdicts
         /\ overall \in Verdicts
         /\ is_compatible_family(overall) => checks(in) \subseteq Fitting
         /\ (\E o \in checks(in) : o \in Open) => is_undecided(overall)
<1> DEFINE overall == assess_compatibility(in).overall
<1>1. checks(in) \subseteq Verdicts
  <2>1. "UnknownCompatibility" \in Verdicts
    BY DEF Verdicts, Open
  <2>2. CASE in.cluster = Nothing
    BY <2>1, <2>2 DEF checks
  <2>3. CASE in.cluster # Nothing
    <3>1. freshness(in.cluster.currentness) \in Verdicts
      BY <2>3, FreshnessOutcome DEF InputsOK
    <3>2. in.workload # Nothing =>
            workload_checks(in.workload, in.class, in.capabilities) \subseteq Verdicts
      BY WorkloadChecks DEF InputsOK
    <3> QED
      BY <2>3, <3>1, <3>2, ArtifactChecks DEF checks
  <2> QED
    BY <2>2, <2>3
<1>2. overall = Weakest(checks(in))
  BY DEF assess_compatibility
<1> HIDE DEF overall
<1>3. /\ overall \in Verdicts
      /\ \A p \in checks(in) : compatibility_severity(p) <= compatibility_severity(overall)
  BY <1>1, <1>2, WeakestDecides
<1>4. /\ compatibility_severity(overall) \in 0..15
      /\ \A p \in checks(in) : compatibility_severity(p) \in 0..15
  BY <1>1, <1>3, Families
<1>5. ASSUME is_compatible_family(overall), NEW p \in checks(in) PROVE p \in Fitting
  <2>1. is_compatible_family(p)
    BY <1>3, <1>4, <1>5 DEF is_compatible_family
  <2> QED
    BY <1>1, <2>1, Families
<1>6. ASSUME NEW o \in checks(in), o \in Open PROVE is_undecided(overall)
  <2>1. is_undecided(o)
    BY <1>1, <1>6, Families
  <2> QED
    BY <1>3, <1>4, <2>1 DEF is_undecided
<1> QED
  BY <1>1, <1>3, <1>5, <1>6 DEF overall

-----------------------------------------------------------------------------
(* Portability                                                              *)

(* Every dimension has an outcome that portability.cpp can decide on: none  *)
(* is Unsupported.                                                          *)
Decidable ==
  {"PortableDirect", "PortableWithFallback", "PortableWithRebuild", "PortableWithRecompile",
   "PortableWithConversion", "PortableWithStateTranslation", "NotPortableTopology",
   "NotPortablePolicy", "NotPortableArtifact", "NotPortableRuntime", "NotPortableState",
   "NotPortableArchitecture", "Unknown"}

(* Unknown is the weakest of them.                                          *)
LEMMA UnknownIsWeakest ==
  /\ portability_severity("Unknown") = 12
  /\ \A o \in Decidable \ {"Unknown"} : portability_severity(o) \in 0..11
<1>1. portability_severity("Unknown") = 12
  BY DEF portability_severity, PortabilityBySeverity
<1>2. /\ portability_severity("PortableDirect") = 0
      /\ portability_severity("PortableWithFallback") = 1
      /\ portability_severity("PortableWithRebuild") = 2
      /\ portability_severity("PortableWithRecompile") = 3
  BY DEF portability_severity, PortabilityBySeverity
<1>3. /\ portability_severity("PortableWithConversion") = 4
      /\ portability_severity("PortableWithStateTranslation") = 5
      /\ portability_severity("NotPortableTopology") = 6
      /\ portability_severity("NotPortablePolicy") = 7
  BY DEF portability_severity, PortabilityBySeverity
<1>4. /\ portability_severity("NotPortableArtifact") = 8
      /\ portability_severity("NotPortableRuntime") = 9
      /\ portability_severity("NotPortableState") = 10
      /\ portability_severity("NotPortableArchitecture") = 11
  BY DEF portability_severity, PortabilityBySeverity
<1> QED
  BY <1>1, <1>2, <1>3, <1>4 DEF Decidable

(* The outcome of each dimension.                                           *)
LEMMA DimensionOutcomes ==
  ASSUME NEW source_runtime, NEW in, NEW d \in Dimensions
  PROVE  dimensions(source_runtime, in)[d].outcome \in Decidable
<1>1. ASSUME NEW satisfied, NEW otherwise \in Decidable
      PROVE  Supported(satisfied, otherwise) \in Decidable
  BY <1>1 DEF Supported, Decidable
<1>2. Unconstrained.outcome \in Decidable
  BY DEF Unconstrained, Decidable
<1>3. ASSUME NEW o \in Decidable PROVE Bears(o).outcome \in Decidable
  BY DEF Bears
<1>4. /\ "NotPortableArtifact" \in Decidable /\ "PortableWithStateTranslation" \in Decidable
      /\ "NotPortableState" \in Decidable /\ "PortableWithRecompile" \in Decidable
  BY DEF Decidable
<1> DEFINE artifact == in.artifact
           set == in.capabilities
<1>5. binary(artifact, in.class, set).outcome \in Decidable
  BY <1>2 DEF binary, Bears, Decidable
<1>6. data_format(artifact, set).outcome \in Decidable
  BY <1>1, <1>2, <1>3, <1>4 DEF data_format
<1>7. model(artifact, set).outcome \in Decidable
  BY <1>1, <1>2, <1>3, <1>4 DEF model
<1>8. /\ state_format(artifact, set, "PortableWithStateTranslation").outcome \in Decidable
      /\ state_format(artifact, set, "NotPortableState").outcome \in Decidable
  BY <1>1, <1>2, <1>3, <1>4 DEF state_format
<1>9. runtime_api(source_runtime, in.runtime).outcome \in Decidable
  BY DEF runtime_api, Bears, Decidable
<1>10. kernel(artifact, set).outcome \in Decidable
  BY <1>1, <1>2, <1>3, <1>4 DEF kernel
<1>11. numerical_semantic(in.workload, set).outcome \in Decidable
  BY <1>2 DEF numerical_semantic, Bears, Decidable
<1>12. operational(in.cluster).outcome \in Decidable
  BY DEF operational, Bears, Decidable
<1> HIDE DEF artifact, set
<1> QED
  BY <1>2, <1>5, <1>6, <1>7, <1>8, <1>9, <1>10, <1>11, <1>12
  DEF dimensions, Dimensions, artifact, set

(* A dimension that is open decides the verdict of assess_portability.      *)
LEMMA OpenDecides ==
  ASSUME NEW source_runtime, NEW in, NEW d \in Dimensions,
         dimensions(source_runtime, in)[d] = Bears("Unknown")
  PROVE  assess_portability(source_runtime, in).overall = "Unknown"
<1> DEFINE dims == dimensions(source_runtime, in)
           bearing == {dims[e].outcome : e \in {x \in Dimensions : dims[x].constrains}}
           blocked == permits_target(in.policy, in.cluster_id, in.cluster.site) = "No"
           deciding == bearing \cup (IF blocked THEN {"NotPortablePolicy"} ELSE {})
<1>1. assess_portability(source_runtime, in).overall = WeakestOf(deciding)
  BY DEF assess_portability
<1>2. \A e \in Dimensions : dims[e].outcome \in Decidable
  BY DimensionOutcomes
<1>3. deciding \subseteq Decidable
  <2>1. "NotPortablePolicy" \in Decidable
    BY DEF Decidable
  <2> QED
    BY <1>2, <2>1
<1>4. dims[d].constrains /\ dims[d].outcome = "Unknown"
  BY DEF Bears
<1>5. "Unknown" \in deciding
  BY <1>4
<1> HIDE DEF deciding
<1>6. \A o \in deciding : portability_severity(o) <= portability_severity("Unknown")
  BY <1>3, UnknownIsWeakest
<1>7. \A o \in deciding : portability_severity("Unknown") <= portability_severity(o)
                          => o = "Unknown"
  BY <1>3, UnknownIsWeakest
<1>8. /\ WeakestOf(deciding) \in deciding
      /\ \A p \in deciding : portability_severity(p) <= portability_severity(WeakestOf(deciding))
  BY <1>5, <1>6 DEF WeakestOf
<1> QED
  BY <1>1, <1>5, <1>7, <1>8

(* assess_portability: a destination whose evidence is not current leaves   *)
(* the verdict unknown, whatever else is published and whatever the policy  *)
(* says.                                                                    *)
LEMMA StaleDestination ==
  ASSUME NEW source_runtime, NEW in, in.cluster.currentness # "Current"
  PROVE  assess_portability(source_runtime, in).overall = "Unknown"
<1>1. "Operational" \in Dimensions
  BY DEF Dimensions
<1>2. dimensions(source_runtime, in)["Operational"] = operational(in.cluster)
  BY DEF dimensions, Dimensions
<1>3. operational(in.cluster) = Bears("Unknown")
  BY DEF operational
<1> QED
  BY <1>1, <1>2, <1>3, OpenDecides

(* So it does when nobody says which runtime the workload is on.            *)
LEMMA NoSource ==
  ASSUME NEW in
  PROVE  assess_portability(Nothing, in).overall = "Unknown"
<1>1. "RuntimeApi" \in Dimensions
  BY DEF Dimensions
<1>2. dimensions(Nothing, in)["RuntimeApi"] = runtime_api(Nothing, in.runtime)
  BY DEF dimensions, Dimensions
<1>3. runtime_api(Nothing, in.runtime) = Bears("Unknown")
  BY DEF runtime_api
<1> QED
  BY <1>1, <1>2, <1>3, OpenDecides

-----------------------------------------------------------------------------
(* The records                                                              *)

(* Kinds of records that there are.                                         *)
LEMMA KindsOfRecords ==
  {"clusters", "runtimes", "accelerator_classes", "placements", "workloads"}
    \subseteq DOMAIN FieldsOf
BY DEF FieldsOf

(* Replacing a field of a record by a valid value keeps the records well    *)
(* formed.                                                                  *)
LEMMA ReplaceKeepsForm ==
  ASSUME NEW all, WellFormed(all), NEW kind, NEW i, NEW field, NEW v, Valid(kind, field, v),
         v \in Said(kind, field)
  PROVE  WellFormed([all EXCEPT ![kind][i][field] = v])
<1> DEFINE new == [all EXCEPT ![kind][i][field] = v]
<1>1. DOMAIN new = DOMAIN FieldsOf
  BY DEF WellFormed
<1>2. ASSUME NEW k \in DOMAIN FieldsOf
      PROVE  DOMAIN new[k] = DOMAIN Registered[k]
  BY DEF WellFormed
<1>3. ASSUME NEW k \in DOMAIN FieldsOf, NEW j \in DOMAIN Registered[k]
      PROVE  DOMAIN new[k][j] = FieldsOf[k]
  BY DEF WellFormed
<1>4. ASSUME NEW k \in DOMAIN FieldsOf, NEW j \in DOMAIN Registered[k], NEW f \in FieldsOf[k]
      PROVE  Valid(k, f, new[k][j][f])
  <2>1. CASE k = kind /\ j = i /\ f = field
    <3>1. new[k][j][f] = v
      BY <2>1 DEF WellFormed
    <3> QED
      BY <2>1, <3>1
  <2>2. CASE ~(k = kind /\ j = i /\ f = field)
    <3>1. new[k][j][f] = all[k][j][f]
      BY <2>2 DEF WellFormed
    <3>2. Valid(k, f, all[k][j][f])
      BY DEF WellFormed
    <3> QED
      BY <3>1, <3>2
  <2> QED
    BY <2>1, <2>2
<1>5. ASSUME NEW w \in DOMAIN new.workloads
      PROVE  new.workloads[w] \in Workload
  <2>1. PICK old : old = all.workloads[w]
    OBVIOUS
  <2>2. w \in DOMAIN all.workloads /\ old \in Workload
    BY <2>1, KindsOfRecords DEF WellFormed
  <2>3. CASE kind = "workloads" /\ i = w
    <3>1. new.workloads[w] = [old EXCEPT ![field] = v]
      BY <2>1, <2>2, <2>3, KindsOfRecords DEF WellFormed
    <3>2. v \in Said("workloads", field)
      BY <2>3
    <3> SUFFICES [old EXCEPT ![field] = v] \in Workload
      BY <3>1
    <3>3. CASE field = "workload_class"
      BY <2>2, <3>2, <3>3 DEF Workload
    <3>4. CASE field = "artifact"
      BY <2>2, <3>2, <3>4 DEF Workload
    <3>5. CASE field = "policy"
      BY <2>2, <3>2, <3>5 DEF Workload
    <3>6. CASE field = "memory"
      BY <2>2, <3>2, <3>6 DEF Workload
    <3>7. CASE field = "required_accelerators"
      BY <2>2, <3>2, <3>7 DEF Workload
    <3>8. CASE field = "acceptable"
      BY <2>2, <3>2, <3>8 DEF Workload
    <3>9. CASE field = "requirements"
      BY <2>2, <3>2, <3>9 DEF Workload
    <3>10. CASE field = "isolation_requirement"
      BY <2>2, <3>2, <3>10 DEF Workload
    <3>11. CASE field = "required_domain_kind"
      BY <2>2, <3>2, <3>11 DEF Workload
    <3>12. CASE field \notin FieldsOf["workloads"]
      BY <2>2, <3>12 DEF Workload, FieldsOf
    <3> QED
      BY <3>1, <3>3, <3>4, <3>5, <3>6, <3>7, <3>8, <3>9, <3>10, <3>11, <3>12 DEF FieldsOf
  <2>4. CASE ~(kind = "workloads" /\ i = w)
    BY <2>1, <2>2, <2>4, KindsOfRecords DEF WellFormed
  <2> QED
    BY <2>3, <2>4
<1>6. ASSUME NEW k \in DOMAIN FieldsOf PROVE IsMap(new[k])
  <2>1. IsMap(all[k]) /\ k \in DOMAIN all
    BY DEF WellFormed
  <2>2. CASE k = kind
    <3>1. new[k] = [all[k] EXCEPT ![i] = [all[k][i] EXCEPT ![field] = v]]
      BY <2>1, <2>2
    <3> QED
      BY <3>1 DEF IsMap
  <2>3. CASE k # kind
    BY <2>1, <2>3
  <2> QED
    BY <2>2, <2>3
<1> HIDE DEF new
<1>7. WellFormed(new)
  BY <1>1, <1>2, <1>3, <1>4, <1>5, <1>6 DEF WellFormed
<1> QED
  BY <1>7 DEF new

(* A publication that changes a field keeps the records well formed.        *)
LEMMA PublishKeepsForm ==
  ASSUME TypeOK, NEW change, ValidChange(change), Publish(change),
         change.values \subseteq Said(change.kind, change.field)
  PROVE  TypeOK'
<1>1. PICK i \in change.ids, v \in change.values :
        records' = [records EXCEPT ![change.kind][i][change.field] = v]
  BY DEF Publish
<1>2. Valid(change.kind, change.field, v) /\ v \in Said(change.kind, change.field)
  BY DEF ValidChange
<1>3. WellFormed([records EXCEPT ![change.kind][i][change.field] = v])
  BY <1>2, ReplaceKeepsForm DEF TypeOK
<1>4. WellFormed(records')
  BY <1>1, <1>3
<1>5. WellFormed(records)'
  BY <1>4
<1>6. changed' \in Nat
  BY DEF Publish, TypeOK
<1> QED
  BY <1>5, <1>6 DEF TypeOK

(* So does one that no longer says a capability.                            *)
LEMMA SilenceKeepsForm ==
  ASSUME TypeOK, NEW key, Silence(key)
  PROVE  TypeOK'
<1> DEFINE touched == {"clusters", "runtimes", "accelerator_classes"}
<1>1. DOMAIN records' = DOMAIN FieldsOf
  BY DEF Silence, TypeOK, WellFormed
<1>2. ASSUME NEW k \in touched
      PROVE  records'[k] = Silent(records[k], key)
  BY KindsOfRecords DEF Silence, TypeOK, WellFormed
<1>3. ASSUME NEW k \in DOMAIN FieldsOf \ touched
      PROVE  records'[k] = records[k]
  BY DEF Silence, TypeOK, WellFormed
<1>4. ASSUME NEW k \in DOMAIN FieldsOf
      PROVE  /\ DOMAIN records'[k] = DOMAIN records[k]
             /\ \A j \in DOMAIN records[k] :
                  /\ DOMAIN records'[k][j] = DOMAIN records[k][j]
                  /\ \A f \in DOMAIN records[k][j] :
                       f # "capabilities" => records'[k][j][f] = records[k][j][f]
  BY <1>2, <1>3 DEF Silent
<1>5. ASSUME NEW k, NEW v PROVE Valid(k, "capabilities", v)
  BY DEF Valid
<1>6. WellFormed(records')
  <2>1. records'.workloads = records.workloads
    BY <1>3, KindsOfRecords
  <2>2. ASSUME NEW k \in DOMAIN FieldsOf PROVE IsMap(records'[k])
    <3>1. CASE k \in touched
      BY <1>2, <3>1 DEF Silent, IsMap
    <3>2. CASE k \notin touched
      BY <1>3, <3>2 DEF TypeOK, WellFormed
    <3> QED
      BY <3>1, <3>2
  <2> QED
    BY <1>1, <1>4, <1>5, <2>1, <2>2 DEF TypeOK, WellFormed
<1>7. changed' \in Nat
  BY DEF Silence, TypeOK
<1>8. WellFormed(records)'
  BY <1>6
<1> QED
  BY <1>7, <1>8 DEF TypeOK

(* And a restart: what it leaves of a cluster is valid.                     *)
LEMMA RestartKeepsForm ==
  ASSUME TypeOK, Restart
  PROVE  TypeOK'
<1>1. DOMAIN records' = DOMAIN FieldsOf
  BY DEF Restart, TypeOK, WellFormed
<1>2. records'["clusters"] = [j \in DOMAIN records["clusters"] |->
        Unvalidated(records["clusters"][j])]
  BY KindsOfRecords DEF Restart, TypeOK, WellFormed
<1>3. records'["placements"] = [j \in DOMAIN records["placements"] |->
        [records["placements"][j] EXCEPT !.currentness = "Stale"]]
  BY KindsOfRecords DEF Restart, TypeOK, WellFormed
<1>4. ASSUME NEW k \in DOMAIN FieldsOf \ {"clusters", "placements"}
      PROVE  records'[k] = records[k]
  BY DEF Restart, TypeOK, WellFormed
<1>5. ASSUME NEW k \in DOMAIN FieldsOf
      PROVE  /\ DOMAIN records'[k] = DOMAIN records[k]
             /\ \A j \in DOMAIN records[k] :
                  /\ DOMAIN records'[k][j] = DOMAIN records[k][j]
                  /\ \A f \in DOMAIN records[k][j] :
                       \/ records'[k][j][f] = records[k][j][f]
                       \/ k = "placements"
                       \/ k = "clusters" /\ f = "readiness"
                       \/ k = "clusters" /\ f = "pools" /\ records'[k][j][f] = <<>>
                       \/ f = "currentness"
                          /\ records'[k][j][f] \in {"Retired", "RevalidationRequired"}
  <2>1. CASE k = "clusters"
    BY <1>2, <2>1 DEF Unvalidated
  <2>2. CASE k = "placements"
    BY <1>3, <2>2
  <2>3. CASE k \notin {"clusters", "placements"}
    BY <1>4, <2>3
  <2> QED
    BY <2>1, <2>2, <2>3
<1>6. ASSUME NEW v
      PROVE  /\ \A f : Valid("placements", f, v)
             /\ Valid("clusters", "pools", <<>>) /\ Valid("clusters", "readiness", v)
             /\ \A k : v \in {"Retired", "RevalidationRequired"} => Valid(k, "currentness", v)
  <2>1. DOMAIN <<>> = {} /\ IsFiniteSet({})
    BY FS_EmptySet
  <2> QED
    BY <2>1 DEF Valid, Currentness
<1>7. ASSUME NEW k \in DOMAIN FieldsOf, NEW j \in DOMAIN records[k], NEW f \in FieldsOf[k]
      PROVE  Valid(k, f, records'[k][j][f])
  <2>1. Valid(k, f, records[k][j][f]) /\ f \in DOMAIN records[k][j]
    BY DEF TypeOK, WellFormed
  <2>2. \/ records'[k][j][f] = records[k][j][f]
        \/ k = "placements"
        \/ k = "clusters" /\ f = "readiness"
        \/ k = "clusters" /\ f = "pools" /\ records'[k][j][f] = <<>>
        \/ f = "currentness" /\ records'[k][j][f] \in {"Retired", "RevalidationRequired"}
    BY <1>5, <2>1
  <2> QED
    BY <1>6, <2>1, <2>2
<1>8. WellFormed(records')
  <2>1. records'.workloads = records.workloads
    BY <1>4, KindsOfRecords
  <2>2. ASSUME NEW k \in DOMAIN FieldsOf PROVE IsMap(records'[k])
    <3>1. CASE k \in {"clusters", "placements"}
      BY <1>2, <1>3, <3>1 DEF IsMap
    <3>2. CASE k \notin {"clusters", "placements"}
      BY <1>4, <3>2 DEF TypeOK, WellFormed
    <3> QED
      BY <3>1, <3>2
  <2> QED
    BY <1>1, <1>5, <1>7, <2>1, <2>2 DEF TypeOK, WellFormed
<1>9. WellFormed(records)'
  BY <1>8
<1> QED
  BY <1>9 DEF TypeOK, Restart

(* The type invariant of Analyses, for every valid set of records and       *)
(* publications: what is published of a cluster or a workload stays what    *)
(* the registry lets through.                                               *)
THEOREM AnalysesTypeCorrect == Spec => []TypeOK
<1>0. /\ \A n \in DOMAIN Changes :
           Changes[n].values \subseteq Said(Changes[n].kind, Changes[n].field)
      /\ \A n \in DOMAIN Losses :
           Losses[n].values \subseteq Said(Losses[n].kind, Losses[n].field)
  BY DEF Said, SaidBy
<1>1. Init => TypeOK
  BY RecordsAssumption DEF Init, TypeOK
<1>2. TypeOK /\ [Next]_vars => TypeOK'
  <2> SUFFICES ASSUME TypeOK, [Next]_vars PROVE TypeOK'
    OBVIOUS
  <2>1. ASSUME NEW n \in DOMAIN Changes, Publish(Changes[n]) PROVE TypeOK'
    BY <1>0, <2>1, RecordsAssumption, PublishKeepsForm
  <2>2. ASSUME NEW n \in DOMAIN Losses, Publish(Losses[n]) PROVE TypeOK'
    BY <1>0, <2>2, RecordsAssumption, PublishKeepsForm
  <2>3. ASSUME NEW key, Silence(key) PROVE TypeOK'
    BY <2>3, SilenceKeepsForm
  <2>4. ASSUME Restart PROVE TypeOK'
    BY <2>4, RestartKeepsForm
  <2>5. ASSUME UNCHANGED vars PROVE TypeOK'
    BY <2>5 DEF vars, TypeOK
  <2> QED
    BY <2>1, <2>2, <2>3, <2>4, <2>5 DEF Next
<1> QED
  BY <1>1, <1>2, PTL DEF Spec

(* The inputs of an assessment of records that are well formed are valid.   *)
LEMMA CollectedInputs ==
  ASSUME NEW all, WellFormed(all), NEW c \in DOMAIN all.clusters, NEW w \in DOMAIN all.workloads
  PROVE  LET in == collect_assessment_inputs(all, c, w) IN
         /\ in.cluster = all.clusters[c] /\ in.workload = all.workloads[w]
         /\ all.clusters[c].currentness \in Currentness
         /\ InputsOK(in)
<1> DEFINE in == collect_assessment_inputs(all, c, w)
<1>1. in.cluster = all.clusters[c] /\ in.workload = all.workloads[w]
  BY DEF collect_assessment_inputs
<1>2. "currentness" \in FieldsOf["clusters"] /\ "requirements" \in FieldsOf["workloads"]
  BY DEF FieldsOf
<1>3. /\ Valid("clusters", "currentness", all["clusters"][c]["currentness"])
      /\ Valid("workloads", "requirements", all["workloads"][w]["requirements"])
  BY <1>2, KindsOfRecords DEF WellFormed
<1>4. /\ all.clusters[c].currentness \in Currentness
      /\ \A req \in all.workloads[w].requirements : req.comparator \in Comparators
  BY <1>3 DEF Valid
<1> HIDE DEF in
<1>5. InputsOK(in)
  BY <1>1, <1>4 DEF InputsOK
<1> QED
  BY <1>1, <1>4, <1>5 DEF in

(* A finding is of a cluster whose evidence is current.                     *)
LEMMA FindingsAreCurrent ==
  ASSUME NEW all, NEW class, NEW f \in findings(all, class, FALSE)
  PROVE  /\ f.cluster \in DOMAIN all.clusters
         /\ all.clusters[f.cluster].currentness = "Current"
BY DEF findings

(* What Analyses!ConclusionsNeedCurrentEvidence says of records that are    *)
(* well formed: compatibility.cpp, portability.cpp and analysis.cpp draw no *)
(* conclusion about a cluster whose evidence is not current.                *)
LEMMA StaleIsOpen ==
  ASSUME WellFormed(records)
  PROVE  ConclusionsNeedCurrentEvidence
<1> SUFFICES ASSUME NEW c \in DOMAIN records.clusters, NEW w \in DOMAIN records.workloads,
                    records.clusters[c].currentness # "Current"
             PROVE  /\ is_undecided(compatibility(records, c, w).overall)
                    /\ evaluate_portability(records, w, c).overall = "Unknown"
                    /\ \A f \in FindingsOf(records) : f.cluster # c
  BY DEF ConclusionsNeedCurrentEvidence, Pairs
<1>1. PICK in : in = collect_assessment_inputs(records, c, w)
  OBVIOUS
<1>2. /\ in.cluster = records.clusters[c]
      /\ in.cluster.currentness \in Currentness
      /\ InputsOK(in)
  BY <1>1, CollectedInputs
<1>3. is_undecided(compatibility(records, c, w).overall)
  <2>1. compatibility(records, c, w) = assess_compatibility(in)
    BY <1>1 DEF compatibility
  <2>2. \E o \in checks(in) : o \in Open
    <3>1. CASE in.cluster = Nothing
      BY <3>1 DEF checks, Open
    <3>2. CASE in.cluster # Nothing
      <4>1. freshness(in.cluster.currentness) \in checks(in)
        BY <3>2 DEF checks
      <4>2. freshness(in.cluster.currentness) \in Open
        BY <1>2, FreshnessOutcome
      <4> QED
        BY <4>1, <4>2
    <3> QED
      BY <3>1, <3>2
  <2> QED
    BY <1>2, <2>1, <2>2, VerdictOfChecks
<1>4. evaluate_portability(records, w, c).overall = "Unknown"
  <2>1. evaluate_portability(records, w, c)
          = assess_portability(source_runtime_for(records, w), in)
    BY <1>1 DEF evaluate_portability
  <2> QED
    BY <1>2, <2>1, StaleDestination
<1>5. \A f \in FindingsOf(records) : f.cluster # c
  BY FindingsAreCurrent DEF FindingsOf
<1> QED
  BY <1>3, <1>4, <1>5

(* README.md "absent evidence is never treated as evidence of absence", for *)
(* every federation: after fences, retirements and restarts no analysis     *)
(* concludes anything from a cluster whose evidence is not current.         *)
THEOREM NoConclusionFromStaleEvidence == Spec => []ConclusionsNeedCurrentEvidence
<1>1. TypeOK => ConclusionsNeedCurrentEvidence
  BY StaleIsOpen DEF TypeOK
<1> QED
  BY <1>1, AnalysesTypeCorrect, PTL

-----------------------------------------------------------------------------
(* Compatibility and stranded capacity                                      *)

(* A text that assess_compatibility finds supported, by either of the two   *)
(* comparators it uses, is supported in the eyes of evaluate_pool.          *)
LEMMA TextSupported ==
  ASSUME NEW set, NEW key, NEW text,
         \/ evaluate_requirement(Required(key, "AnyOf", TextSet({text})), set) = "Yes"
         \/ evaluate_requirement(Required(key, "Equals", Text(text)), set) = "Yes"
  PROVE  supports_text(set, key, text) = "Yes"
<1>1. ASSUME evaluate_requirement(Required(key, "AnyOf", TextSet({text})), set) = "Yes"
      PROVE  supports_text(set, key, text) = "Yes"
  <2> DEFINE v == set[key]
  <2>1. key \in DOMAIN set
    BY <1>1 DEF evaluate_requirement, Required, Unpublished
  <2>2. any_of(v, TextSet({text})) = "Yes"
    BY <1>1, <2>1 DEF evaluate_requirement, Required, Compare
  <2>3. \/ v.kind = "text" /\ v.v = text
        \/ v.kind = "set" /\ text \in v.v
    BY <2>2 DEF any_of, TextSet, tri_from_bool
  <2>4. equals(v, Text(text)) = "Yes"
    BY <2>3 DEF equals, Text, KindsOf, tri_from_bool
  <2> QED
    BY <2>1, <2>4 DEF supports_text
<1>2. ASSUME evaluate_requirement(Required(key, "Equals", Text(text)), set) = "Yes"
      PROVE  supports_text(set, key, text) = "Yes"
  <2>1. key \in DOMAIN set
    BY <1>2 DEF evaluate_requirement, Required, Unpublished
  <2>2. equals(set[key], Text(text)) = "Yes"
    BY <1>2, <2>1 DEF evaluate_requirement, Required, Compare
  <2> QED
    BY <2>1, <2>2 DEF supports_text
<1> QED
  BY <1>1, <1>2

(* FirstFound of evaluate_pool and the first runtime of compatibility are   *)
(* the same, as a cluster names only runtimes that are registered.          *)
LEMMA SameRuntime ==
  ASSUME NEW all, WellFormed(all), NEW c \in DOMAIN all.clusters
  PROVE  FirstFound(all.runtimes, all.clusters[c].runtimes)
           = first_runtime(all, all.clusters[c])
<1>1. PICK ids : ids = all.clusters[c].runtimes
  OBVIOUS
<1>2. ids \in Seq(DOMAIN all.runtimes)
  <2>1. "runtimes" \in FieldsOf["clusters"]
    BY DEF FieldsOf
  <2>2. /\ Valid("clusters", "runtimes", all["clusters"][c]["runtimes"])
        /\ DOMAIN all["runtimes"] = DOMAIN Registered["runtimes"]
    BY <2>1, KindsOfRecords DEF WellFormed
  <2> QED
    BY <1>1, <2>2 DEF Valid
<1>3. CASE ids = <<>>
  BY <1>1, <1>3 DEF FirstFound, first_runtime
<1>4. CASE ids # <<>>
  <2>1. 1 \in DOMAIN ids /\ ids[1] \in DOMAIN all.runtimes /\ Head(ids) = ids[1]
    BY <1>2, <1>4
  <2>2. {n \in DOMAIN ids : ids[n] \in DOMAIN all.runtimes} = 1..Len(ids)
    BY <1>2
  <2>3. Min(1..Len(ids)) = 1
    BY <1>2, <2>1 DEF Min
  <2> QED
    BY <1>1, <1>4, <2>1, <2>2, <2>3 DEF FirstFound, first_runtime, Find
<1> QED
  BY <1>3, <1>4

(* The reasons a policy gives                                               *)
Restrictions == {"SiteRestriction", "PolicyRestriction"}

(* What a policy judges a pool for is never technical.                      *)
LEMMA PolicyJudgements ==
  ASSUME NEW policy, NEW id, NEW cluster, NEW sites
  PROVE  policy_judgements(policy, id, cluster, sites) \subseteq Restrictions
<1>1. permits_cluster(policy, id) \in {"Yes", "No"}
  BY TriTypes DEF permits_cluster, permits
<1> QED
  BY <1>1 DEF policy_judgements, Judge, Restrictions

(* An artifact whose checks all fit is held back by nothing but its state   *)
(* format, which compatibility does not look at, and by what is open.       *)
LEMMA ArtifactFits ==
  ASSUME NEW artifact, NEW class, NEW runtime, NEW set,
         artifact.runtime_abi \in Seq(Nat), artifact.driver_abi \in Seq(Nat),
         architecture_checks(artifact, class) \subseteq Fitting,
         format_checks(artifact, set) \subseteq Fitting,
         abi_checks(artifact, runtime) \subseteq Fitting
  PROVE  artifact_judgements(artifact, class, runtime, set)
           \subseteq {Undecided, "MissingLocalStorageState"}
<1> DEFINE architecture == Published(class, "architecture")
           abi == Published(runtime, "abi")
<1>1. (IF ~is_code_bearing(artifact.kind) THEN {}
       ELSE IF artifact.target_architectures = {} \/ architecture = <<>> THEN {Undecided}
       ELSE Judge(tri_from_bool(architecture \in artifact.target_architectures),
                  "ArtifactIncompatibility")) \subseteq {Undecided}
  <2>1. CASE /\ is_code_bearing(artifact.kind)
             /\ ~(artifact.target_architectures = {} \/ architecture = <<>>)
    <3>1. architecture \in artifact.target_architectures
      BY <2>1 DEF architecture_checks, Fitting
    <3> QED
      BY <2>1, <3>1 DEF Judge, tri_from_bool
  <2> QED
    BY <2>1
<1>2. {"AnyOf", "Equals"} \subseteq Comparators
  BY DEF Comparators
<1>3. JudgeText(artifact.format, set, "ArtifactFormats", "ArtifactIncompatibility") = {}
  <2> DEFINE req == Required("ArtifactFormats", "AnyOf", TextSet({artifact.format}))
  <2>1. CASE artifact.format # <<>>
    <3>1. requirement_outcome(req, set) \in Fitting
      BY <2>1 DEF format_checks, WhenSet
    <3>2. evaluate_requirement(req, set) = "Yes"
      BY <1>2, <3>1, OwnRequirement
    <3>3. supports_text(set, "ArtifactFormats", artifact.format) = "Yes"
      BY <3>2, TextSupported
    <3> QED
      BY <3>3 DEF JudgeText, Judge
  <2> QED
    BY <2>1 DEF JudgeText
<1>4. JudgeText(artifact.kernel_format, set, "KernelFormat", "ArtifactIncompatibility") = {}
  <2> DEFINE req == Required("KernelFormat", "Equals", Text(artifact.kernel_format))
  <2>1. CASE artifact.kernel_format # <<>>
    <3>1. requirement_outcome(req, set) \in Fitting
      BY <2>1 DEF format_checks, WhenSet
    <3>2. evaluate_requirement(req, set) = "Yes"
      BY <1>2, <3>1, OwnRequirement
    <3>3. supports_text(set, "KernelFormat", artifact.kernel_format) = "Yes"
      BY <3>2, TextSupported
    <3> QED
      BY <3>3 DEF JudgeText, Judge
  <2> QED
    BY <2>1 DEF JudgeText
<1>5. JudgeText(artifact.compiler_target, set, "CompilerTarget", "MissingCompilerTarget") = {}
  <2> DEFINE req == Required("CompilerTarget", "Equals", Text(artifact.compiler_target))
  <2>1. CASE artifact.compiler_target # <<>>
    <3>1. requirement_outcome(req, set) \in Fitting
      BY <2>1 DEF format_checks, WhenSet
    <3>2. evaluate_requirement(req, set) = "Yes"
      BY <1>2, <3>1, OwnRequirement
    <3>3. supports_text(set, "CompilerTarget", artifact.compiler_target) = "Yes"
      BY <3>2, TextSupported
    <3> QED
      BY <3>3 DEF JudgeText, Judge
  <2> QED
    BY <2>1 DEF JudgeText
<1>6. JudgeText(artifact.state_format, set, "ArtifactFormats", "MissingLocalStorageState")
        \subseteq {Undecided, "MissingLocalStorageState"}
  BY DEF JudgeText, Judge
<1>7. (IF artifact.runtime_abi = <<>> THEN {}
       ELSE IF abi = <<>> THEN {Undecided}
       ELSE Judge(tri_from_bool(abi = artifact.runtime_abi), "AbiMismatch")) \subseteq {Undecided}
  <2>1. CASE artifact.runtime_abi # <<>>
    <3>1. artifact.runtime_abi \o artifact.driver_abi # <<>>
      BY <2>1
    <3>2. compare_runtime_versions(artifact.runtime_abi, abi, artifact.driver_abi,
                                   Published(runtime, "driver_abi")) \in Fitting
      BY <3>1 DEF abi_checks, WhenSet
    <3>3. abi = artifact.runtime_abi
      BY <2>1, <3>2 DEF compare_runtime_versions, Fitting
    <3> QED
      BY <3>3 DEF Judge, tri_from_bool
  <2> QED
    BY <2>1
<1> QED
  BY <1>1, <1>3, <1>4, <1>5, <1>6, <1>7 DEF artifact_judgements

(* A workload whose checks all fit is held back by nothing.                 *)
LEMMA WorkloadFits ==
  ASSUME NEW workload, NEW class, NEW set,
         \A req \in workload.requirements : req.comparator \in Comparators,
         workload.memory \in Nat, class # Nothing => class.memory \in Nat,
         workload_checks(workload, class, set) \subseteq Fitting
  PROVE  workload_judgements(workload, class, set) \subseteq {Undecided}
<1>1. ASSUME NEW req \in workload.requirements
      PROVE  (IF req.optional /\ evaluate_requirement(req, set) = "No" THEN {}
              ELSE Judge(evaluate_requirement(req, set), reason_for_requirement(req.key))) = {}
  <2>1. requirement_outcome(req, set) \in Fitting
    BY DEF workload_checks
  <2>2. \/ evaluate_requirement(req, set) = "Yes"
        \/ req.optional /\ evaluate_requirement(req, set) = "No"
    BY <2>1, RequirementOutcome
  <2> QED
    BY <2>2 DEF Judge
<1>2. (IF workload.memory = 0 THEN {}
       ELSE IF class = Nothing THEN {Undecided}
       ELSE IF class.memory = 0 THEN {Undecided}
       ELSE Judge(tri_from_bool(workload.memory <= class.memory), "MemoryInsufficient"))
        \subseteq {Undecided}
  <2>1. CASE workload.memory # 0 /\ class # Nothing /\ class.memory # 0
    <3>1. memory_checks(workload, class) \subseteq Fitting
      BY DEF workload_checks
    <3>2. ~(workload.memory > class.memory)
      BY <2>1, <3>1 DEF memory_checks, Fitting
    <3>3. workload.memory <= class.memory
      BY <2>1, <3>2
    <3> QED
      BY <2>1, <3>3 DEF Judge, tri_from_bool
  <2> QED
    BY <2>1
<1> DEFINE Of(req) ==
             IF req.optional /\ evaluate_requirement(req, set) = "No" THEN {}
             ELSE Judge(evaluate_requirement(req, set), reason_for_requirement(req.key))
           memory ==
             IF workload.memory = 0 THEN {}
             ELSE IF class = Nothing THEN {Undecided}
             ELSE IF class.memory = 0 THEN {Undecided}
             ELSE Judge(tri_from_bool(workload.memory <= class.memory), "MemoryInsufficient")
<1>3. memory \subseteq {Undecided}
  BY <1>2
<1>4. \A req \in workload.requirements : Of(req) = {}
  BY <1>1
<1>5. ASSUME NEW j \in workload_judgements(workload, class, set)
      PROVE  (\E req \in workload.requirements : j \in Of(req)) \/ j \in memory
  BY DEF workload_judgements
<1> HIDE DEF Of, memory
<1> QED
  BY <1>3, <1>4, <1>5

(* evaluate_pool of what assess_compatibility finds to fit: what holds a    *)
(* pool back is the state format, the policy or an open question.           *)
LEMMA PoolOfFitting ==
  ASSUME NEW workload, NEW artifact, NEW id, NEW cluster, NEW sites, NEW class, NEW runtime,
         NEW policy, NEW in, InputsOK(in), checks(in) \subseteq Fitting,
         in.cluster = cluster, in.workload = workload, in.artifact = artifact \/ artifact = Nothing,
         in.class = class, in.runtime = runtime,
         in.capabilities = merge_capabilities(cluster.capabilities,
           IF class = Nothing THEN <<>> ELSE class.capabilities,
           IF runtime = Nothing THEN <<>> ELSE runtime.capabilities),
         artifact # Nothing => /\ artifact.runtime_abi \in Seq(Nat)
                               /\ artifact.driver_abi \in Seq(Nat),
         workload # Nothing => workload.memory \in Nat,
         class # Nothing => class.memory \in Nat
  PROVE  evaluate_pool(workload, artifact, id, cluster, sites, class, runtime, policy)
           \subseteq {Undecided, "MissingLocalStorageState"} \cup Restrictions
<1> DEFINE set == in.capabilities
<1>1. cluster # Nothing
  BY DEF checks, Fitting
<1>2. artifact # Nothing =>
        artifact_judgements(artifact, class, runtime, set)
          \subseteq {Undecided, "MissingLocalStorageState"}
  <2> SUFFICES ASSUME artifact # Nothing
               PROVE  artifact_judgements(artifact, class, runtime, set)
                        \subseteq {Undecided, "MissingLocalStorageState"}
    OBVIOUS
  <2>1. /\ architecture_checks(artifact, class) \subseteq Fitting
        /\ format_checks(artifact, set) \subseteq Fitting
        /\ abi_checks(artifact, runtime) \subseteq Fitting
    BY <1>1 DEF checks
  <2> QED
    BY <2>1, ArtifactFits
<1>3. workload # Nothing => workload_judgements(workload, class, set) \subseteq {Undecided}
  <2> SUFFICES ASSUME workload # Nothing
               PROVE  workload_judgements(workload, class, set) \subseteq {Undecided}
    OBVIOUS
  <2>1. workload_checks(workload, class, set) \subseteq Fitting
    BY <1>1 DEF checks
  <2>2. \A req \in workload.requirements : req.comparator \in Comparators
    BY DEF InputsOK
  <2> QED
    BY <2>1, <2>2, WorkloadFits
<1>4. policy_judgements(policy, id, cluster, sites) \subseteq Restrictions
  BY PolicyJudgements
<1> QED
  BY <1>2, <1>3, <1>4 DEF evaluate_pool

(* What evaluate_pool is asked, and says, of one pool of one cluster        *)
ArtifactOf(all, workload) ==
  IF workload = Nothing THEN Nothing ELSE Find(all.artifacts, workload.artifact)
PolicyOf(all, workload) ==
  IF workload = Nothing THEN Nothing ELSE Find(all.policies, workload.policy)
PoolJudgements(all, workload, c, n) ==
  evaluate_pool(workload, ArtifactOf(all, workload), c, all.clusters[c], DOMAIN all.sites,
                Find(all.accelerator_classes, all.clusters[c].pools[n].class),
                FirstFound(all.runtimes, all.clusters[c].runtimes), PolicyOf(all, workload))

(* A finding is what evaluate_pool says of one pool of one cluster.         *)
LEMMA FindingOfPool ==
  ASSUME NEW all, NEW class, NEW f \in findings(all, class, FALSE)
  PROVE  f.judgements = PoolJudgements(all, select_workload(all, class), f.cluster, f.pool)
BY DEF findings, PoolJudgements, ArtifactOf, PolicyOf

(* What is looked up in records that are well formed is well formed.        *)
LEMMA FoundIsValid ==
  ASSUME NEW all, WellFormed(all), NEW id
  PROVE  LET artifact == Find(all.artifacts, id)
             class == Find(all.accelerator_classes, id) IN
         /\ artifact # Nothing => /\ artifact.runtime_abi \in Seq(Nat)
                                  /\ artifact.driver_abi \in Seq(Nat)
         /\ class # Nothing => class.memory \in Nat
         /\ id \in DOMAIN all.workloads => all.workloads[id].memory \in Nat
<1>1. /\ {"runtime_abi", "driver_abi"} \subseteq FieldsOf["artifacts"]
      /\ "memory" \in FieldsOf["accelerator_classes"]
      /\ "memory" \in FieldsOf["workloads"]
      /\ {"artifacts", "accelerator_classes", "workloads"} \subseteq DOMAIN FieldsOf
  BY DEF FieldsOf
<1>2. ASSUME id \in DOMAIN all["artifacts"]
      PROVE  /\ Valid("artifacts", "runtime_abi", all["artifacts"][id]["runtime_abi"])
             /\ Valid("artifacts", "driver_abi", all["artifacts"][id]["driver_abi"])
  BY <1>1, <1>2 DEF WellFormed
<1>3. ASSUME id \in DOMAIN all["accelerator_classes"]
      PROVE  Valid("accelerator_classes", "memory", all["accelerator_classes"][id]["memory"])
  BY <1>1, <1>3 DEF WellFormed
<1>4. ASSUME id \in DOMAIN all["workloads"]
      PROVE  Valid("workloads", "memory", all["workloads"][id]["memory"])
  BY <1>1, <1>4 DEF WellFormed
<1> QED
  BY <1>2, <1>3, <1>4 DEF Find, Valid

(* What Analyses!CompatibleNotStranded says of records that are well        *)
(* formed.                                                                  *)
LEMMA FittingIsNotStranded ==
  ASSUME WellFormed(records)
  PROVE  CompatibleNotStranded
<1> SUFFICES ASSUME NEW c \in DOMAIN records.clusters, NEW w \in DOMAIN records.workloads,
                    is_compatible_family(compatibility(records, c, w).overall),
                    select_workload(records, records.workloads[w].workload_class)
                      = records.workloads[w],
                    NEW f \in findings(records, records.workloads[w].workload_class, FALSE),
                    f.cluster = c,
                    Find(records.accelerator_classes, records.clusters[c].pools[f.pool].class)
                      = target_class(records, records.clusters[c], records.workloads[w]),
                    NEW reason \in ReasonsOf(f.judgements) \ {"MissingLocalStorageState"}
             PROVE  ~is_technical_reason(reason)
  BY DEF CompatibleNotStranded, Pairs
<1>1. PICK in : in = collect_assessment_inputs(records, c, w)
  OBVIOUS
<1>2. PICK workload : workload = records.workloads[w]
  OBVIOUS
<1>3. PICK cluster : cluster = records.clusters[c]
  OBVIOUS
<1>4. PICK class : class = target_class(records, cluster, workload)
  OBVIOUS
<1>5. PICK runtime : runtime = first_runtime(records, cluster)
  OBVIOUS
<1>6. PICK artifact : artifact = ArtifactOf(records, workload)
  OBVIOUS
<1>7. InputsOK(in)
  BY <1>1, CollectedInputs
<1>8. checks(in) \subseteq Fitting
  <2>1. compatibility(records, c, w) = assess_compatibility(in)
    BY <1>1 DEF compatibility
  <2> QED
    BY <1>7, <2>1, VerdictOfChecks
<1>9. /\ in.cluster = cluster /\ in.workload = workload
      /\ in.artifact = artifact \/ artifact = Nothing
      /\ in.class = class /\ in.runtime = runtime
      /\ in.capabilities = merge_capabilities(cluster.capabilities,
           IF class = Nothing THEN <<>> ELSE class.capabilities,
           IF runtime = Nothing THEN <<>> ELSE runtime.capabilities)
  BY <1>1, <1>2, <1>3, <1>4, <1>5, <1>6 DEF collect_assessment_inputs, ArtifactOf
<1>10. class = Find(records.accelerator_classes, cluster.pools[f.pool].class)
  BY <1>2, <1>3, <1>4
<1>11. /\ artifact # Nothing => /\ artifact.runtime_abi \in Seq(Nat)
                                /\ artifact.driver_abi \in Seq(Nat)
       /\ workload.memory \in Nat
       /\ class # Nothing => class.memory \in Nat
  BY <1>2, <1>6, <1>10, FoundIsValid DEF ArtifactOf
<1>12. PICK policy : policy = PolicyOf(records, workload)
  OBVIOUS
<1>13. f.judgements = evaluate_pool(workload, artifact, c, cluster,
                                    DOMAIN records.sites, class, runtime, policy)
  <2>1. runtime = FirstFound(records.runtimes, cluster.runtimes)
    BY <1>3, <1>5, SameRuntime
  <2>2. PICK k : k = records.workloads[w].workload_class
    OBVIOUS
  <2>3. f.judgements = PoolJudgements(records, workload, c, f.pool)
    <3>1. f \in findings(records, k, FALSE) /\ select_workload(records, k) = workload
      BY <1>2, <2>2
    <3>2. f.judgements = PoolJudgements(records, select_workload(records, k), f.cluster, f.pool)
      BY <3>1, FindingOfPool
    <3> QED
      BY <3>1, <3>2
  <2> QED
    BY <1>3, <1>6, <1>10, <1>12, <2>1, <2>3 DEF PoolJudgements
<1>14. evaluate_pool(workload, artifact, c, cluster, DOMAIN records.sites, class, runtime, policy)
         \subseteq {Undecided, "MissingLocalStorageState"} \cup Restrictions
  BY <1>7, <1>8, <1>9, <1>11, PoolOfFitting
<1> QED
  BY <1>13, <1>14 DEF ReasonsOf, is_technical_reason, Restrictions

(* The two analyses do not contradict each other, for every federation: no  *)
(* pool of the class that a cluster was found compatible with is called     *)
(* stranded for a technical reason, except the state format that            *)
(* compatibility does not look at.  It rests on what register_cluster       *)
(* checks (observatory.cpp:712): that the runtimes a cluster names are      *)
(* registered, as the one analysis takes the first it names and the other   *)
(* the first it finds.                                                      *)
THEOREM AnalysesAgree == Spec => []CompatibleNotStranded
<1>1. TypeOK => CompatibleNotStranded
  BY FittingIsNotStranded DEF TypeOK
<1> QED
  BY <1>1, AnalysesTypeCorrect, PTL

-----------------------------------------------------------------------------
(* Policy                                                                   *)

(* Two workload records that differ at most in the policy they name.        *)
SameWork(a, b) ==
  /\ a # Nothing /\ b # Nothing
  /\ \A field \in FieldsOf["workloads"] \ {"policy"} : a[field] = b[field]

(* Two sets of records that differ at most in the policies and in which of  *)
(* them a workload names.                                                   *)
SameButPolicy(all, new) ==
  /\ \A kind \in DOMAIN FieldsOf \ {"policies", "workloads"} : new[kind] = all[kind]
  /\ DOMAIN new.workloads = DOMAIN all.workloads
  /\ \A w \in DOMAIN all.workloads : SameWork(all.workloads[w], new.workloads[w])

(* The relation is symmetric.                                               *)
LEMMA SameButPolicySymmetric ==
  ASSUME NEW all, NEW new, SameButPolicy(all, new)
  PROVE  SameButPolicy(new, all)
BY DEF SameButPolicy, SameWork

(* The fields by name.                                                      *)
LEMMA SameFields ==
  ASSUME NEW all, NEW new, SameButPolicy(all, new)
  PROVE  /\ new.clusters = all.clusters /\ new.accelerator_classes = all.accelerator_classes
         /\ new.runtimes = all.runtimes /\ new.artifacts = all.artifacts
         /\ new.sites = all.sites /\ new.placements = all.placements
         /\ \A w \in DOMAIN all.workloads :
              LET a == all.workloads[w] b == new.workloads[w] IN
              /\ a # Nothing /\ b # Nothing
              /\ a.workload_class = b.workload_class /\ a.artifact = b.artifact
              /\ a.memory = b.memory /\ a.requirements = b.requirements
              /\ a.acceptable = b.acceptable
              /\ a.isolation_requirement = b.isolation_requirement
<1>1. {"clusters", "accelerator_classes", "runtimes", "artifacts", "sites", "placements"}
        \subseteq DOMAIN FieldsOf \ {"policies", "workloads"}
  BY DEF FieldsOf
<1>2. {"workload_class", "artifact", "memory", "requirements", "acceptable",
       "isolation_requirement"} \subseteq FieldsOf["workloads"] \ {"policy"}
  BY DEF FieldsOf
<1>3. /\ new.clusters = all.clusters /\ new.accelerator_classes = all.accelerator_classes
      /\ new.runtimes = all.runtimes /\ new.artifacts = all.artifacts
      /\ new.sites = all.sites /\ new.placements = all.placements
  BY <1>1 DEF SameButPolicy
<1>4. ASSUME NEW w \in DOMAIN all.workloads
      PROVE  LET a == all.workloads[w] b == new.workloads[w] IN
             /\ a # Nothing /\ b # Nothing
             /\ a.workload_class = b.workload_class /\ a.artifact = b.artifact
             /\ a.memory = b.memory /\ a.requirements = b.requirements
             /\ a.acceptable = b.acceptable
             /\ a.isolation_requirement = b.isolation_requirement
  <2>1. SameWork(all.workloads[w], new.workloads[w])
    BY DEF SameButPolicy
  <2> QED
    BY <1>2, <2>1 DEF SameWork
<1> QED
  BY <1>3, <1>4

(* Publishing a policy, or the policy that a workload names, leaves all     *)
(* else as it is.                                                           *)
LEMMA PolicyPublication ==
  ASSUME WellFormed(records), WellFormed(records'), NEW change, ValidChange(change),
         Publish(change), change.kind = "policies" \/ change.field = "policy"
  PROVE  SameButPolicy(records, records')
<1>1. PICK i \in change.ids, v \in change.values :
        records' = [records EXCEPT ![change.kind][i][change.field] = v]
  BY DEF Publish
<1>2. change.kind \in DOMAIN FieldsOf /\ change.field \in FieldsOf[change.kind]
  BY DEF ValidChange
<1>3. \A kind \in DOMAIN FieldsOf : "policy" \in FieldsOf[kind] => kind = "workloads"
  BY DEF FieldsOf
<1>4. change.kind \in {"policies", "workloads"}
  BY <1>2, <1>3
<1>5. change.kind = "workloads" => change.field = "policy"
  BY <1>2
<1>6. \A kind \in DOMAIN FieldsOf \ {"policies", "workloads"} : records'[kind] = records[kind]
  BY <1>1, <1>4 DEF WellFormed
<1>7. DOMAIN records'.workloads = DOMAIN records.workloads
  BY KindsOfRecords DEF WellFormed
<1>8. ASSUME NEW w \in DOMAIN records.workloads
      PROVE  SameWork(records.workloads[w], records'.workloads[w])
  <2>1. records.workloads[w] # Nothing /\ records'.workloads[w] # Nothing
    BY <1>7, RecordsAssumption DEF WellFormed
  <2>2. ASSUME NEW field \in FieldsOf["workloads"] \ {"policy"}
        PROVE  records.workloads[w][field] = records'.workloads[w][field]
    <3>1. ~(change.kind = "workloads" /\ change.field = field)
      BY <1>5
    <3>2. /\ "workloads" \in DOMAIN records /\ w \in DOMAIN records["workloads"]
          /\ field \in DOMAIN records["workloads"][w]
      BY KindsOfRecords DEF WellFormed
    <3>3. records'["workloads"][w][field] = records["workloads"][w][field]
      BY <1>1, <3>1, <3>2
    <3> QED
      BY <3>3
  <2> QED
    BY <2>1, <2>2 DEF SameWork
<1> QED
  BY <1>6, <1>7, <1>8 DEF SameButPolicy

(* The checks of compatibility do not look at the policy.                   *)
LEMMA ChecksWithoutPolicy ==
  ASSUME NEW all, NEW new, SameButPolicy(all, new),
         NEW c \in DOMAIN all.clusters, NEW w \in DOMAIN all.workloads
  PROVE  /\ checks(collect_assessment_inputs(new, c, w))
              = checks(collect_assessment_inputs(all, c, w))
         /\ \A source : dimensions(source, collect_assessment_inputs(new, c, w))
                          = dimensions(source, collect_assessment_inputs(all, c, w))
<1>1. PICK a : a = all.workloads[w]
  OBVIOUS
<1>2. PICK b : b = new.workloads[w]
  OBVIOUS
<1>3. /\ a # Nothing /\ b # Nothing
      /\ a.artifact = b.artifact /\ a.memory = b.memory /\ a.requirements = b.requirements
      /\ a.acceptable = b.acceptable /\ a.isolation_requirement = b.isolation_requirement
  BY <1>1, <1>2, SameFields
<1>4. /\ new.clusters = all.clusters /\ new.accelerator_classes = all.accelerator_classes
      /\ new.runtimes = all.runtimes /\ new.artifacts = all.artifacts
  BY SameFields
<1>5. PICK in : in = collect_assessment_inputs(all, c, w)
  OBVIOUS
<1>6. PICK other : other = collect_assessment_inputs(new, c, w)
  OBVIOUS
<1>7. PICK cluster : cluster = all.clusters[c]
  OBVIOUS
<1>8. PICK class : class = target_class(all, cluster, a)
  OBVIOUS
<1>9. PICK runtime : runtime = first_runtime(all, cluster)
  OBVIOUS
<1>10. class = target_class(new, cluster, b) /\ runtime = first_runtime(new, cluster)
  BY <1>3, <1>4, <1>8, <1>9 DEF target_class, first_runtime
<1>11. /\ in.cluster = cluster /\ other.cluster = cluster
       /\ in.workload = a /\ other.workload = b
       /\ in.class = class /\ other.class = class
       /\ in.runtime = runtime /\ other.runtime = runtime
  BY <1>1, <1>2, <1>4, <1>5, <1>6, <1>7, <1>8, <1>9, <1>10 DEF collect_assessment_inputs
<1>12. other.artifact = in.artifact
  BY <1>1, <1>2, <1>3, <1>4, <1>5, <1>6 DEF collect_assessment_inputs
<1>13. other.capabilities = in.capabilities
  BY <1>1, <1>2, <1>4, <1>5, <1>6, <1>7, <1>8, <1>9, <1>10 DEF collect_assessment_inputs
<1>14. ASSUME NEW set PROVE workload_checks(b, class, set) = workload_checks(a, class, set)
  BY <1>3 DEF workload_checks, memory_checks
<1>15. checks(other) = checks(in)
  BY <1>3, <1>11, <1>12, <1>13, <1>14 DEF checks
<1>16. ASSUME NEW set PROVE numerical_semantic(b, set) = numerical_semantic(a, set)
  BY <1>3 DEF numerical_semantic
<1>17. ASSUME NEW source PROVE dimensions(source, other) = dimensions(source, in)
  BY <1>11, <1>12, <1>13, <1>16 DEF dimensions
<1> QED
  BY <1>5, <1>6, <1>15, <1>17

(* The technical answers of compatibility and portability do not depend on  *)
(* the policy.                                                              *)
LEMMA VerdictsWithoutPolicy ==
  ASSUME NEW all, NEW new, SameButPolicy(all, new),
         NEW c \in DOMAIN all.clusters, NEW w \in DOMAIN all.workloads
  PROVE  /\ compatibility(all, c, w).overall = compatibility(new, c, w).overall
         /\ evaluate_portability(all, w, c).technically_blocked
              = evaluate_portability(new, w, c).technically_blocked
         /\ evaluate_portability(all, w, c).dimensions
              = evaluate_portability(new, w, c).dimensions
<1>1. PICK in : in = collect_assessment_inputs(all, c, w)
  OBVIOUS
<1>2. PICK other : other = collect_assessment_inputs(new, c, w)
  OBVIOUS
<1>3. checks(other) = checks(in) /\ \A source : dimensions(source, other) = dimensions(source, in)
  BY <1>1, <1>2, ChecksWithoutPolicy
<1>4. PICK source : source = source_runtime_for(all, w)
  OBVIOUS
<1>5. source = source_runtime_for(new, w)
  <2>1. new.clusters = all.clusters /\ new.runtimes = all.runtimes
        /\ new.placements = all.placements
    BY SameFields
  <2> QED
    BY <1>4, <2>1 DEF source_runtime_for, source_cluster, first_runtime
<1>6. compatibility(all, c, w).overall = compatibility(new, c, w).overall
  BY <1>1, <1>2, <1>3 DEF compatibility, assess_compatibility
<1>7. PICK dims : dims = dimensions(source, in)
  OBVIOUS
<1>8. dims = dimensions(source, other)
  BY <1>3, <1>7
<1>9. /\ evaluate_portability(all, w, c).dimensions = dims
      /\ evaluate_portability(new, w, c).dimensions = dims
  BY <1>1, <1>2, <1>4, <1>5, <1>7, <1>8 DEF evaluate_portability, assess_portability
<1>10. /\ evaluate_portability(all, w, c).technically_blocked
            = \E o \in {dims[d].outcome : d \in Dimensions} : is_technical_failure(o)
       /\ evaluate_portability(new, w, c).technically_blocked
            = \E o \in {dims[d].outcome : d \in Dimensions} : is_technical_failure(o)
  BY <1>1, <1>2, <1>4, <1>5, <1>7, <1>8 DEF evaluate_portability, assess_portability
<1> QED
  BY <1>6, <1>9, <1>10

(* The workload that stranded capacity is judged for is the same but for    *)
(* its policy.                                                              *)
LEMMA SelectedWithoutPolicy ==
  ASSUME NEW all, NEW new, SameButPolicy(all, new), NEW class,
         DOMAIN all.workloads \subseteq Nat
  PROVE  \/ select_workload(all, class) = Nothing /\ select_workload(new, class) = Nothing
         \/ \E w \in DOMAIN all.workloads : /\ select_workload(all, class) = all.workloads[w]
                                            /\ select_workload(new, class) = new.workloads[w]
<1>1. DOMAIN new.workloads = DOMAIN all.workloads
  BY DEF SameButPolicy
<1>2. \A w \in DOMAIN all.workloads :
        all.workloads[w].workload_class = new.workloads[w].workload_class
  BY SameFields
<1>3. {w \in DOMAIN new.workloads : new.workloads[w].workload_class = class}
        = {w \in DOMAIN all.workloads : all.workloads[w].workload_class = class}
  BY <1>1, <1>2
<1>4. PICK of : of = {w \in DOMAIN all.workloads : all.workloads[w].workload_class = class}
  OBVIOUS
<1>5. /\ select_workload(all, class) = IF of = {} THEN Nothing ELSE all.workloads[Min(of)]
      /\ select_workload(new, class) = IF of = {} THEN Nothing ELSE new.workloads[Min(of)]
  BY <1>3, <1>4 DEF select_workload
<1>6. of # {} => Min(of) \in of
  <2>1. of \subseteq Nat
    BY <1>4
  <2> QED
    BY <2>1, Smallest DEF Min
<1>7. of \subseteq DOMAIN all.workloads
  BY <1>4
<1> QED
  BY <1>5, <1>6, <1>7

(* What stays of the judgements of a pool without those of the policy.      *)
LEMMA JudgedWithoutPolicy ==
  ASSUME NEW a, NEW b, NEW artifact, NEW id, NEW cluster, NEW sites, NEW class, NEW runtime,
         NEW p, NEW q, a = Nothing <=> b = Nothing,
         a # Nothing => a.requirements = b.requirements /\ a.memory = b.memory
  PROVE  {j \in evaluate_pool(a, artifact, id, cluster, sites, class, runtime, p) :
            is_technical_reason(j)}
           = {j \in evaluate_pool(b, artifact, id, cluster, sites, class, runtime, q) :
                is_technical_reason(j)}
<1>1. PICK set : set = merge_capabilities(cluster.capabilities,
                         IF class = Nothing THEN <<>> ELSE class.capabilities,
                         IF runtime = Nothing THEN <<>> ELSE runtime.capabilities)
  OBVIOUS
<1>2. PICK technical : technical =
        (IF artifact = Nothing THEN {} ELSE artifact_judgements(artifact, class, runtime, set))
        \cup (IF a = Nothing THEN {} ELSE workload_judgements(a, class, set))
  OBVIOUS
<1>3. a # Nothing => workload_judgements(b, class, set) = workload_judgements(a, class, set)
  BY DEF workload_judgements
<1>4. technical =
        (IF artifact = Nothing THEN {} ELSE artifact_judgements(artifact, class, runtime, set))
        \cup (IF b = Nothing THEN {} ELSE workload_judgements(b, class, set))
  BY <1>2, <1>3
<1>5. ASSUME NEW policy
      PROVE  (IF policy = Nothing THEN {} ELSE policy_judgements(policy, id, cluster, sites))
               \subseteq Restrictions
  BY PolicyJudgements
<1>6. \A j \in Restrictions : ~is_technical_reason(j)
  BY DEF Restrictions, is_technical_reason
<1>7. CASE cluster.readiness \in {"NotReady", "Draining"} \/ class = Nothing
  BY <1>7 DEF evaluate_pool
<1>8. CASE ~(cluster.readiness \in {"NotReady", "Draining"} \/ class = Nothing)
  <2>1. PICK s : s = IF p = Nothing THEN {} ELSE policy_judgements(p, id, cluster, sites)
    OBVIOUS
  <2>2. PICK t : t = IF q = Nothing THEN {} ELSE policy_judgements(q, id, cluster, sites)
    OBVIOUS
  <2>3. /\ evaluate_pool(a, artifact, id, cluster, sites, class, runtime, p) = technical \cup s
        /\ evaluate_pool(b, artifact, id, cluster, sites, class, runtime, q) = technical \cup t
    BY <1>1, <1>2, <1>4, <1>8, <2>1, <2>2 DEF evaluate_pool
  <2>4. s \subseteq Restrictions /\ t \subseteq Restrictions
    BY <1>5, <2>1, <2>2
  <2> QED
    BY <1>6, <2>3, <2>4
<1> QED
  BY <1>7, <1>8

(* A pool of a current cluster, and a finding of it                         *)
CurrentPool(all, c, n) ==
  /\ c \in DOMAIN all.clusters /\ all.clusters[c].currentness = "Current"
  /\ n \in DOMAIN all.clusters[c].pools
HasFinding(all, class, c, n) ==
  \E f \in findings(all, class, FALSE) : f.cluster = c /\ f.pool = n

(* The findings have one for every pool of a current cluster.               *)
LEMMA FindingExists ==
  ASSUME NEW all, NEW class, NEW c, NEW n, CurrentPool(all, c, n)
  PROVE  HasFinding(all, class, c, n)
<1> DEFINE workload == select_workload(all, class)
           cluster == all.clusters[c]
           f == [cluster |-> c, pool |-> n, domain |-> cluster.domain, site |-> cluster.site,
                 nominal |-> cluster.pools[n].nominal, idle |-> cluster.pools[n].idle,
                 judgements |-> evaluate_pool(workload,
                   IF workload = Nothing THEN Nothing ELSE Find(all.artifacts, workload.artifact),
                   c, cluster, DOMAIN all.sites,
                   Find(all.accelerator_classes, cluster.pools[n].class),
                   FirstFound(all.runtimes, cluster.runtimes),
                   IF workload = Nothing THEN Nothing ELSE Find(all.policies, workload.policy))]
<1>1. f \in findings(all, class, FALSE)
  BY DEF findings, CurrentPool
<1>2. f.cluster = c /\ f.pool = n
  OBVIOUS
<1> HIDE DEF f
<1> QED
  BY <1>1, <1>2 DEF HasFinding

(* A finding is about a pool of its cluster.                                *)
LEMMA FindingHasPool ==
  ASSUME NEW all, NEW class, NEW f \in findings(all, class, FALSE)
  PROVE  f.pool \in DOMAIN all.clusters[f.cluster].pools
BY DEF findings

(* The same pool with the same technical judgements                         *)
Answered(f, fs) ==
  \E g \in fs : g.cluster = f.cluster /\ g.pool = f.pool /\ Technical(g) = Technical(f)

(* Every finding has one of the same pool and with the same technical       *)
(* judgements under another policy.                                         *)
LEMMA FindingWithoutPolicy ==
  ASSUME NEW all, NEW new, SameButPolicy(all, new), NEW class,
         DOMAIN all.workloads \subseteq Nat, NEW f \in findings(all, class, FALSE)
  PROVE  Answered(f, findings(new, class, FALSE))
<1>1. /\ new.clusters = all.clusters /\ new.accelerator_classes = all.accelerator_classes
      /\ new.runtimes = all.runtimes /\ new.artifacts = all.artifacts /\ new.sites = all.sites
  BY SameFields
<1>2. PICK c : c = f.cluster
  OBVIOUS
<1>3. PICK n : n = f.pool
  OBVIOUS
<1>4. CurrentPool(new, c, n)
  BY <1>1, <1>2, <1>3, FindingsAreCurrent, FindingHasPool DEF CurrentPool
<1>5. PICK g \in findings(new, class, FALSE) : g.cluster = c /\ g.pool = n
  <2>1. HasFinding(new, class, c, n)
    BY <1>4, FindingExists
  <2> QED
    BY <2>1 DEF HasFinding
<1>6. PICK a : a = select_workload(all, class)
  OBVIOUS
<1>7. PICK b : b = select_workload(new, class)
  OBVIOUS
<1>8. /\ a = Nothing <=> b = Nothing
      /\ a # Nothing => /\ a.requirements = b.requirements /\ a.memory = b.memory
                        /\ a.artifact = b.artifact
  <2>1. CASE a = Nothing /\ b = Nothing
    BY <2>1
  <2>2. CASE \E w \in DOMAIN all.workloads : a = all.workloads[w] /\ b = new.workloads[w]
    BY <2>2, SameFields
  <2> QED
    BY <1>6, <1>7, <2>1, <2>2, SelectedWithoutPolicy
<1>9. f.judgements = PoolJudgements(all, a, c, n) /\ g.judgements = PoolJudgements(new, b, c, n)
  BY <1>2, <1>3, <1>5, <1>6, <1>7, FindingOfPool
<1>10. PICK artifact : artifact = ArtifactOf(all, a)
  OBVIOUS
<1>11. artifact = ArtifactOf(new, b)
  BY <1>1, <1>8, <1>10 DEF ArtifactOf
<1>12. PICK cluster : cluster = all.clusters[c]
  OBVIOUS
<1>13. PICK sites : sites = DOMAIN all.sites
  OBVIOUS
<1>14. PICK accelerators : accelerators = Find(all.accelerator_classes, cluster.pools[n].class)
  OBVIOUS
<1>15. PICK runtime : runtime = FirstFound(all.runtimes, cluster.runtimes)
  OBVIOUS
<1>16. PICK p : p = PolicyOf(all, a)
  OBVIOUS
<1>17. PICK q : q = PolicyOf(new, b)
  OBVIOUS
<1>18. /\ f.judgements
            = evaluate_pool(a, artifact, c, cluster, sites, accelerators, runtime, p)
       /\ g.judgements
            = evaluate_pool(b, artifact, c, cluster, sites, accelerators, runtime, q)
  BY <1>1, <1>9, <1>10, <1>11, <1>12, <1>13, <1>14, <1>15, <1>16, <1>17 DEF PoolJudgements
<1>19. Technical(g) = Technical(f)
  BY <1>8, <1>18, JudgedWithoutPolicy DEF Technical
<1> QED
  BY <1>2, <1>3, <1>5, <1>19 DEF Answered

(* The technical side of all findings of some classes.                      *)
TechnicalOf(all, classes) ==
  {<<f.cluster, f.pool, Technical(f)>> : f \in UNION {findings(all, k, FALSE) : k \in classes}}

(* It does not depend on the policies.                                      *)
LEMMA FindingsWithoutPolicy ==
  ASSUME NEW all, NEW new, SameButPolicy(all, new), NEW classes,
         DOMAIN all.workloads \subseteq Nat
  PROVE  TechnicalOf(all, classes) \subseteq TechnicalOf(new, classes)
<1> SUFFICES ASSUME NEW k \in classes, NEW f \in findings(all, k, FALSE)
             PROVE  <<f.cluster, f.pool, Technical(f)>> \in TechnicalOf(new, classes)
  BY DEF TechnicalOf
<1>1. Answered(f, findings(new, k, FALSE))
  BY FindingWithoutPolicy
<1>2. PICK g \in findings(new, k, FALSE) :
        g.cluster = f.cluster /\ g.pool = f.pool /\ Technical(g) = Technical(f)
  BY <1>1 DEF Answered
<1> QED
  BY <1>2 DEF TechnicalOf

(* What Analyses!PolicyKeptApart says of one step.                          *)
LEMMA PolicyStep ==
  ASSUME WellFormed(records), WellFormed(records'), SameButPolicy(records, records')
  PROVE  SameTechnicalAnswers
<1>1. PICK all : all = records
  OBVIOUS
<1>2. PICK new : new = records'
  OBVIOUS
<1>3. PICK classes : classes = Classes
  OBVIOUS
<1>4. SameButPolicy(all, new) /\ SameButPolicy(new, all)
  BY <1>1, <1>2, SameButPolicySymmetric
<1>5. DOMAIN all.workloads \subseteq Nat /\ DOMAIN new.workloads \subseteq Nat
  BY <1>1, <1>2, RecordsAssumption, KindsOfRecords DEF WellFormed
<1>6. ASSUME NEW p \in Pairs
      PROVE  /\ compatibility(all, p[1], p[2]).overall = compatibility(new, p[1], p[2]).overall
             /\ evaluate_portability(all, p[2], p[1]).technically_blocked
                  = evaluate_portability(new, p[2], p[1]).technically_blocked
             /\ evaluate_portability(all, p[2], p[1]).dimensions
                  = evaluate_portability(new, p[2], p[1]).dimensions
  <2>1. PICK c \in DOMAIN all.clusters, w \in DOMAIN all.workloads : p = <<c, w>>
    BY <1>1 DEF Pairs
  <2>2. p[1] = c /\ p[2] = w
    BY <2>1
  <2> QED
    BY <1>4, <2>2, VerdictsWithoutPolicy
<1>7. TechnicalOf(all, classes) = TechnicalOf(new, classes)
  BY <1>4, <1>5, FindingsWithoutPolicy
<1>8. /\ {<<f.cluster, f.pool, Technical(f)>> : f \in FindingsOf(records)}
           = TechnicalOf(all, classes)
      /\ {<<f.cluster, f.pool, Technical(f)>> : f \in FindingsOf(records')}
           = TechnicalOf(new, classes)
  BY <1>1, <1>2, <1>3 DEF TechnicalOf, FindingsOf
<1> QED
  BY <1>1, <1>2, <1>6, <1>7, <1>8 DEF SameTechnicalAnswers

(* README.md "Policy admissibility is tracked outside the verdict", for     *)
(* every federation and every policy: publishing a policy, or the policy    *)
(* that a workload names, changes no technical answer of any analysis.      *)
THEOREM PolicyNeverTechnical == Spec => PolicyKeptApart
<1>1. ASSUME TypeOK, TypeOK', PolicyPublished
      PROVE  SameTechnicalAnswers
  <2>1. PICK n \in DOMAIN Changes : /\ Changes[n].kind = "policies" \/ Changes[n].field = "policy"
                                    /\ Publish(Changes[n])
    BY <1>1 DEF PolicyPublished
  <2>2. PICK change : change = Changes[n]
    OBVIOUS
  <2>3. ValidChange(change)
    BY <2>2, RecordsAssumption
  <2>4. SameButPolicy(records, records')
    BY <1>1, <2>1, <2>2, <2>3, PolicyPublication DEF TypeOK
  <2> QED
    BY <1>1, <2>4, PolicyStep DEF TypeOK
<1>2. ASSUME TypeOK, TypeOK', [Next]_vars
      PROVE  PolicyPublished => SameTechnicalAnswers
  BY <1>1, <1>2
<1> QED
  BY <1>2, AnalysesTypeCorrect, PTL DEF Spec, PolicyKeptApart

-----------------------------------------------------------------------------
(* Snapshots cut short by their bound                                       *)

(* What build_snapshot takes before the workloads.                          *)
BeforeWorkloads ==
  {"sites", "clusters", "accelerator_classes", "runtimes", "domains", "policies", "artifacts"}

(* The place of each kind in AppendOrder.                                   *)
LEMMA Places ==
  /\ Place("workloads") = 8
  /\ \A kind \in BeforeWorkloads : Place(kind) \in 1..7
  /\ \A kind \in DOMAIN FieldsOf : Place(kind) \in Nat
<1>1. Place("workloads") = 8
  BY DEF Place, AppendOrder
<1>2. Place("sites") = 1 /\ Place("clusters") = 2 /\ Place("accelerator_classes") = 3
  BY DEF Place, AppendOrder
<1>3. Place("runtimes") = 4 /\ Place("domains") = 5 /\ Place("policies") = 6
  BY DEF Place, AppendOrder
<1>4. Place("artifacts") = 7 /\ Place("placements") = 9
  BY DEF Place, AppendOrder
<1>5. DOMAIN FieldsOf = BeforeWorkloads \cup {"workloads", "placements"}
  BY DEF FieldsOf, BeforeWorkloads
<1> QED
  BY <1>1, <1>2, <1>3, <1>4, <1>5 DEF BeforeWorkloads

(* The records of a federation that is well formed are finitely many.       *)
LEMMA FinitelyMany ==
  ASSUME NEW all, WellFormed(all)
  PROVE  RecordsIn(all) = RecordsIn(Registered) /\ IsFiniteSet(RecordsIn(all))
<1>1. /\ DOMAIN all = DOMAIN FieldsOf /\ DOMAIN Registered = DOMAIN FieldsOf
      /\ \A kind \in DOMAIN FieldsOf : DOMAIN all[kind] = DOMAIN Registered[kind]
  BY RecordsAssumption DEF WellFormed
<1>2. RecordsIn(all) = RecordsIn(Registered)
  BY <1>1 DEF RecordsIn
<1> QED
  BY <1>2, RecordsAssumption

(* A record that has fewer before it is taken when one that has more is.    *)
LEMMA FewerEarlier ==
  ASSUME NEW all, WellFormed(all), NEW max \in Nat, NEW k, NEW i, NEW l, NEW j,
         Earlier(all, k, i) \subseteq Earlier(all, l, j),
         Cardinality(Earlier(all, l, j)) <= max
  PROVE  Cardinality(Earlier(all, k, i)) <= max
<1>1. PICK a : a = Earlier(all, k, i)
  OBVIOUS
<1>2. PICK b : b = Earlier(all, l, j)
  OBVIOUS
<1>3. b \subseteq RecordsIn(all) /\ a \subseteq b
  BY <1>1, <1>2 DEF Earlier
<1>4. IsFiniteSet(b)
  BY <1>3, FinitelyMany, FS_Subset
<1>5. Cardinality(a) <= Cardinality(b) /\ IsFiniteSet(a)
  BY <1>3, <1>4, FS_Subset
<1>6. Cardinality(a) \in Nat /\ Cardinality(b) \in Nat
  BY <1>4, <1>5, FS_CardinalityType
<1> QED
  BY <1>1, <1>2, <1>5, <1>6

(* When a workload is taken, all that workloads refer to is.                *)
LEMMA WholeBeforeWorkloads ==
  ASSUME NEW all, WellFormed(all), NEW max \in Nat, NEW cut, cut = build_snapshot(all, max),
         NEW w \in DOMAIN cut.workloads, NEW kind \in BeforeWorkloads
  PROVE  cut[kind] = all[kind]
<1>1. {"workloads", kind} \subseteq DOMAIN all
  BY DEF WellFormed, FieldsOf, BeforeWorkloads
<1>2. /\ w \in DOMAIN all["workloads"]
      /\ Cardinality(Earlier(all, "workloads", w)) <= max
  BY <1>1 DEF build_snapshot
<1>3. ASSUME NEW j \in DOMAIN all[kind]
      PROVE  Cardinality(Earlier(all, kind, j)) <= max
  <2>1. Place(kind) \in 1..7 /\ Place("workloads") = 8
    BY Places
  <2>2. ASSUME NEW e \in Earlier(all, kind, j)
        PROVE  e \in Earlier(all, "workloads", w)
    <3>1. e \in RecordsIn(all) /\ (Place(e[1]) < Place(kind) \/ e[1] = kind)
      BY DEF Earlier
    <3>2. PICK x \in DOMAIN all : e \in {x} \X DOMAIN all[x]
      BY <3>1 DEF RecordsIn
    <3>3. Place(e[1]) \in Nat
      BY <3>2, Places DEF WellFormed
    <3>4. Place(e[1]) < Place("workloads")
      BY <2>1, <3>1, <3>3
    <3> QED
      BY <3>1, <3>4 DEF Earlier
  <2>3. Earlier(all, kind, j) \subseteq Earlier(all, "workloads", w)
    BY <2>2
  <2> QED
    BY <1>2, <2>3, FewerEarlier
<1>4. cut[kind] = [i \in {j \in DOMAIN all[kind] : Cardinality(Earlier(all, kind, j)) <= max}
                     |-> all[kind][i]]
  BY <1>1 DEF build_snapshot
<1>5. all[kind] = [i \in DOMAIN all[kind] |-> all[kind][i]]
  BY <1>1 DEF WellFormed, IsMap
<1> QED
  BY <1>3, <1>4, <1>5

(* With a workload all those before it by identifier are taken.             *)
LEMMA WorkloadsBefore ==
  ASSUME NEW all, WellFormed(all), NEW max \in Nat, NEW cut, cut = build_snapshot(all, max)
  PROVE  /\ DOMAIN cut.workloads \subseteq DOMAIN all.workloads
         /\ \A v \in DOMAIN cut.workloads : cut.workloads[v] = all.workloads[v]
         /\ \A v \in DOMAIN all.workloads, w \in DOMAIN cut.workloads :
              v < w => v \in DOMAIN cut.workloads
<1>1. "workloads" \in DOMAIN all
  BY KindsOfRecords DEF WellFormed
<1>2. PICK map : map = all["workloads"]
  OBVIOUS
<1>3. cut["workloads"] =
        [i \in {j \in DOMAIN map : Cardinality(Earlier(all, "workloads", j)) <= max} |-> map[i]]
  BY <1>1, <1>2 DEF build_snapshot
<1>4. DOMAIN map \subseteq Nat
  BY <1>2, KindsOfRecords, RecordsAssumption DEF WellFormed
<1>5. ASSUME NEW v \in DOMAIN map, NEW w \in DOMAIN map, v < w,
             Cardinality(Earlier(all, "workloads", w)) <= max
      PROVE  Cardinality(Earlier(all, "workloads", v)) <= max
  <2>1. ASSUME NEW e \in Earlier(all, "workloads", v)
        PROVE  e \in Earlier(all, "workloads", w)
    <3>1. e \in RecordsIn(all)
          /\ (Place(e[1]) < Place("workloads") \/ (e[1] = "workloads" /\ e[2] < v))
      BY DEF Earlier
    <3>2. PICK x \in DOMAIN all : e \in {x} \X DOMAIN all[x]
      BY <3>1 DEF RecordsIn
    <3>3. e[1] = "workloads" /\ e[2] < v => e[2] < w
      <4>1. e[1] = "workloads" => e[2] \in DOMAIN map
        BY <1>2, <3>2
      <4> QED
        BY <1>4, <1>5, <4>1
    <3> QED
      BY <3>1, <3>3 DEF Earlier
  <2>2. Earlier(all, "workloads", v) \subseteq Earlier(all, "workloads", w)
    BY <2>1
  <2> QED
    BY <1>5, <2>2, FewerEarlier
<1> QED
  BY <1>2, <1>3, <1>5

(* The workload that a class stands for is the same in a snapshot that      *)
(* holds any workload of the class.                                         *)
LEMMA SelectedInSnapshot ==
  ASSUME NEW all, WellFormed(all), NEW max \in Nat, NEW cut, cut = build_snapshot(all, max),
         NEW w \in DOMAIN cut.workloads, NEW class, class = all.workloads[w].workload_class
  PROVE  select_workload(cut, class) = select_workload(all, class)
<1>1. PICK of : of = {v \in DOMAIN all.workloads : all.workloads[v].workload_class = class}
  OBVIOUS
<1>2. PICK here : here = {v \in DOMAIN cut.workloads : cut.workloads[v].workload_class = class}
  OBVIOUS
<1>3. /\ w \in of /\ w \in here /\ here \subseteq of
      /\ \A v \in of : v < w => v \in here
  BY <1>1, <1>2, WorkloadsBefore
<1>4. of \subseteq Nat
  BY <1>1, KindsOfRecords, RecordsAssumption DEF WellFormed
<1>5. PICK m \in of : \A v \in of : m <= v
  BY <1>3, <1>4, Smallest
<1>6. m \in here
  BY <1>3, <1>4, <1>5
<1>7. Min(of) = m /\ Min(here) = m
  BY <1>3, <1>4, <1>5, <1>6 DEF Min
<1>8. /\ select_workload(all, class) = all.workloads[m]
      /\ select_workload(cut, class) = cut.workloads[m]
  BY <1>1, <1>2, <1>3, <1>7 DEF select_workload
<1>9. m \in DOMAIN cut.workloads
  BY <1>2, <1>6
<1> QED
  BY <1>8, <1>9, WorkloadsBefore

(* What a snapshot that holds the workload has of the other records.        *)
LEMMA SameInSnapshot ==
  ASSUME NEW all, WellFormed(all), NEW max \in Nat, NEW cut, cut = build_snapshot(all, max),
         NEW w \in DOMAIN cut.workloads
  PROVE  /\ cut.sites = all.sites /\ cut.clusters = all.clusters
         /\ cut.accelerator_classes = all.accelerator_classes
         /\ cut.runtimes = all.runtimes /\ cut.policies = all.policies
         /\ cut.artifacts = all.artifacts /\ cut.workloads[w] = all.workloads[w]
<1>1. \A kind \in BeforeWorkloads : cut[kind] = all[kind]
  BY WholeBeforeWorkloads
<1> QED
  BY <1>1, WorkloadsBefore DEF BeforeWorkloads

(* Compatibility and stranded capacity are asked of the same records.       *)
LEMMA AnswersInSnapshot ==
  ASSUME NEW all, WellFormed(all), NEW max \in Nat, NEW cut, cut = build_snapshot(all, max),
         NEW c, NEW w \in DOMAIN cut.workloads
  PROVE  /\ collect_assessment_inputs(cut, c, w) = collect_assessment_inputs(all, c, w)
         /\ compatibility(cut, c, w) = compatibility(all, c, w)
<1>1. /\ cut.clusters = all.clusters /\ cut.accelerator_classes = all.accelerator_classes
      /\ cut.runtimes = all.runtimes /\ cut.policies = all.policies
      /\ cut.artifacts = all.artifacts /\ cut.workloads[w] = all.workloads[w]
  BY SameInSnapshot
<1>2. collect_assessment_inputs(cut, c, w) = collect_assessment_inputs(all, c, w)
  BY <1>1 DEF collect_assessment_inputs, target_class, first_runtime
<1> QED
  BY <1>2 DEF compatibility

(* The findings for a workload, from what they are made of.                 *)
FindingsFrom(workload, artifact, policy, sites, clusters, accelerator_classes, runtimes) ==
  UNION {{[cluster |-> c, pool |-> n, domain |-> clusters[c].domain, site |-> clusters[c].site,
           nominal |-> clusters[c].pools[n].nominal, idle |-> clusters[c].pools[n].idle,
           judgements |-> evaluate_pool(workload, artifact, c, clusters[c], sites,
             Find(accelerator_classes, clusters[c].pools[n].class),
             FirstFound(runtimes, clusters[c].runtimes), policy)]
          : n \in DOMAIN clusters[c].pools}
         : c \in {d \in DOMAIN clusters : clusters[d].currentness = "Current"}}

(* analyze_stranded_capacity reads nothing else of a snapshot.              *)
LEMMA FindingsMadeOf ==
  ASSUME NEW all, NEW class
  PROVE  findings(all, class, FALSE)
           = FindingsFrom(select_workload(all, class),
               IF select_workload(all, class) = Nothing THEN Nothing
               ELSE Find(all.artifacts, select_workload(all, class).artifact),
               IF select_workload(all, class) = Nothing THEN Nothing
               ELSE Find(all.policies, select_workload(all, class).policy),
               DOMAIN all.sites, all.clusters, all.accelerator_classes, all.runtimes)
<1>1. {c \in DOMAIN all.clusters : all.clusters[c].currentness = "Current"
                                  \/ (FALSE /\ all.clusters[c].currentness # "Retired")}
        = {c \in DOMAIN all.clusters : all.clusters[c].currentness = "Current"}
  OBVIOUS
<1> QED
  BY <1>1, Zenon DEF findings, FindingsFrom

(* So are the findings of the class of a workload that it holds.            *)
LEMMA FindingsInSnapshot ==
  ASSUME NEW all, WellFormed(all), NEW max \in Nat, NEW cut, cut = build_snapshot(all, max),
         NEW w \in DOMAIN cut.workloads, NEW class, class = all.workloads[w].workload_class
  PROVE  findings(cut, class, FALSE) = findings(all, class, FALSE)
<1>1. /\ cut.sites = all.sites /\ cut.clusters = all.clusters
      /\ cut.accelerator_classes = all.accelerator_classes
      /\ cut.runtimes = all.runtimes /\ cut.policies = all.policies
      /\ cut.artifacts = all.artifacts
  BY SameInSnapshot
<1>2. select_workload(cut, class) = select_workload(all, class)
  BY SelectedInSnapshot
<1>3. PICK workload : workload = select_workload(all, class)
  OBVIOUS
<1>4. PICK artifact : artifact = IF workload = Nothing THEN Nothing
                                 ELSE Find(all.artifacts, workload.artifact)
  OBVIOUS
<1>5. PICK policy : policy = IF workload = Nothing THEN Nothing
                             ELSE Find(all.policies, workload.policy)
  OBVIOUS
<1>6. findings(all, class, FALSE)
        = FindingsFrom(workload, artifact, policy, DOMAIN all.sites, all.clusters,
                       all.accelerator_classes, all.runtimes)
  BY <1>3, <1>4, <1>5, FindingsMadeOf, Zenon
<1>7. findings(cut, class, FALSE)
        = FindingsFrom(workload, artifact, policy, DOMAIN cut.sites, cut.clusters,
                       cut.accelerator_classes, cut.runtimes)
  <2>1. workload = select_workload(cut, class)
    BY <1>2, <1>3
  <2>2. artifact = IF workload = Nothing THEN Nothing ELSE Find(cut.artifacts, workload.artifact)
    BY <1>1, <1>4
  <2>3. policy = IF workload = Nothing THEN Nothing ELSE Find(cut.policies, workload.policy)
    BY <1>1, <1>5
  <2> QED
    BY <2>1, <2>2, <2>3, FindingsMadeOf, Zenon
<1> QED
  BY <1>1, <1>6, <1>7

(* Only the runtime the workload is on may be answered for differently.     *)
LEMMA OtherDimensions ==
  ASSUME NEW a, NEW b, NEW in, NEW d \in Dimensions \ {"RuntimeApi"}
  PROVE  assess_portability(a, in).dimensions[d] = assess_portability(b, in).dimensions[d]
<1>1. dimensions(a, in)[d] = dimensions(b, in)[d]
  BY DEF dimensions, Dimensions
<1> QED
  BY <1>1 DEF assess_portability

(* The runtime a workload is on, from its placement.                        *)
LEMMA SourceOfPlacement ==
  ASSUME NEW all, NEW cut, NEW w,
         cut.clusters = all.clusters, cut.runtimes = all.runtimes
  PROVE  /\ source_placement(cut.placements, w) = source_placement(all.placements, w)
            => source_runtime_for(cut, w) = source_runtime_for(all, w)
         /\ source_placement(cut.placements, w) = Nothing => source_runtime_for(cut, w) = Nothing
<1>1. PICK here : here = source_placement(cut.placements, w)
  OBVIOUS
<1>2. PICK there : there = source_placement(all.placements, w)
  OBVIOUS
<1>3. /\ source_cluster(cut, w)
           = IF here = Nothing THEN Nothing ELSE Find(all.clusters, here.selected)
      /\ source_cluster(all, w)
           = IF there = Nothing THEN Nothing ELSE Find(all.clusters, there.selected)
  BY <1>1, <1>2 DEF source_cluster
<1>4. \A cluster : first_runtime(cut, cluster) = first_runtime(all, cluster)
  BY DEF first_runtime
<1> QED
  BY <1>1, <1>2, <1>3, <1>4 DEF source_runtime_for

(* Portability, asked of a snapshot that holds the workload.                *)
LEMMA PortabilityInSnapshot ==
  ASSUME NEW all, WellFormed(all), NEW max \in Nat, NEW cut, cut = build_snapshot(all, max),
         NEW c, NEW w \in DOMAIN cut.workloads
  PROVE  /\ \A d \in Dimensions \ {"RuntimeApi"} :
              evaluate_portability(cut, w, c).dimensions[d]
                = evaluate_portability(all, w, c).dimensions[d]
         /\ source_placement(cut.placements, w) \in {source_placement(all.placements, w), Nothing}
            => evaluate_portability(cut, w, c).overall
                 \in {evaluate_portability(all, w, c).overall, "Unknown"}
<1>1. PICK in : in = collect_assessment_inputs(all, c, w)
  OBVIOUS
<1>2. PICK here : here = source_runtime_for(cut, w)
  OBVIOUS
<1>3. PICK there : there = source_runtime_for(all, w)
  OBVIOUS
<1>4. /\ evaluate_portability(cut, w, c) = assess_portability(here, in)
      /\ evaluate_portability(all, w, c) = assess_portability(there, in)
  <2>1. collect_assessment_inputs(cut, c, w) = in
    BY <1>1, AnswersInSnapshot
  <2> QED
    BY <1>1, <1>2, <1>3, <2>1 DEF evaluate_portability
<1>5. source_placement(cut.placements, w) \in {source_placement(all.placements, w), Nothing}
      => here = there \/ here = Nothing
  <2>1. cut.clusters = all.clusters /\ cut.runtimes = all.runtimes
    BY SameInSnapshot
  <2> QED
    BY <1>2, <1>3, <2>1, SourceOfPlacement
<1>6. \A d \in Dimensions \ {"RuntimeApi"} :
        assess_portability(here, in).dimensions[d] = assess_portability(there, in).dimensions[d]
  BY OtherDimensions
<1>7. assess_portability(Nothing, in).overall = "Unknown"
  BY NoSource
<1> QED
  BY <1>4, <1>5, <1>6, <1>7

(* Analyses!TruncationNeverMisleads: for every federation and every bound   *)
(* of a snapshot, what a snapshot cut short answers of a workload it holds  *)
(* is what the whole would answer (observatory.cpp:1386-1470): the          *)
(* compatibility verdict, every dimension of portability but that of the    *)
(* runtime and the findings of stranded capacity.  The verdict of           *)
(* portability is the same or open, unless the snapshot takes an earlier    *)
(* placement for the latest.                                                *)
THEOREM TruncationHarmless == Spec => []TruncationNeverMisleads
<1>1. ASSUME TypeOK PROVE TruncationNeverMisleads
  <2> SUFFICES ASSUME NEW snapshot \in Truncated, NEW p \in KnownPairs(snapshot)
               PROVE  LET before == evaluate_portability(records, p[2], p[1])
                          after == evaluate_portability(snapshot, p[2], p[1])
                          class == records.workloads[p[2]].workload_class
                      IN /\ compatibility(snapshot, p[1], p[2])
                              = compatibility(records, p[1], p[2])
                         /\ \A d \in Dimensions \ {"RuntimeApi"} :
                              after.dimensions[d] = before.dimensions[d]
                         /\ source_placement(snapshot.placements, p[2])
                              \in {source_placement(records.placements, p[2]), Nothing}
                            => after.overall \in {before.overall, "Unknown"}
                         /\ findings(snapshot, class, FALSE) = findings(records, class, FALSE)
    BY DEF TruncationNeverMisleads
  <2>1. PICK all : all = records
    OBVIOUS
  <2>2. WellFormed(all)
    BY <1>1, <2>1 DEF TypeOK
  <2>3. Cardinality(RecordsIn(all)) \in Nat
    BY <2>2, FinitelyMany, FS_CardinalityType
  <2>4. PICK max \in Nat : snapshot = build_snapshot(all, max)
    BY <2>1, <2>3 DEF Truncated
  <2>5. p[2] \in DOMAIN snapshot.workloads
    BY DEF KnownPairs
  <2>6. PICK c : c = p[1]
    OBVIOUS
  <2>7. PICK w : w = p[2]
    OBVIOUS
  <2>8. PICK class : class = all.workloads[w].workload_class
    OBVIOUS
  <2>9. compatibility(snapshot, c, w) = compatibility(all, c, w)
    BY <2>2, <2>4, <2>5, <2>7, AnswersInSnapshot
  <2>10. /\ \A d \in Dimensions \ {"RuntimeApi"} :
              evaluate_portability(snapshot, w, c).dimensions[d]
                = evaluate_portability(all, w, c).dimensions[d]
         /\ source_placement(snapshot.placements, w)
              \in {source_placement(all.placements, w), Nothing}
            => evaluate_portability(snapshot, w, c).overall
                 \in {evaluate_portability(all, w, c).overall, "Unknown"}
    BY <2>2, <2>4, <2>5, <2>7, PortabilityInSnapshot
  <2>11. findings(snapshot, class, FALSE) = findings(all, class, FALSE)
    BY <2>2, <2>4, <2>5, <2>7, <2>8, FindingsInSnapshot
  <2> QED
    BY <2>1, <2>6, <2>7, <2>8, <2>9, <2>10, <2>11
<1> QED
  BY <1>1, AnalysesTypeCorrect, PTL

-----------------------------------------------------------------------------
(* Sums over finite sets                                                    *)

(* The recursion of SumFunction, on the subsets of its domain.              *)
Pick(s) == CHOOSE x \in s : TRUE
Steps(g, S, sums) ==
  sums = [s \in SUBSET S |-> IF s = {} THEN 0 ELSE g[Pick(s)] + sums[s \ {Pick(s)}]]
SumOver(g, S) == (CHOOSE sums : Steps(g, S, sums))[S]

(* SumFunction is that recursion, taken at the whole.                       *)
LEMMA SumIs ==
  ASSUME NEW S, NEW g, DOMAIN g = S
  PROVE  SumFunction(g) = SumOver(g, S)
BY DEF SumFunction, SumFunctionOnSet, FoldFunctionOnSet, MapThenFoldSet, SumOver, Steps, Pick

(* Of the subsets of a finite set for which something is false one has no   *)
(* such subset of its own: induction over the finite sets.                  *)
LEMMA LeastCounterexample ==
  ASSUME NEW S, IsFiniteSet(S), NEW bad, bad \subseteq SUBSET S, bad # {}
  PROVE  \E T \in bad : \A U \in SUBSET T : U # T => U \notin bad
<1>1. IsWellFoundedOn(StrictSubsetOrdering(S), SUBSET S)
  BY FS_StrictSubsetOrderingWellFounded, FS_FiniteSubsetsOfFinite
<1>2. PICK T \in bad : \A U \in bad : ~(<<U, T>> \in StrictSubsetOrdering(S))
  BY <1>1, WFMin
<1>3. ASSUME NEW U \in SUBSET T, U # T, U \in bad PROVE FALSE
  BY <1>2, <1>3 DEF StrictSubsetOrdering
<1> QED
  BY <1>3

(* Pick takes one of the set.                                               *)
LEMMA Picked ==
  ASSUME NEW s, s # {}
  PROVE  Pick(s) \in s /\ s \ {Pick(s)} # s
BY DEF Pick

(* There is at most one such recursion.                                     *)
LEMMA StepsUnique ==
  ASSUME NEW g, NEW S, IsFiniteSet(S), NEW a, NEW b, Steps(g, S, a), Steps(g, S, b)
  PROVE  a = b
<1>1. /\ a = [s \in SUBSET S |-> a[s]] /\ b = [s \in SUBSET S |-> b[s]]
      /\ \A s \in SUBSET S :
           /\ a[s] = IF s = {} THEN 0 ELSE g[Pick(s)] + a[s \ {Pick(s)}]
           /\ b[s] = IF s = {} THEN 0 ELSE g[Pick(s)] + b[s \ {Pick(s)}]
  BY DEF Steps
<1>2. PICK bad : bad = {s \in SUBSET S : a[s] # b[s]}
  OBVIOUS
<1>3. ASSUME bad # {} PROVE FALSE
  <2>1. PICK T \in bad : \A U \in SUBSET T : U # T => U \notin bad
    BY <1>2, <1>3, LeastCounterexample
  <2>2. T # {}
    BY <1>1, <1>2, <2>1
  <2>3. T \ {Pick(T)} \in SUBSET S /\ a[T \ {Pick(T)}] = b[T \ {Pick(T)}]
    BY <1>2, <2>1, <2>2, Picked
  <2> QED
    BY <1>1, <1>2, <2>1, <2>2, <2>3
<1>4. \A s \in SUBSET S : a[s] = b[s]
  BY <1>2, <1>3
<1> QED
  BY <1>1, <1>4

(* On a subset it is the same.                                              *)
LEMMA StepsWithin ==
  ASSUME NEW g, NEW S, NEW sums, Steps(g, S, sums), NEW T \in SUBSET S
  PROVE  Steps(g, T, [s \in SUBSET T |-> sums[s]])
<1>1. \A s \in SUBSET S : sums[s] = IF s = {} THEN 0 ELSE g[Pick(s)] + sums[s \ {Pick(s)}]
  BY DEF Steps
<1> DEFINE here == [s \in SUBSET T |-> sums[s]]
<1>2. ASSUME NEW s \in SUBSET T
      PROVE  here[s] = IF s = {} THEN 0 ELSE g[Pick(s)] + here[s \ {Pick(s)}]
  <2>1. s \ {Pick(s)} \in SUBSET T /\ s \in SUBSET S
    OBVIOUS
  <2> QED
    BY <1>1, <2>1
<1> QED
  BY <1>2 DEF Steps

(* Where there is one, SumFunction adds the values one after the other.     *)
LEMMA SumByStep ==
  ASSUME NEW g, NEW S, IsFiniteSet(S), \E sums : Steps(g, S, sums)
  PROVE  SumOver(g, S) = IF S = {} THEN 0 ELSE g[Pick(S)] + SumOver(g, S \ {Pick(S)})
<1>1. PICK sums : sums = CHOOSE x : Steps(g, S, x)
  OBVIOUS
<1>2. Steps(g, S, sums)
  BY <1>1
<1>3. PICK V : V = S \ {Pick(S)}
  OBVIOUS
<1>4. V \in SUBSET S /\ IsFiniteSet(V)
  BY <1>3, FS_Subset
<1>5. PICK here : here = [s \in SUBSET V |-> sums[s]]
  OBVIOUS
<1>6. Steps(g, V, here)
  BY <1>2, <1>4, <1>5, StepsWithin
<1>7. here = CHOOSE x : Steps(g, V, x)
  BY <1>4, <1>6, StepsUnique
<1>8. SumOver(g, V) = sums[V] /\ SumOver(g, S) = sums[S]
  BY <1>1, <1>5, <1>7 DEF SumOver
<1> QED
  BY <1>2, <1>3, <1>8 DEF Steps

(* There is one.                                                            *)
LEMMA StepsExist ==
  ASSUME NEW g, NEW S, IsFiniteSet(S)
  PROVE  \E sums : Steps(g, S, sums)
<1> DEFINE Has(s) == \E sums : Steps(g, s, sums)
<1>1. PICK bad : bad = {s \in SUBSET S : ~Has(s)}
  OBVIOUS
<1>2. ASSUME bad # {} PROVE FALSE
  <2>1. bad \subseteq SUBSET S
    BY <1>1
  <2>2. PICK T \in bad : \A U \in SUBSET T : U # T => U \notin bad
    BY <1>2, <2>1, LeastCounterexample
  <2>3. \A U \in SUBSET T : U # T => Has(U) /\ IsFiniteSet(U)
    BY <1>1, <2>1, <2>2, FS_Subset
  <2>4. ASSUME NEW U \in SUBSET T, U # T
        PROVE  SumOver(g, U) = IF U = {} THEN 0 ELSE g[Pick(U)] + SumOver(g, U \ {Pick(U)})
    BY <2>3, <2>4, SumByStep
  <2> DEFINE Value(s) == IF s = {} THEN 0 ELSE g[Pick(s)] + SumOver(g, s \ {Pick(s)})
             sums == [s \in SUBSET T |-> Value(s)]
  <2>5. ASSUME NEW s \in SUBSET T
        PROVE  Value(s) = IF s = {} THEN 0 ELSE g[Pick(s)] + Value(s \ {Pick(s)})
    <3>1. CASE s = {}
      BY <3>1
    <3>2. CASE s # {}
      <4>1. PICK U : U = s \ {Pick(s)}
        OBVIOUS
      <4>2. U \in SUBSET T /\ U # T
        BY <3>2, <4>1, Picked
      <4>3. Value(U) = SumOver(g, U)
        BY <2>4, <4>2
      <4> QED
        BY <3>2, <4>1, <4>3
    <3> QED
      BY <3>1, <3>2
  <2>6. Steps(g, T, sums)
    <3> HIDE DEF Value
    <3>1. ASSUME NEW s \in SUBSET T
          PROVE  sums[s] = IF s = {} THEN 0 ELSE g[Pick(s)] + sums[s \ {Pick(s)}]
      <4>1. s \ {Pick(s)} \in SUBSET T
        OBVIOUS
      <4> QED
        BY <2>5, <4>1
    <3> QED
      BY <3>1 DEF Steps
  <2> QED
    BY <1>1, <2>2, <2>6
<1>3. Has(S)
  BY <1>1, <1>2
<1> QED
  BY <1>3

(* SumFunction adds the values of a finite set one after the other.         *)
LEMMA SumPicked ==
  ASSUME NEW g, NEW S, IsFiniteSet(S)
  PROVE  SumOver(g, S) = IF S = {} THEN 0 ELSE g[Pick(S)] + SumOver(g, S \ {Pick(S)})
BY StepsExist, SumByStep

(* Nothing adds up to 0.                                                    *)
LEMMA SumOfNone ==
  ASSUME NEW g
  PROVE  SumOver(g, {}) = 0
BY SumPicked, FS_EmptySet

(* Amounts, as the code counts them in unsigned integers                    *)
Amounts(g, S) == \A x \in S : g[x] \in Nat

(* A sum of amounts is an amount.                                           *)
LEMMA SumType ==
  ASSUME NEW S, IsFiniteSet(S), NEW g, Amounts(g, S)
  PROVE  SumOver(g, S) \in Nat
<1>1. PICK bad : bad = {s \in SUBSET S : SumOver(g, s) \notin Nat}
  OBVIOUS
<1>2. ASSUME bad # {} PROVE FALSE
  <2>1. PICK T \in bad : \A U \in SUBSET T : U # T => U \notin bad
    BY <1>1, <1>2, LeastCounterexample
  <2>2. IsFiniteSet(T) /\ T \in SUBSET S
    BY <1>1, <2>1, FS_Subset
  <2>3. T # {}
    <3>1. SumOver(g, {}) \in Nat
      BY SumOfNone
    <3>2. {} \notin bad
      BY <1>1, <3>1
    <3> QED
      BY <2>1, <3>2
  <2>4. SumOver(g, T) = g[Pick(T)] + SumOver(g, T \ {Pick(T)})
    BY <2>2, <2>3, SumPicked
  <2>5. g[Pick(T)] \in Nat
    BY <2>2, <2>3, Picked DEF Amounts
  <2>6. SumOver(g, T \ {Pick(T)}) \in Nat
    BY <1>1, <2>1, <2>2, <2>3, Picked
  <2> QED
    BY <1>1, <2>1, <2>4, <2>5, <2>6
<1> QED
  BY <1>1, <1>2

(* They may be added in any order.                                          *)
LEMMA SumRemoved ==
  ASSUME NEW S, IsFiniteSet(S), NEW g, Amounts(g, S), NEW x \in S
  PROVE  SumOver(g, S) = g[x] + SumOver(g, S \ {x})
<1> DEFINE Removes(s) == \A y \in s : SumOver(g, s) = g[y] + SumOver(g, s \ {y})
<1>1. PICK bad : bad = {s \in SUBSET S : ~Removes(s)}
  OBVIOUS
<1>2. ASSUME bad # {} PROVE FALSE
  <2>1. bad \subseteq SUBSET S
    BY <1>1
  <2>2. PICK T \in bad : \A U \in SUBSET T : U # T => U \notin bad
    BY <1>2, <2>1, LeastCounterexample
  <2>3. \A U \in SUBSET T : U # T => Removes(U)
    BY <1>1, <2>1, <2>2
  <2>4. PICK y \in T : SumOver(g, T) # g[y] + SumOver(g, T \ {y})
    BY <1>1, <2>2
  <2>5. IsFiniteSet(T) /\ T \in SUBSET S
    BY <2>1, <2>2, FS_Subset
  <2>6. PICK z : z = Pick(T)
    OBVIOUS
  <2>7. z \in T /\ SumOver(g, T) = g[z] + SumOver(g, T \ {z})
    BY <2>4, <2>5, <2>6, SumPicked, Picked
  <2>8. z # y
    BY <2>4, <2>7
  <2>9. PICK rest : rest = T \ {y, z}
    OBVIOUS
  <2>10. (T \ {z}) \ {y} = rest /\ (T \ {y}) \ {z} = rest
    BY <2>9
  <2>11. SumOver(g, T \ {z}) = g[y] + SumOver(g, rest)
    <3>1. Removes(T \ {z}) /\ y \in T \ {z}
      BY <2>3, <2>7, <2>8
    <3> QED
      BY <2>10, <3>1
  <2>12. SumOver(g, T \ {y}) = g[z] + SumOver(g, rest)
    <3>1. Removes(T \ {y}) /\ z \in T \ {y}
      BY <2>3, <2>4, <2>7, <2>8
    <3> QED
      BY <2>10, <3>1
  <2>13. g[y] \in Nat /\ g[z] \in Nat
    BY <2>5, <2>7 DEF Amounts
  <2>14. SumOver(g, rest) \in Nat
    <3>1. IsFiniteSet(rest) /\ rest \in SUBSET S
      BY <2>5, <2>9, FS_Subset
    <3> QED
      BY <3>1, SumType DEF Amounts
  <2>15. SumOver(g, T) = g[z] + (g[y] + SumOver(g, rest))
    BY <2>7, <2>11
  <2>16. g[y] + SumOver(g, T \ {y}) = g[y] + (g[z] + SumOver(g, rest))
    BY <2>12
  <2> QED
    BY <2>4, <2>13, <2>14, <2>15, <2>16
<1>3. Removes(S)
  BY <1>1, <1>2
<1> QED
  BY <1>3

(* Sums of equal amounts are equal.                                         *)
LEMMA SumOfSame ==
  ASSUME NEW S, NEW g, NEW h, \A x \in S : g[x] = h[x]
  PROVE  SumOver(g, S) = SumOver(h, S)
<1>1. ASSUME NEW s \in SUBSET S, s # {} PROVE g[Pick(s)] = h[Pick(s)]
  BY <1>1, Picked
<1>2. ASSUME NEW sums
      PROVE  [s \in SUBSET S |-> IF s = {} THEN 0 ELSE g[Pick(s)] + sums[s \ {Pick(s)}]]
               = [s \in SUBSET S |-> IF s = {} THEN 0 ELSE h[Pick(s)] + sums[s \ {Pick(s)}]]
  BY <1>1
<1>3. ASSUME NEW sums PROVE Steps(g, S, sums) <=> Steps(h, S, sums)
  BY <1>2 DEF Steps
<1>4. (CHOOSE sums : Steps(g, S, sums)) = CHOOSE sums : Steps(h, S, sums)
  BY <1>3
<1> QED
  BY <1>4 DEF SumOver

(* The sum of sums is the sum.                                              *)
LEMMA SumOfSums ==
  ASSUME NEW S, IsFiniteSet(S), NEW g, NEW a, NEW b, Amounts(a, S), Amounts(b, S),
         \A x \in S : g[x] = a[x] + b[x]
  PROVE  SumOver(g, S) = SumOver(a, S) + SumOver(b, S)
<1>1. PICK bad : bad = {s \in SUBSET S : SumOver(g, s) # SumOver(a, s) + SumOver(b, s)}
  OBVIOUS
<1>2. ASSUME bad # {} PROVE FALSE
  <2>1. PICK T \in bad : \A U \in SUBSET T : U # T => U \notin bad
    BY <1>1, <1>2, LeastCounterexample
  <2>2. IsFiniteSet(T) /\ T \in SUBSET S
    BY <1>1, <2>1, FS_Subset
  <2>3. T # {}
    <3>1. SumOver(g, {}) = SumOver(a, {}) + SumOver(b, {})
      BY SumOfNone
    <3>2. {} \notin bad
      BY <1>1, <3>1
    <3> QED
      BY <2>1, <3>2
  <2>4. PICK x : x = Pick(T)
    OBVIOUS
  <2>5. PICK U : U = T \ {x}
    OBVIOUS
  <2>6. x \in S /\ U \in SUBSET S /\ U \in SUBSET T /\ U # T /\ IsFiniteSet(U)
    BY <2>2, <2>3, <2>4, <2>5, Picked, FS_Subset
  <2>7. /\ SumOver(g, T) = g[x] + SumOver(g, U) /\ SumOver(a, T) = a[x] + SumOver(a, U)
        /\ SumOver(b, T) = b[x] + SumOver(b, U)
    BY <2>2, <2>3, <2>4, <2>5, SumPicked
  <2>8. SumOver(g, U) = SumOver(a, U) + SumOver(b, U)
    BY <1>1, <2>1, <2>6
  <2>9. SumOver(a, U) \in Nat /\ SumOver(b, U) \in Nat
    BY <2>6, SumType DEF Amounts
  <2>10. a[x] \in Nat /\ b[x] \in Nat /\ g[x] = a[x] + b[x]
    BY <2>6 DEF Amounts
  <2>11. SumOver(g, T) = SumOver(a, T) + SumOver(b, T)
    BY <2>7, <2>8, <2>9, <2>10
  <2> QED
    BY <1>1, <2>1, <2>11
<1> QED
  BY <1>1, <1>2

(* A sum of which all but one amount are none is that amount.               *)
LEMMA SumOfOne ==
  ASSUME NEW S, IsFiniteSet(S), NEW g, NEW d, \A x \in S \ {d} : g[x] = 0,
         d \in S => g[d] \in Nat
  PROVE  SumOver(g, S) = IF d \in S THEN g[d] ELSE 0
<1>1. PICK bad : bad = {s \in SUBSET S : d \notin s /\ SumOver(g, s) # 0}
  OBVIOUS
<1>2. ASSUME bad # {} PROVE FALSE
  <2>1. PICK T \in bad : \A U \in SUBSET T : U # T => U \notin bad
    BY <1>1, <1>2, LeastCounterexample
  <2>2. IsFiniteSet(T) /\ T \in SUBSET S /\ d \notin T
    BY <1>1, <2>1, FS_Subset
  <2>3. T # {}
    <3>1. SumOver(g, {}) = 0
      BY SumOfNone
    <3> QED
      BY <1>1, <2>1, <3>1
  <2>4. PICK U : U = T \ {Pick(T)}
    OBVIOUS
  <2>5. SumOver(g, T) = g[Pick(T)] + SumOver(g, U)
    BY <2>2, <2>3, <2>4, SumPicked
  <2>6. g[Pick(T)] = 0
    BY <2>2, <2>3, Picked
  <2>7. SumOver(g, U) = 0
    BY <1>1, <2>1, <2>2, <2>3, <2>4, Picked
  <2> QED
    BY <1>1, <2>1, <2>5, <2>6, <2>7
<1>3. \A s \in SUBSET S : d \notin s => SumOver(g, s) = 0
  BY <1>1, <1>2
<1>4. CASE d \in S
  <2>1. Amounts(g, S)
    BY <1>4 DEF Amounts
  <2>2. SumOver(g, S) = g[d] + SumOver(g, S \ {d})
    BY <1>4, <2>1, SumRemoved
  <2> QED
    BY <1>3, <1>4, <2>2
<1> QED
  BY <1>3, <1>4

(* An amount is at most the sum.                                            *)
LEMMA SumIsBound ==
  ASSUME NEW S, IsFiniteSet(S), NEW g, Amounts(g, S), NEW x \in S
  PROVE  g[x] <= SumOver(g, S)
<1>1. SumOver(g, S) = g[x] + SumOver(g, S \ {x})
  BY SumRemoved
<1>2. IsFiniteSet(S \ {x}) /\ Amounts(g, S \ {x})
  BY FS_RemoveElement DEF Amounts
<1>3. SumOver(g, S \ {x}) \in Nat /\ g[x] \in Nat
  BY <1>2, SumType DEF Amounts
<1> QED
  BY <1>1, <1>3

(* The amounts with one key, and 0 for the others                           *)
At(g, k, S, d) == [x \in S |-> IF k[x] = d THEN g[x] ELSE 0]

(* The amounts with one key add up the same in the whole and on their own.  *)
LEMMA SumOfKey ==
  ASSUME NEW S, IsFiniteSet(S), NEW g, Amounts(g, S), NEW k, NEW d
  PROVE  SumOver(g, {x \in S : k[x] = d}) = SumOver(At(g, k, S, d), S)
<1>1. PICK h : h = At(g, k, S, d)
  OBVIOUS
<1>2. \A x \in S : h[x] = IF k[x] = d THEN g[x] ELSE 0
  BY <1>1 DEF At
<1>3. PICK bad : bad = {s \in SUBSET S : SumOver(g, {x \in s : k[x] = d}) # SumOver(h, s)}
  OBVIOUS
<1>4. ASSUME bad # {} PROVE FALSE
  <2>1. PICK T \in bad : \A U \in SUBSET T : U # T => U \notin bad
    <3>1. bad \subseteq SUBSET S
      BY <1>3
    <3> QED
      BY <1>4, <3>1, LeastCounterexample
  <2>2. IsFiniteSet(T) /\ T \in SUBSET S
    BY <1>3, <2>1, FS_Subset
  <2>3. T # {}
    <3>1. {x \in {} : k[x] = d} = {}
      OBVIOUS
    <3>2. SumOver(g, {}) = 0 /\ SumOver(h, {}) = 0
      BY SumOfNone
    <3> QED
      BY <1>3, <2>1, <3>1, <3>2
  <2>4. PICK x : x = Pick(T)
    OBVIOUS
  <2>5. PICK U : U = T \ {x}
    OBVIOUS
  <2>6. x \in T /\ U \in SUBSET S /\ U \in SUBSET T /\ U # T /\ IsFiniteSet(U)
    BY <2>2, <2>3, <2>4, <2>5, Picked, FS_Subset
  <2>7. PICK here : here = {y \in T : k[y] = d}
    OBVIOUS
  <2>8. PICK there : there = {y \in U : k[y] = d}
    OBVIOUS
  <2>9. SumOver(g, there) = SumOver(h, U)
    BY <1>3, <2>1, <2>6, <2>8
  <2>10. SumOver(h, T) = h[x] + SumOver(h, U)
    BY <2>2, <2>3, <2>4, <2>5, SumPicked
  <2>11. SumOver(h, U) \in Nat
    BY <1>2, <2>6, SumType DEF Amounts
  <2>12. CASE k[x] = d
    <3>1. IsFiniteSet(here) /\ Amounts(g, here) /\ x \in here /\ here \ {x} = there
      BY <2>2, <2>5, <2>6, <2>7, <2>8, <2>12, FS_Subset DEF Amounts
    <3>2. SumOver(g, here) = g[x] + SumOver(g, there)
      BY <3>1, SumRemoved
    <3> QED
      BY <1>2, <1>3, <2>1, <2>2, <2>6, <2>7, <2>9, <2>10, <2>12, <3>2
  <2>13. CASE k[x] # d
    <3>1. here = there
      BY <2>5, <2>7, <2>8, <2>13
    <3> QED
      BY <1>2, <1>3, <2>1, <2>2, <2>6, <2>7, <2>9, <2>10, <2>11, <2>13, <3>1
  <2> QED
    BY <2>12, <2>13
<1> QED
  BY <1>1, <1>3, <1>4

(* The sum of the amounts of each key                                       *)
Keyed(g, k, S, D) == [d \in D |-> SumOver(At(g, k, S, d), S)]

(* Where every amount has its key among some keys, their sums are summed up *)
(* to the whole.                                                            *)
LEMMA SumByKey ==
  ASSUME NEW S, IsFiniteSet(S), NEW D, IsFiniteSet(D), NEW g, Amounts(g, S), NEW k,
         \A x \in S : k[x] \in D \/ g[x] = 0
  PROVE  SumOver(Keyed(g, k, S, D), D) = SumOver(g, S)
<1> DEFINE Of(s) == [d \in D |-> SumOver(At(g, k, S, d), s)]
           Adds(s) == SumOver(Of(s), D) = SumOver(g, s)
<1>1. PICK bad : bad = {s \in SUBSET S : ~Adds(s)}
  OBVIOUS
<1>2. ASSUME NEW d \in D
      PROVE  \A x \in S : At(g, k, S, d)[x] = IF k[x] = d THEN g[x] ELSE 0
  BY DEF At
<1>3. ASSUME NEW d \in D, NEW s \in SUBSET S
      PROVE  Amounts(At(g, k, S, d), s) /\ SumOver(At(g, k, S, d), s) \in Nat
  <2>1. Amounts(At(g, k, S, d), s) /\ IsFiniteSet(s)
    BY <1>2, FS_Subset DEF Amounts
  <2> QED
    BY <2>1, SumType
<1>4. ASSUME bad # {} PROVE FALSE
  <2>1. bad \subseteq SUBSET S
    BY <1>1
  <2>2. PICK T \in bad : \A U \in SUBSET T : U # T => U \notin bad
    BY <1>4, <2>1, LeastCounterexample
  <2>3. IsFiniteSet(T) /\ T \in SUBSET S
    BY <2>1, <2>2, FS_Subset
  <2>4. ~Adds(T)
    BY <1>1, <2>2
  <2>5. T # {}
    <3>1. \A d \in D : Of({})[d] = 0
      BY SumOfNone
    <3>2. PICK d : d \notin D
      BY NoSetContainsEverything
    <3>3. SumOver(Of({}), D) = 0
      <4> HIDE DEF Of
      <4> QED
        BY <3>1, <3>2, SumOfOne
    <3>4. SumOver(g, {}) = 0
      BY SumOfNone
    <3> QED
      BY <2>4, <3>3, <3>4
  <2>6. PICK x : x = Pick(T)
    OBVIOUS
  <2>7. PICK U : U = T \ {x}
    OBVIOUS
  <2>8. x \in T /\ U \in SUBSET S /\ U \in SUBSET T /\ U # T /\ IsFiniteSet(U)
    BY <2>3, <2>5, <2>6, <2>7, Picked, FS_Subset
  <2>9. Adds(U)
    BY <1>1, <2>2, <2>8
  <2>10. SumOver(g, T) = g[x] + SumOver(g, U) /\ g[x] \in Nat
    BY <2>3, <2>5, <2>6, <2>7, <2>8, SumPicked DEF Amounts
  <2>11. PICK one : one = [d \in D |-> IF d = k[x] THEN g[x] ELSE 0]
    OBVIOUS
  <2>12. SumOver(one, D) = g[x]
    <3>1. /\ \A d \in D \ {k[x]} : one[d] = 0
          /\ k[x] \in D => one[k[x]] = g[x]
      BY <2>11
    <3>2. SumOver(one, D) = IF k[x] \in D THEN one[k[x]] ELSE 0
      BY <2>10, <3>1, SumOfOne
    <3> QED
      BY <2>3, <2>8, <3>1, <3>2
  <2>13. ASSUME NEW d \in D PROVE Of(T)[d] = one[d] + Of(U)[d]
    <3>1. PICK h : h = At(g, k, S, d)
      OBVIOUS
    <3>2. SumOver(h, T) = h[x] + SumOver(h, U)
      BY <2>3, <2>5, <2>6, <2>7, SumPicked
    <3>3. h[x] = one[d]
      BY <1>2, <2>3, <2>8, <2>11, <3>1
    <3> QED
      BY <3>1, <3>2, <3>3
  <2>14. Amounts(one, D) /\ Amounts(Of(U), D)
    BY <1>3, <2>8, <2>10, <2>11 DEF Amounts
  <2>15. SumOver(Of(T), D) = SumOver(one, D) + SumOver(Of(U), D)
    <3> HIDE DEF Of
    <3> QED
      BY <2>13, <2>14, SumOfSums
  <2> QED
    BY <2>4, <2>9, <2>10, <2>12, <2>15
<1>5. Adds(S)
  BY <1>1, <1>4
<1> QED
  BY <1>5 DEF Keyed

-----------------------------------------------------------------------------
(* Idle capacity                                                            *)

(* A reason that has a precedence, or an open question                      *)
Judged == Reasons \cup {Undecided}

(* Every reason that evaluate_pool can give has a precedence.               *)
LEMMA ReasonsKnown ==
  /\ \A key : reason_for_requirement(key) \in Reasons
  /\ {"ArtifactIncompatibility", "MissingLocalStorageState", "MissingCompilerTarget",
      "AbiMismatch", "MemoryInsufficient", "SiteRestriction", "PolicyRestriction"}
       \subseteq Reasons
<1>1. Reasons = {"UnsupportedAcceleratorCapability", "UnsupportedPrecision",
        "MissingOffloadCapability", "MissingInterconnectFeature", "RuntimeMismatch",
        "DriverMismatch", "AbiMismatch", "ArtifactIncompatibility", "MissingCompilerTarget",
        "PartitionGeometry", "TopologyConstraint", "IsolationRequirement",
        "MissingLocalStorageState", "MemoryInsufficient", "SiteRestriction",
        "PolicyRestriction"}
  BY DEF Reasons, ReasonsByPrecedence
<1>2. ASSUME NEW key PROVE reason_for_requirement(key) \in Reasons
  BY <1>1, Zenon DEF reason_for_requirement
<1> QED
  BY <1>1, <1>2

(* evaluate_pool gives reasons that have a precedence, or an open question. *)
LEMMA JudgementsKnown ==
  ASSUME NEW workload, NEW artifact, NEW id, NEW cluster, NEW sites, NEW class, NEW runtime,
         NEW policy
  PROVE  evaluate_pool(workload, artifact, id, cluster, sites, class, runtime, policy)
           \subseteq Judged
<1>1. ASSUME NEW satisfied, NEW reason \in Reasons PROVE Judge(satisfied, reason) \subseteq Judged
  BY DEF Judge, Judged
<1>2. ASSUME NEW text, NEW set, NEW key, NEW reason \in Reasons
      PROVE  JudgeText(text, set, key, reason) \subseteq Judged
  BY <1>1 DEF JudgeText
<1>3. ASSUME NEW set PROVE artifact_judgements(artifact, class, runtime, set) \subseteq Judged
  <2>1. {Undecided} \subseteq Judged
    BY DEF Judged
  <2> QED
    BY <1>1, <1>2, <2>1, ReasonsKnown DEF artifact_judgements
<1>4. ASSUME NEW set PROVE workload_judgements(workload, class, set) \subseteq Judged
  <2>1. {Undecided} \subseteq Judged
    BY DEF Judged
  <2>2. \A req : Judge(evaluate_requirement(req, set), reason_for_requirement(req.key))
                   \subseteq Judged
    BY <1>1, ReasonsKnown
  <2> QED
    BY <1>1, <2>1, <2>2, ReasonsKnown DEF workload_judgements
<1>5. policy_judgements(policy, id, cluster, sites) \subseteq Judged
  BY <1>1, ReasonsKnown DEF policy_judgements, Judged
<1>6. {Undecided} \subseteq Judged
  BY DEF Judged
<1> QED
  BY <1>3, <1>4, <1>5, <1>6 DEF evaluate_pool

(* The first reason by precedence is one of the reasons.                    *)
LEMMA PrimaryKnown ==
  ASSUME NEW judgements, judgements \subseteq Judged, ReasonsOf(judgements) # {}
  PROVE  PrimaryReason(judgements) \in Reasons
<1>1. PICK places : places = {n \in DOMAIN ReasonsByPrecedence :
                                ReasonsByPrecedence[n] \in judgements}
  OBVIOUS
<1>2. places # {}
  BY <1>1 DEF ReasonsOf, Judged, Reasons
<1>3. DOMAIN ReasonsByPrecedence \subseteq Nat
  BY DEF ReasonsByPrecedence
<1>4. PICK n \in places : \A m \in places : n <= m
  BY <1>1, <1>2, <1>3, Smallest
<1>5. Min(places) \in places
  BY <1>4 DEF Min
<1> QED
  BY <1>1, <1>5 DEF PrimaryReason, Reasons

(* Counted as usable, stranded or unknown, and as one of them only          *)
CountsOnce(f) ==
  /\ f.idle \in Nat /\ f.judgements \subseteq Judged
  /\ Usable(f) \in Nat /\ Unknown(f) \in Nat /\ Stranded(f) \in Nat
  /\ f.idle = Usable(f) + (Unknown(f) + Stranded(f))
  /\ Stranded(f) \in {0, f.idle}
  /\ Stranded(f) > 0 => PrimaryReason(f.judgements) \in Reasons

(* A finding counts in exactly one way.                                     *)
LEMMA FindingCounts ==
  ASSUME NEW all, WellFormed(all), NEW class, NEW f \in findings(all, class, FALSE)
  PROVE  CountsOnce(f)
<1>1. PICK c : c = f.cluster
  OBVIOUS
<1>2. PICK n : n = f.pool
  OBVIOUS
<1>3. c \in DOMAIN all["clusters"] /\ n \in DOMAIN all["clusters"][c]["pools"]
  BY <1>1, <1>2, FindingsAreCurrent, FindingHasPool
<1>4. f.idle = all["clusters"][c]["pools"][n].idle
  BY <1>1, <1>2 DEF findings
<1>5. Valid("clusters", "pools", all["clusters"][c]["pools"])
  <2>1. "clusters" \in DOMAIN FieldsOf /\ "pools" \in FieldsOf["clusters"]
    BY DEF FieldsOf
  <2> QED
    BY <1>3, <2>1 DEF WellFormed
<1>6. f.idle \in Nat
  BY <1>3, <1>4, <1>5 DEF Valid
<1>7. f.judgements \subseteq Judged
  <2>1. PICK workload : workload = select_workload(all, class)
    OBVIOUS
  <2>2. f.judgements = PoolJudgements(all, workload, c, n)
    BY <1>1, <1>2, <2>1, FindingOfPool
  <2>3. PoolJudgements(all, workload, c, n) \subseteq Judged
    BY JudgementsKnown, Zenon DEF PoolJudgements
  <2> QED
    BY <2>2, <2>3
<1>8. Stranded(f) > 0 => ReasonsOf(f.judgements) # {}
  BY DEF Stranded
<1>9. CASE f.judgements = {}
  BY <1>6, <1>7, <1>9 DEF CountsOnce, Usable, Unknown, Stranded, ReasonsOf
<1>10. CASE f.judgements = {Undecided}
  BY <1>6, <1>7, <1>10 DEF CountsOnce, Usable, Unknown, Stranded, ReasonsOf
<1>11. CASE f.judgements # {} /\ f.judgements # {Undecided}
  <2>1. ReasonsOf(f.judgements) # {}
    BY <1>11 DEF ReasonsOf
  <2>2. PrimaryReason(f.judgements) \in Reasons
    BY <1>7, <2>1, PrimaryKnown
  <2> QED
    BY <1>6, <1>7, <1>11, <2>1, <2>2 DEF CountsOnce, Usable, Unknown, Stranded
<1> QED
  BY <1>9, <1>10, <1>11

(* A pool has one finding.                                                  *)
LEMMA OneFindingPerPool ==
  ASSUME NEW all, NEW class, NEW f \in findings(all, class, FALSE),
         NEW g \in findings(all, class, FALSE), f.cluster = g.cluster, f.pool = g.pool
  PROVE  f = g
BY DEF findings

(* What a function makes of a finite set is finite.                         *)
LEMMA FiniteImage ==
  ASSUME NEW S, IsFiniteSet(S), NEW g, DOMAIN g = S, NEW T, T \subseteq {g[x] : x \in S}
  PROVE  IsFiniteSet(T)
<1>1. PICK h : h = [x \in S |-> g[x]]
  OBVIOUS
<1>2. h \in Surjection(S, {g[x] : x \in S})
  BY <1>1 DEF Surjection
<1>3. IsFiniteSet({g[x] : x \in S})
  BY <1>2, FS_Surjection
<1> QED
  BY <1>3, FS_Subset

(* There are finitely many records of a kind and finitely many findings.    *)
LEMMA KindIsFinite ==
  ASSUME NEW all, WellFormed(all), NEW kind \in DOMAIN all
  PROVE  IsFiniteSet(DOMAIN all[kind])
<1>1. PICK pairs : pairs = {kind} \X DOMAIN all[kind]
  OBVIOUS
<1>2. IsFiniteSet(pairs)
  <2>1. pairs \subseteq RecordsIn(all)
    BY <1>1 DEF RecordsIn
  <2> QED
    BY <2>1, FinitelyMany, FS_Subset
<1>3. PICK g : g = [e \in pairs |-> e[2]]
  OBVIOUS
<1>4. \A i \in DOMAIN all[kind] : <<kind, i>> \in pairs /\ g[<<kind, i>>] = i
  BY <1>1, <1>3
<1>5. DOMAIN all[kind] \subseteq {g[e] : e \in pairs}
  BY <1>4
<1> QED
  BY <1>2, <1>3, <1>5, FiniteImage

(* There are finitely many findings: clusters and their pools are finite.   *)
LEMMA FindingsFinite ==
  ASSUME NEW all, WellFormed(all), NEW class
  PROVE  IsFiniteSet(findings(all, class, FALSE))
<1>1. PICK fs : fs = findings(all, class, FALSE)
  OBVIOUS
<1>2. PICK ids : ids = DOMAIN all["clusters"]
  OBVIOUS
<1>3. IsFiniteSet(ids)
  BY <1>2, KindIsFinite, KindsOfRecords DEF WellFormed
<1>4. \A f \in fs : f.cluster \in ids
  BY <1>1, <1>2, FindingsAreCurrent
<1>5. PICK part : part = [c \in ids |-> {f \in fs : f.cluster = c}]
  OBVIOUS
<1>6. ASSUME NEW c \in ids PROVE IsFiniteSet(part[c])
  <2>1. PICK pools : pools = DOMAIN all["clusters"][c]["pools"]
    OBVIOUS
  <2>2. IsFiniteSet(pools)
    <3>1. "clusters" \in DOMAIN FieldsOf /\ "pools" \in FieldsOf["clusters"]
      BY DEF FieldsOf
    <3>2. Valid("clusters", "pools", all["clusters"][c]["pools"])
      BY <1>2, <3>1 DEF WellFormed
    <3> QED
      BY <2>1, <3>2 DEF Valid
  <2>3. PICK h : h = [f \in part[c] |-> f.pool]
    OBVIOUS
  <2>4. \A f \in part[c] : f \in fs /\ f.cluster = c
    BY <1>5
  <2>5. h \in [part[c] -> pools]
    BY <1>1, <2>1, <2>3, <2>4, FindingHasPool
  <2>6. \A f, g \in part[c] : h[f] = h[g] => f = g
    BY <1>1, <2>3, <2>4, OneFindingPerPool
  <2>7. h \in Injection(part[c], pools)
    BY <2>5, <2>6 DEF Injection, IsInjective
  <2> QED
    BY <2>2, <2>7, FS_Injection
<1>7. PICK parts : parts = {part[c] : c \in ids}
  OBVIOUS
<1>8. IsFiniteSet(parts)
  BY <1>3, <1>5, <1>7, FiniteImage
<1>9. fs = UNION parts
  BY <1>4, <1>5, <1>7
<1>10. \A T \in parts : IsFiniteSet(T)
  BY <1>6, <1>7
<1> QED
  BY <1>1, <1>8, <1>9, <1>10, FS_UNION

(* A report closes: idle capacity is usable, open, or stranded for one      *)
(* primary reason.                                                          *)
LEMMA ReportCloses ==
  ASSUME NEW fs, IsFiniteSet(fs), \A f \in fs : CountsOnce(f), NEW excluded
  PROVE  LET report == report_of(fs, excluded) IN
         report.idle = report.usable + report.unknown + SumFunction(report.by_reason)
<1>1. PICK idle : idle = [f \in fs |-> f.idle]
  OBVIOUS
<1>2. PICK usable : usable = [f \in fs |-> Usable(f)]
  OBVIOUS
<1>3. PICK unknown : unknown = [f \in fs |-> Unknown(f)]
  OBVIOUS
<1>4. PICK stranded : stranded = [f \in fs |-> Stranded(f)]
  OBVIOUS
<1>5. PICK other : other = [f \in fs |-> unknown[f] + stranded[f]]
  OBVIOUS
<1>6. PICK reason : reason = [f \in fs |-> PrimaryReason(f.judgements)]
  OBVIOUS
<1>7. \A f \in fs : /\ idle[f] \in Nat /\ usable[f] \in Nat /\ unknown[f] \in Nat
                    /\ stranded[f] \in Nat /\ other[f] \in Nat
                    /\ other[f] = unknown[f] + stranded[f]
                    /\ idle[f] = usable[f] + other[f]
  BY <1>1, <1>2, <1>3, <1>4, <1>5 DEF CountsOnce
<1>8. /\ Amounts(idle, fs) /\ Amounts(usable, fs) /\ Amounts(unknown, fs)
      /\ Amounts(stranded, fs) /\ Amounts(other, fs)
  BY <1>7 DEF Amounts
<1>9. SumOver(idle, fs) = SumOver(usable, fs) + SumOver(other, fs)
  BY <1>7, <1>8, SumOfSums
<1>10. SumOver(other, fs) = SumOver(unknown, fs) + SumOver(stranded, fs)
  BY <1>7, <1>8, SumOfSums
<1>11. /\ SumOver(usable, fs) \in Nat /\ SumOver(unknown, fs) \in Nat
       /\ SumOver(stranded, fs) \in Nat
  BY <1>8, SumType
<1>12. IsFiniteSet(Reasons)
  <2>1. IsFiniteSet(1..16)
    <3>1. 1..16 \in SUBSET Nat /\ \A n \in 1..16 : n <= 16
      OBVIOUS
    <3>2. PICK S \in SUBSET Nat : S = 1..16
      BY <3>1
    <3> QED
      BY <3>1, <3>2, FS_BoundedSetOfNaturals
  <2>2. DOMAIN ReasonsByPrecedence = 1..16
    BY DEF ReasonsByPrecedence
  <2> QED
    BY <2>1, <2>2, FiniteImage DEF Reasons
<1>13. SumOver(Keyed(stranded, reason, fs, Reasons), Reasons) = SumOver(stranded, fs)
  <2>1. ASSUME NEW f \in fs PROVE reason[f] \in Reasons \/ stranded[f] = 0
    BY <1>4, <1>6 DEF CountsOnce
  <2> QED
    BY <1>8, <1>12, <2>1, SumByKey
<1>14. SumFunction(ByReason(fs)) = SumOver(Keyed(stranded, reason, fs, Reasons), Reasons)
  <2>1. ASSUME NEW r \in Reasons
        PROVE  ByReason(fs)[r] = Keyed(stranded, reason, fs, Reasons)[r]
    <3>1. PICK here : here = [f \in fs |-> IF Stranded(f) > 0 /\ PrimaryReason(f.judgements) = r
                                           THEN f.idle ELSE 0]
      OBVIOUS
    <3>2. PICK there : there = At(stranded, reason, fs, r)
      OBVIOUS
    <3>3. ASSUME NEW f \in fs PROVE here[f] = there[f]
      BY <1>4, <1>6, <3>1, <3>2 DEF CountsOnce, At
    <3>4. SumFunction(here) = SumOver(here, fs)
      BY <3>1, SumIs
    <3>5. SumOver(here, fs) = SumOver(there, fs)
      BY <3>3, SumOfSame
    <3> QED
      BY <3>1, <3>2, <3>4, <3>5 DEF ByReason, Keyed
  <2>2. DOMAIN ByReason(fs) = Reasons
    BY DEF ByReason
  <2>3. SumFunction(ByReason(fs)) = SumOver(ByReason(fs), Reasons)
    BY <2>2, SumIs
  <2> QED
    BY <2>1, <2>3, SumOfSame
<1>15. /\ SumFunction(idle) = SumOver(idle, fs) /\ SumFunction(usable) = SumOver(usable, fs)
       /\ SumFunction(unknown) = SumOver(unknown, fs)
  <2>1. DOMAIN idle = fs /\ DOMAIN usable = fs /\ DOMAIN unknown = fs
    BY <1>1, <1>2, <1>3
  <2> QED
    BY <2>1, SumIs
<1>16. /\ report_of(fs, excluded).idle = SumFunction(idle)
       /\ report_of(fs, excluded).usable = SumFunction(usable)
       /\ report_of(fs, excluded).unknown = SumFunction(unknown)
       /\ report_of(fs, excluded).by_reason = ByReason(fs)
  BY <1>1, <1>2, <1>3 DEF report_of
<1> QED
  BY <1>9, <1>10, <1>11, <1>13, <1>14, <1>15, <1>16

(* The placement domains partition the findings.                            *)
LEMMA DomainsPartition ==
  ASSUME NEW fs, IsFiniteSet(fs), NEW D, IsFiniteSet(D), \A f \in fs : DomainOf(f) \in D,
         NEW g, DOMAIN g = fs, Amounts(g, fs), NEW by, DOMAIN by = D,
         \A d \in D : by[d] = SumFunction([f \in {x \in fs : DomainOf(x) = d} |-> g[f]])
  PROVE  /\ SumFunction(by) = SumFunction(g) /\ SumFunction(g) \in Nat
         /\ \A d \in D : by[d] \in Nat /\ by[d] <= SumFunction(g)
<1>1. PICK domain : domain = [f \in fs |-> DomainOf(f)]
  OBVIOUS
<1>2. ASSUME NEW d \in D
      PROVE  by[d] = Keyed(g, domain, fs, D)[d] /\ by[d] \in Nat
  <2>1. PICK here : here = {f \in fs : domain[f] = d}
    OBVIOUS
  <2>2. here = {x \in fs : DomainOf(x) = d}
    BY <1>1, <2>1
  <2>3. PICK part : part = [f \in here |-> g[f]]
    OBVIOUS
  <2>4. by[d] = SumFunction(part)
    BY <2>2, <2>3
  <2>5. SumFunction(part) = SumOver(part, here)
    BY <2>3, SumIs
  <2>6. SumOver(part, here) = SumOver(g, here)
    BY <2>3, SumOfSame
  <2>7. SumOver(g, here) = SumOver(At(g, domain, fs, d), fs)
    BY <2>1, SumOfKey
  <2>8. IsFiniteSet(here) /\ Amounts(g, here)
    BY <2>1, FS_Subset DEF Amounts
  <2>9. SumOver(g, here) \in Nat
    BY <2>8, SumType
  <2> QED
    BY <2>4, <2>5, <2>6, <2>7, <2>9 DEF Keyed
<1>3. SumOver(by, D) = SumOver(Keyed(g, domain, fs, D), D)
  BY <1>2, SumOfSame
<1>4. SumOver(Keyed(g, domain, fs, D), D) = SumOver(g, fs)
  <2>1. \A f \in fs : domain[f] \in D
    BY <1>1
  <2> QED
    BY <2>1, SumByKey
<1>5. SumFunction(by) = SumOver(by, D) /\ SumFunction(g) = SumOver(g, fs)
  BY SumIs
<1>6. SumOver(g, fs) \in Nat
  BY SumType
<1>7. Amounts(by, D)
  BY <1>2 DEF Amounts
<1>8. \A d \in D : by[d] <= SumOver(by, D)
  BY <1>7, SumIsBound
<1> QED
  BY <1>2, <1>3, <1>4, <1>5, <1>6, <1>8

(* classify: a shortage when too little is usable, no fragmentation when    *)
(* one domain has enough.                                                   *)
LEMMA Classified ==
  ASSUME NEW required \in Nat, NEW usable \in Nat, NEW largest \in Nat, NEW scope, NEW reasons
  PROVE  LET classification == classify(required, usable, largest, scope, reasons) IN
         /\ classification = "CapacityShortage" <=> usable < required
         /\ classification = "None" <=> usable >= required /\ largest >= required
<1>1. CASE usable < required
  <2>1. ~(usable >= required)
    BY <1>1
  <2>2. classify(required, usable, largest, scope, reasons) = "CapacityShortage"
    BY <1>1, <2>1, Zenon DEF classify
  <2> QED
    BY <1>1, <2>1, <2>2
<1>2. CASE usable >= required /\ largest >= required
  <2>1. ~(usable < required)
    BY <1>2
  <2>2. classify(required, usable, largest, scope, reasons) = "None"
    BY <1>2, <2>1, Zenon DEF classify
  <2> QED
    BY <1>2, <2>1, <2>2
<1>3. CASE ~(usable < required) /\ ~(usable >= required /\ largest >= required)
  <2>1. classify(required, usable, largest, scope, reasons)
          \in {"SiteFragmentation", "CompatibilityFragmentation", "TopologyFragmentation",
               "PhysicalFragmentation", "PolicyFragmentation", "Mixed"}
    BY <1>3, Zenon DEF classify
  <2> QED
    BY <1>3, <2>1
<1> QED
  BY <1>1, <1>2, <1>3

(* A bounded set of numbers has a largest.                                  *)
LEMMA LargestOf ==
  ASSUME NEW T, T \subseteq Nat, T # {}, NEW bound \in Nat, \A n \in T : n <= bound
  PROVE  Max(T) \in T /\ \A n \in T : n <= Max(T)
<1>1. PICK rooms : rooms = {m \in Nat : \E n \in T : m = bound - n}
  OBVIOUS
<1>2. \A n \in T : n \in Nat /\ bound - n \in rooms
  BY <1>1
<1>3. rooms \subseteq Nat /\ rooms # {}
  BY <1>1, <1>2
<1>4. PICK room \in rooms : \A m \in rooms : room <= m
  BY <1>3, Smallest
<1>5. PICK largest \in T : room = bound - largest
  BY <1>1, <1>4
<1>6. ASSUME NEW n \in T PROVE largest >= n
  <2>1. bound - largest <= bound - n
    BY <1>2, <1>4, <1>5
  <2> QED
    BY <1>2, <2>1
<1>7. Max(T) \in T /\ \A n \in T : Max(T) >= n
  BY <1>6 DEF Max
<1> QED
  BY <1>2, <1>7

(* analyze_fragmentation over the findings of a report: the domains add up  *)
(* to the report, and the classification is what they say.                  *)
LEMMA FragmentationAgrees ==
  ASSUME NEW fs, IsFiniteSet(fs), \A f \in fs : CountsOnce(f), NEW excluded,
         NEW snapshot, IsFiniteSet(DOMAIN snapshot.domains),
         NEW workload, workload.required_accelerators \in Nat \ {0}, NEW reasons
  PROVE  LET report == report_of(fs, excluded)
             finding == fragmentation_of(workload, reasons, domain_map(snapshot, fs)) IN
         /\ finding.usable = report.usable /\ finding.stranded = report.stranded
         /\ finding.unknown = report.unknown
         /\ finding.classification = "CapacityShortage"
              <=> report.usable < workload.required_accelerators
         /\ finding.classification = "None" <=> finding.legal_domain_count > 0
<1>1. PICK D : D = DOMAIN snapshot.domains \cup {DomainOf(f) : f \in fs}
  OBVIOUS
<1>2. IsFiniteSet(D)
  <2>1. PICK g : g = [f \in fs |-> DomainOf(f)]
    OBVIOUS
  <2>2. {DomainOf(f) : f \in fs} \subseteq {g[f] : f \in fs} /\ DOMAIN g = fs
    BY <2>1
  <2>3. IsFiniteSet({DomainOf(f) : f \in fs})
    BY <2>2, FiniteImage
  <2> QED
    BY <1>1, <2>3, FS_Union
<1>3. \A f \in fs : DomainOf(f) \in D
  BY <1>1
<1>4. PICK domains : domains = domain_map(snapshot, fs)
  OBVIOUS
<1>5. PICK usable : usable = [f \in fs |-> Usable(f)]
  OBVIOUS
<1>6. PICK stranded : stranded = [f \in fs |-> Stranded(f)]
  OBVIOUS
<1>7. PICK unknown : unknown = [f \in fs |-> Unknown(f)]
  OBVIOUS
<1>8. Amounts(usable, fs) /\ Amounts(stranded, fs) /\ Amounts(unknown, fs)
  BY <1>5, <1>6, <1>7 DEF Amounts, CountsOnce
<1>9. DOMAIN domains = D
  BY <1>1, <1>4 DEF domain_map
<1>10. ASSUME NEW d \in D
       PROVE  LET here == {x \in fs : DomainOf(x) = d} IN
              /\ domains[d].usable = SumFunction([f \in here |-> usable[f]])
              /\ domains[d].stranded = SumFunction([f \in here |-> stranded[f]])
              /\ domains[d].unknown = SumFunction([f \in here |-> unknown[f]])
  <2>1. PICK here : here = {x \in fs : DomainOf(x) = d}
    OBVIOUS
  <2>2. /\ domains[d].usable = SumFunction([f \in here |-> Usable(f)])
        /\ domains[d].stranded = SumFunction([f \in here |-> Stranded(f)])
        /\ domains[d].unknown = SumFunction([f \in here |-> Unknown(f)])
    BY <1>1, <1>4, <2>1 DEF domain_map
  <2>3. /\ [f \in here |-> Usable(f)] = [f \in here |-> usable[f]]
        /\ [f \in here |-> Stranded(f)] = [f \in here |-> stranded[f]]
        /\ [f \in here |-> Unknown(f)] = [f \in here |-> unknown[f]]
    BY <1>5, <1>6, <1>7, <2>1
  <2> QED
    BY <2>1, <2>2, <2>3
<1>11. PICK byusable : byusable = [d \in D |-> domains[d].usable]
  OBVIOUS
<1>12. PICK bystranded : bystranded = [d \in D |-> domains[d].stranded]
  OBVIOUS
<1>13. PICK byunknown : byunknown = [d \in D |-> domains[d].unknown]
  OBVIOUS
<1>14. /\ SumFunction(byusable) = SumFunction(usable) /\ SumFunction(usable) \in Nat
       /\ \A d \in D : byusable[d] \in Nat /\ byusable[d] <= SumFunction(usable)
  <2>1. /\ DOMAIN usable = fs /\ DOMAIN byusable = D
        /\ \A d \in D : byusable[d]
             = SumFunction([f \in {x \in fs : DomainOf(x) = d} |-> usable[f]])
    BY <1>5, <1>10, <1>11
  <2> QED
    BY <1>2, <1>3, <1>8, <2>1, DomainsPartition
<1>15. SumFunction(bystranded) = SumFunction(stranded)
  <2>1. /\ DOMAIN stranded = fs /\ DOMAIN bystranded = D
        /\ \A d \in D : bystranded[d]
             = SumFunction([f \in {x \in fs : DomainOf(x) = d} |-> stranded[f]])
    BY <1>6, <1>10, <1>12
  <2> QED
    BY <1>2, <1>3, <1>8, <2>1, DomainsPartition
<1>16. SumFunction(byunknown) = SumFunction(unknown)
  <2>1. /\ DOMAIN unknown = fs /\ DOMAIN byunknown = D
        /\ \A d \in D : byunknown[d]
             = SumFunction([f \in {x \in fs : DomainOf(x) = d} |-> unknown[f]])
    BY <1>7, <1>10, <1>13
  <2> QED
    BY <1>2, <1>3, <1>8, <2>1, DomainsPartition
<1>17. PICK required \in Nat \ {0} : required = workload.required_accelerators
  OBVIOUS
<1>18. PICK largest : largest = Max({domains[d].usable : d \in DOMAIN domains} \cup {0})
  OBVIOUS
<1>19. /\ largest \in Nat
       /\ largest >= required <=> \E d \in D : domains[d].usable >= required
  <2>1. PICK T : T = {domains[d].usable : d \in DOMAIN domains} \cup {0}
    OBVIOUS
  <2>2. \A d \in D : domains[d].usable \in Nat /\ domains[d].usable <= SumFunction(usable)
    BY <1>11, <1>14
  <2>3. T \subseteq Nat /\ T # {} /\ \A n \in T : n <= SumFunction(usable)
    BY <1>9, <1>14, <2>1, <2>2
  <2>4. largest \in T /\ \A n \in T : n <= largest
    BY <1>14, <1>18, <2>1, <2>3, LargestOf
  <2>5. \A n \in T : n = 0 \/ \E d \in D : n = domains[d].usable
    BY <1>9, <2>1
  <2>6. \A d \in D : domains[d].usable <= largest
    BY <1>9, <2>1, <2>4
  <2>7. ASSUME largest >= required PROVE \E d \in D : domains[d].usable >= required
    BY <1>17, <2>4, <2>5, <2>7
  <2>8. ASSUME NEW d \in D, domains[d].usable >= required PROVE largest >= required
    BY <1>17, <2>2, <2>3, <2>4, <2>6, <2>8
  <2> QED
    BY <2>3, <2>4, <2>7, <2>8
<1>20. PICK legal : legal = {d \in DOMAIN domains : domains[d].usable >= required}
  OBVIOUS
<1>21. Cardinality(legal) > 0 <=> \E d \in D : domains[d].usable >= required
  <2>1. IsFiniteSet(legal)
    BY <1>2, <1>9, <1>20, FS_Subset
  <2>2. Cardinality(legal) \in Nat /\ (Cardinality(legal) = 0 <=> legal = {})
    BY <2>1, FS_CardinalityType, FS_EmptySet
  <2> QED
    BY <1>9, <1>20, <2>2
<1>22. PICK finding : finding = fragmentation_of(workload, reasons, domains)
  OBVIOUS
<1>23. /\ finding.usable = SumFunction(byusable) /\ finding.stranded = SumFunction(bystranded)
       /\ finding.unknown = SumFunction(byunknown)
       /\ finding.legal_domain_count = Cardinality(legal)
       /\ finding.classification = classify(required, SumFunction(byusable), largest,
                                            workload.required_domain_kind, reasons)
  BY <1>9, <1>11, <1>12, <1>13, <1>17, <1>18, <1>20, <1>22 DEF fragmentation_of
<1>24. /\ finding.classification = "CapacityShortage" <=> SumFunction(usable) < required
       /\ finding.classification = "None"
            <=> SumFunction(usable) >= required /\ largest >= required
  BY <1>14, <1>17, <1>19, <1>23, Classified
<1>25. (\E d \in D : domains[d].usable >= required) => SumFunction(usable) >= required
  BY <1>11, <1>14, <1>17
<1>26. /\ report_of(fs, excluded).usable = SumFunction(usable)
       /\ report_of(fs, excluded).stranded = SumFunction(stranded)
       /\ report_of(fs, excluded).unknown = SumFunction(unknown)
  BY <1>5, <1>6, <1>7 DEF report_of
<1> QED
  BY <1>4, <1>14, <1>15, <1>16, <1>17, <1>19, <1>21, <1>22, <1>23, <1>24, <1>25, <1>26

(* Analyses!CapacityPartitioned, for every federation (capacity.hpp:155-173,*)
(* analysis.cpp:178-290): idle capacity is usable, open or stranded for one *)
(* primary reason, so that no report is refused because it does not close;  *)
(* the placement domains add up to it, and fragmentation is reported only   *)
(* where enough is usable and no domain has enough of it.                   *)
THEOREM IdleCapacityIsPartitioned == Spec => []CapacityPartitioned
<1>1. ASSUME TypeOK PROVE CapacityPartitioned
  <2>1. PICK all : all = records
    OBVIOUS
  <2>2. WellFormed(all)
    BY <1>1, <2>1 DEF TypeOK
  <2> SUFFICES ASSUME NEW class \in Classes
               PROVE  PartitionedBy(analyze_stranded_capacity(all, class, FALSE),
                                    analyze_fragmentation(all, class),
                                    select_workload(all, class).required_accelerators)
    BY <2>1 DEF CapacityPartitioned
  <2>3. PICK fs : fs = findings(all, class, FALSE)
    OBVIOUS
  <2>4. IsFiniteSet(fs) /\ \A f \in fs : CountsOnce(f)
    BY <2>2, <2>3, FindingsFinite, FindingCounts
  <2>5. IsFiniteSet(DOMAIN all.domains)
    <3>1. "domains" \in DOMAIN all
      BY <2>2 DEF WellFormed, FieldsOf
    <3>2. IsFiniteSet(DOMAIN all["domains"])
      BY <2>2, <3>1, KindIsFinite
    <3> QED
      BY <3>2
  <2>6. PICK workload : workload = select_workload(all, class)
    OBVIOUS
  <2>7. workload.required_accelerators \in Nat \ {0}
    <3>1. PICK of : of = {w \in DOMAIN all.workloads : all.workloads[w].workload_class = class}
      OBVIOUS
    <3>2. of # {} /\ of \subseteq Nat
      <4>1. PICK w \in DOMAIN all.workloads : class = all.workloads[w].workload_class
        BY <2>1 DEF Classes
      <4>2. DOMAIN all.workloads \subseteq Nat
        BY <2>2, RecordsAssumption, KindsOfRecords DEF WellFormed
      <4> QED
        BY <3>1, <4>1, <4>2
    <3>3. PICK first \in of : \A v \in of : first <= v
      BY <3>2, Smallest
    <3>4. Min(of) \in of
      BY <3>3 DEF Min
    <3>5. PICK w : w = Min(of)
      OBVIOUS
    <3>6. workload = all["workloads"][w] /\ w \in DOMAIN all["workloads"]
      BY <2>6, <3>1, <3>2, <3>4, <3>5 DEF select_workload
    <3>7. /\ "workloads" \in DOMAIN FieldsOf
          /\ "required_accelerators" \in FieldsOf["workloads"]
      BY DEF FieldsOf
    <3>8. Valid("workloads", "required_accelerators",
                all["workloads"][w]["required_accelerators"])
      BY <2>2, <3>6, <3>7 DEF WellFormed
    <3> QED
      BY <3>6, <3>8 DEF Valid
  <2>8. PICK excluded : excluded =
          {c \in DOMAIN all.clusters :
             all.clusters[c].currentness \notin {"Current", "Retired"} /\ ~FALSE}
    OBVIOUS
  <2>9. PICK report : report = report_of(fs, excluded)
    OBVIOUS
  <2>10. analyze_stranded_capacity(all, class, FALSE) = report /\ report.findings = fs
    <3>1. analyze_stranded_capacity(all, class, FALSE) = report
      BY <2>3, <2>8, <2>9 DEF analyze_stranded_capacity
    <3>2. report.findings = fs
      BY <2>9 DEF report_of
    <3> QED
      BY <3>1, <3>2
  <2>11. PICK reasons : reasons = {r \in Reasons : report.by_reason[r] # 0}
    OBVIOUS
  <2>12. PICK finding : finding = fragmentation_of(workload, reasons, domain_map(all, fs))
    OBVIOUS
  <2>13. analyze_fragmentation(all, class) = finding
    BY <2>6, <2>10, <2>11, <2>12 DEF analyze_fragmentation
  <2>14. report.idle = report.usable + report.unknown + SumFunction(report.by_reason)
    BY <2>4, <2>9, ReportCloses
  <2>15. /\ finding.usable = report.usable /\ finding.stranded = report.stranded
         /\ finding.unknown = report.unknown
         /\ finding.classification = "CapacityShortage"
              <=> report.usable < workload.required_accelerators
         /\ finding.classification = "None" <=> finding.legal_domain_count > 0
    BY <2>4, <2>5, <2>7, <2>9, <2>12, FragmentationAgrees
  <2> QED
    BY <2>6, <2>10, <2>13, <2>14, <2>15 DEF PartitionedBy
<1> QED
  BY <1>1, AnalysesTypeCorrect, PTL
=============================================================================
