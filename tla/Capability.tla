----------------------------- MODULE Capability -----------------------------
(***************************************************************************)
(* Capabilities, what is required of them and what is known of whether     *)
(* they meet it (capability.cpp), and the one set that three publications  *)
(* are merged into (analysis.cpp, observatory.cpp).                        *)
(*                                                                         *)
(* A set is a partial function from keys to values.  A text is the         *)
(* sequence of the numbers between its dots, and <<>> is the empty text.   *)
(* The numeric kinds are one, so a comparison is of numbers; precision and *)
(* evidence class are left out.                                            *)
(***************************************************************************)
EXTENDS Integers, Sequences, FiniteSets

LOCAL INSTANCE FiniteSetsExt

CONSTANT CapabilityLimit   \* kMaxCapabilityEntriesPerPublication, CapabilitySet::limit

(* CapabilityKey in its order                                               *)
KeyOrder ==
  <<"AcceleratorArchitecture", "AcceleratorVendor", "AcceleratorFamily",
    "AcceleratorModel", "ComputeCapability", "PrecisionFp64", "PrecisionFp32",
    "PrecisionTf32", "PrecisionFp16", "PrecisionBf16", "PrecisionFp8E4M3",
    "PrecisionFp8E5M2", "PrecisionFp6", "PrecisionInt8", "PrecisionInt4", "PrecisionFp4",
    "MemoryBytes", "MemoryBandwidthGbps", "MemoryType", "MemoryEcc", "InterconnectType",
    "InterconnectBandwidthGbps", "NvlinkGeneration", "PcieGeneration", "PartitionSupport",
    "PartitionModes", "PartitionGeometry", "PartitionMaxInstances", "RuntimeApi",
    "RuntimeVersion", "RuntimeAbi", "RuntimeGeneration", "DriverApi", "DriverVersion",
    "DriverAbi", "DriverGeneration", "CompilerTarget", "CompilerVersion", "KernelFormat",
    "KernelArchitectures", "CollectiveSupport", "CollectiveBackend",
    "CollectiveMaxGroupSize", "RdmaCapability", "GpuDirectCapability",
    "GpuDirectStorage", "CxlCapability", "DpuSmartNicCapability", "ArtifactFormat",
    "ArtifactFormats", "QuantizationSupport", "QuantizationFormats",
    "SparseExecutionSupport", "InferenceServingBackend", "FirmwareGeneration",
    "ContainerRuntime", "OperatingSystem", "SecurityIsolation", "OffloadCapability">>
KeysBetween(first, last) ==
  LET Place(k) == CHOOSE n \in DOMAIN KeyOrder : KeyOrder[n] = k
  IN {KeyOrder[n] : n \in Place(first)..Place(last)}
PrecisionKeys == KeysBetween("PrecisionFp64", "PrecisionFp4")

-----------------------------------------------------------------------------
(* CapabilityValue                                                          *)
UnknownValue == [kind |-> "unknown"]
Boolean(b) == [kind |-> "boolean", v |-> b]
Number(n) == [kind |-> "number", v |-> n]
Text(t) == [kind |-> "text", v |-> t]
TextSet(s) == [kind |-> "set", v |-> s]

tri_from_bool(b) == IF b THEN "Yes" ELSE "No"
tri_not(t) == CASE t = "Yes" -> "No" [] t = "No" -> "Yes" [] OTHER -> "Unknown"
tri_and(a, b) ==
  CASE "No" \in {a, b} -> "No" [] {a, b} = {"Yes"} -> "Yes" [] OTHER -> "Unknown"

(* -1, 0 or 1; a version without a component is before one with it.         *)
compare_version_strings(a, b) ==
  LET differ == {n \in 1..Max({Len(a), Len(b)}) :
                   n > Len(a) \/ n > Len(b) \/ a[n] # b[n]}
      first == Min(differ)
  IN CASE differ = {} -> 0
       [] first > Len(a) -> -1
       [] first > Len(b) -> 1
       [] OTHER -> IF a[first] < b[first] THEN -1 ELSE 1

-----------------------------------------------------------------------------
(* CapabilityRequirement: [key, comparator, value, optional]                *)
Comparators ==
  {"Present", "Absent", "Equals", "NotEquals", "AtLeast", "AtMost", "AnyOf", "AllOf"}

KindsOf(a, b) == <<a.kind, b.kind>>

present(v) == IF v.kind = "boolean" THEN tri_from_bool(v.v) ELSE "Yes"

equals(v, r) ==
  CASE KindsOf(v, r) \in {<<"number", "number">>, <<"text", "text">>,
                         <<"boolean", "boolean">>} -> tri_from_bool(v.v = r.v)
    [] KindsOf(v, r) = <<"set", "text">> -> tri_from_bool(r.v \in v.v)
    [] OTHER -> "Unknown"

(* order: v not below r when sense is 1, not above it when sense is -1      *)
ordered(v, r, sense) ==
  CASE KindsOf(v, r) = <<"number", "number">> ->
         tri_from_bool(sense * (v.v - r.v) >= 0)
    [] KindsOf(v, r) = <<"text", "text">> ->
         tri_from_bool(sense * compare_version_strings(v.v, r.v) >= 0)
    [] OTHER -> "Unknown"

any_of(v, r) ==
  CASE r.kind # "set" -> "Unknown"
    [] v.kind = "text" -> tri_from_bool(v.v \in r.v)
    [] v.kind = "set" -> tri_from_bool(v.v \cap r.v # {})
    [] OTHER -> "No"

all_of(v, r) ==
  IF r.kind # "set" THEN "Unknown" ELSE tri_from_bool(v.kind = "set" /\ r.v \subseteq v.v)

(* What a capability that nobody publishes says of a requirement            *)
Unpublished(comparator) ==
  CASE comparator = "Absent" -> "Yes" [] comparator = "Present" -> "No"
    [] OTHER -> "Unknown"

(* How a value that is known compares with what is required                 *)
Compare(comparator, v, r) ==
  CASE comparator = "Present"   -> present(v)
    [] comparator = "Absent"    -> tri_not(present(v))
    [] comparator = "Equals"    -> equals(v, r)
    [] comparator = "NotEquals" -> tri_not(equals(v, r))
    [] comparator = "AtLeast"   -> ordered(v, r, 1)
    [] comparator = "AtMost"    -> ordered(v, r, -1)
    [] comparator = "AnyOf"     -> any_of(v, r)
    [] comparator = "AllOf"     -> all_of(v, r)

(* Mutant of evaluate_requirement: a value that is not known counts as one  *)
(* that does not meet the requirement.                                      *)
evaluate_requirement_closed(req, set) ==
  IF req.key \notin DOMAIN set THEN "No"
  ELSE IF set[req.key].kind = "unknown" THEN "No"
  ELSE Compare(req.comparator, set[req.key], req.value)

(* check.satisfied                                                          *)
evaluate_requirement(req, set) ==
  IF req.key \notin DOMAIN set THEN Unpublished(req.comparator)
  ELSE IF set[req.key].kind = "unknown" THEN "Unknown"
  ELSE Compare(req.comparator, set[req.key], req.value)

(* require_text and destination_supports_text: does the set name the text?  *)
supports_text(set, key, text) ==
  IF key \notin DOMAIN set THEN "Unknown" ELSE equals(set[key], Text(text))

-----------------------------------------------------------------------------
(* The entries of one set put into another one after the other: a key that  *)
(* is there is replaced, and a new one is dropped when the set is full.     *)
PutEntries(into, entries) ==
  LET Place(k) == CHOOSE n \in DOMAIN KeyOrder : KeyOrder[n] = k
      new == DOMAIN entries \ DOMAIN into
      kept == {k \in new : Cardinality(DOMAIN into)
                 + Cardinality({j \in new : Place(j) <= Place(k)}) <= CapabilityLimit}
  IN [k \in DOMAIN into \cup kept |->
        IF k \in DOMAIN entries THEN entries[k] ELSE into[k]]

(* The catalogue of the accelerator class, then the cluster, then the       *)
(* runtime.                                                                 *)
merge_capabilities(cluster, class, runtime) ==
  PutEntries(PutEntries(PutEntries(<<>>, class), cluster), runtime)
=============================================================================
