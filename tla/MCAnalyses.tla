----------------------------- MODULE MCAnalyses -----------------------------
(***************************************************************************)
(* A small federation for TLC: a workload whose artifact fits one of two   *)
(* accelerator classes, on one of two clusters at two sites, and the ways  *)
(* in which each thing that an analysis reads may differ.                  *)
(***************************************************************************)
EXTENDS Analyses, TLC

(* Texts                                                                    *)
Hopper == <<9>>
Ampere == <<8>>
Elf == <<1>>
Checkpoint == <<2>>
Ptx == <<3>>
Nvcc == <<4>>
Vm == <<7>>

RuntimeCapabilities ==
  "ArtifactFormats" :> TextSet({Elf, Checkpoint}) @@ "KernelFormat" :> Text(Ptx)
  @@ "CompilerTarget" :> Text(Nvcc) @@ "DriverVersion" :> Text(<<5, 3>>)
ClusterCapabilities ==
  "SecurityIsolation" :> TextSet({Vm}) @@ "RdmaCapability" :> Boolean(TRUE)

Cluster(site, domain, class, runtime) ==
  [site |-> site, domain |-> domain, currentness |-> "Current", readiness |-> "Ready",
   accelerator_classes |-> <<class>>, runtimes |-> <<runtime>>,
   capabilities |-> ClusterCapabilities,
   pools |-> <<[class |-> class, nominal |-> 4, idle |-> 2],
               [class |-> 22, nominal |-> 2, idle |-> 1]>>]

Runtime(generation) ==
  [kind |-> "Cuda", abi |-> <<12>>, driver_abi |-> <<5>>, generation |-> generation,
   capabilities |-> RuntimeCapabilities]

Req(key, comparator, value, optional) ==
  [key |-> key, comparator |-> comparator, value |-> value, optional |-> optional]
Fp8 == Req("PrecisionFp8E4M3", "Equals", Boolean(TRUE), FALSE)
Driver == Req("DriverVersion", "AtLeast", Text(<<5, 2>>), FALSE)
Rdma == Req("RdmaCapability", "Present", UnknownValue, FALSE)

MCRegistered ==
  [sites |-> 1 :> <<>> @@ 2 :> <<>>,
   clusters |-> 1 :> Cluster(1, 11, 21, 31) @@ 2 :> Cluster(2, Nothing, 22, 32),
   accelerator_classes |->
     21 :> [architecture |-> Hopper, compute_capability |-> <<9, 0>>, memory |-> 80,
            capabilities |-> "PrecisionFp8E4M3" :> Boolean(TRUE)]
     @@ 22 :> [architecture |-> Ampere, compute_capability |-> <<8, 6>>, memory |-> 40,
               capabilities |-> "PrecisionFp8E4M3" :> Boolean(FALSE)],
   runtimes |-> 31 :> Runtime(1) @@ 32 :> Runtime(2),
   domains |-> 11 :> <<>>,
   policies |-> 51 :> [denied_sites |-> {}, allowed_sites |-> {},
                       denied_clusters |-> {}, allowed_clusters |-> {}],
   artifacts |-> 41 :> [kind |-> "ExecutableBinary", target_architectures |-> {Hopper},
                        minimum_compute_capability |-> <<8, 0>>, format |-> Elf,
                        kernel_format |-> Ptx, state_format |-> Checkpoint,
                        compiler_target |-> Nvcc, runtime_abi |-> <<12>>, driver_abi |-> <<5>>],
   workloads |-> 61 :> [workload_class |-> 1, artifact |-> 41, policy |-> 51, memory |-> 40,
                        required_accelerators |-> 2, acceptable |-> <<>>,
                        requirements |-> {Fp8, Driver, Rdma}, isolation_requirement |-> Vm,
                        required_domain_kind |-> "Site"],
   placements |-> 71 :> [workload |-> 61, selected |-> 1, currentness |-> "Current",
                         observed_at |-> 1]
                 @@ 72 :> [workload |-> 61, selected |-> 2, currentness |-> "Current",
                           observed_at |-> 0]]

Each(kind, ids, field, values) ==
  [kind |-> kind, ids |-> ids, field |-> field, values |-> values]

MCLosses ==
  <<Each("clusters", {1}, "currentness", {"Stale", "Unknown"}),
    Each("accelerator_classes", {21, 22}, "architecture", {<<>>}),
    Each("accelerator_classes", {21}, "compute_capability", {<<>>}),
    Each("accelerator_classes", {21, 22}, "memory", {0}),
    Each("runtimes", {31}, "abi", {<<>>}),
    Each("runtimes", {31}, "driver_abi", {<<>>}),
    Each("clusters", {1}, "runtimes", {<<>>})>>

MCChanges ==
  <<Each("clusters", {1}, "currentness", {"Retired"}),
    Each("clusters", {1, 2}, "readiness", {"Unknown", "Draining"}),
    Each("clusters", {1}, "accelerator_classes", {<<22, 21>>, <<>>}),
    Each("clusters", {1}, "capabilities",
           {<<>>, "SecurityIsolation" :> Text(<<6>>),
            ClusterCapabilities @@ "PrecisionFp8E4M3" :> Boolean(FALSE),
            ClusterCapabilities @@ "KernelFormat" :> UnknownValue,
            ClusterCapabilities @@ "KernelFormat" :> Text(<<5>>)}),
    Each("clusters", {2}, "domain", {11}),
    Each("accelerator_classes", {22}, "architecture", {Hopper}),
    Each("accelerator_classes", {21}, "compute_capability", {<<7, 5>>, <<8>>}),
    Each("accelerator_classes", {21}, "memory", {24}),
    Each("accelerator_classes", {22}, "capabilities", {"PrecisionFp8E4M3" :> Boolean(TRUE)}),
    Each("runtimes", {31}, "abi", {<<11>>}),
    Each("runtimes", {31}, "driver_abi", {<<4>>}),
    Each("runtimes", {32}, "kind", {"Rocm"}),
    Each("runtimes", {31}, "capabilities",
           {"ArtifactFormats" :> TextSet({Elf}), [RuntimeCapabilities EXCEPT !.KernelFormat = Text(<<5>>)],
            [RuntimeCapabilities EXCEPT !.DriverVersion = Text(<<5>>)],
            [RuntimeCapabilities EXCEPT !.CompilerTarget = Number(4)]}),
    Each("policies", {51}, "denied_sites", {{1}}),
    Each("policies", {51}, "allowed_sites", {{2}}),
    Each("policies", {51}, "denied_clusters", {{1}, {2}}),
    Each("artifacts", {41}, "kind", {"ModelWeights"}),
    Each("artifacts", {41}, "target_architectures", {{}, {Ampere}, {Ampere, Hopper}}),
    Each("artifacts", {41}, "state_format", {<<>>, <<6>>}),
    Each("workloads", {61}, "policy", {Nothing}),
    Each("workloads", {61}, "artifact", {Nothing}),
    Each("workloads", {61}, "acceptable", {<<22>>}),
    Each("workloads", {61}, "required_accelerators", {3, 5}),
    Each("workloads", {61}, "required_domain_kind", {"Federation"}),
    Each("workloads", {61}, "requirements",
           {{}, {[Fp8 EXCEPT !.optional = TRUE]}, {[Fp8 EXCEPT !.comparator = "NotEquals"]},
            {Req("ArtifactFormats", "AllOf", TextSet({Elf, Checkpoint}), FALSE),
             Req("MemoryBytes", "AtMost", Number(64), FALSE),
             Req("CollectiveBackend", "Absent", UnknownValue, FALSE)}}),
    Each("placements", {71}, "currentness", {"Stale"}),
    Each("placements", {71}, "selected", {2}),
    Each("placements", {72}, "observed_at", {2})>>
=============================================================================
