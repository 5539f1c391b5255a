---------------------------- MODULE MCObservatory ----------------------------
(***************************************************************************)
(* Small instances of Observatory for TLC.  The registry instances have    *)
(* three records that refer to one another and no cluster; the cluster     *)
(* instances have one federation and one cluster, whose generations can    *)
(* advance by registration, by evidence and by retirement.                 *)
(***************************************************************************)
EXTENDS Observatory, TLC

CONSTANTS k1, k2, f1, s1, r1, c1, a, b, p, none, empty

TwoKeys == {k1, k2}
OneFederation == {f1}
OneKey == {k1}

(* A federation, a site that refers to it and a runtime that refers to      *)
(* nothing.                                                                 *)
RegistryItems == {f1, s1, r1}
RegistryKind == f1 :> "federation" @@ s1 :> "site" @@ r1 :> "runtime"
FederationOnly == {f1}
FederationKind == f1 :> "federation"
RegistryLimit == [kind \in RecordKinds \cup {"cluster"} |-> 1]

TwoContents == {a, b}
OneContent == {a}
OneCluster == {c1}
NoClusters == {}
NoMessages == {}
OnePayload == {p}

(* A site and a cluster refer to the federation.                            *)
MCReferences ==
  [x \in Objects \X Contents |-> IF x[1] \in {s1, c1} THEN {f1} ELSE {}]

(* The two identities are interchangeable.                                  *)
KeySymmetry == Permutations(Keys)

Pools(g) == {[ledger |-> p, generation |-> g]}

(* Registrations declare the generations they are about to publish under,   *)
(* and carry capacity.                                                      *)
MCClusterRecords ==
  {[generation |-> g, content |-> a, capability_generation |-> 1, capabilities |-> empty,
    capacity_generation |-> 1, pools |-> Pools(1), readiness |-> "Ready"] : g \in 1..2}

MCCapabilityMessages ==
  {[federation_generation |-> f, cluster_generation |-> g, capability_generation |-> 1,
    capabilities |-> p] : f \in {0, 2}, g \in {0, 2}}

(* One leaves the generation of its pool to the coordinator.                *)
MCCapacityMessages ==
  {[federation_generation |-> 0, cluster_generation |-> g, capacity_generation |-> 2,
    pools |-> Pools(IF g = 0 THEN 2 ELSE 0)] : g \in {0, 1}}
=============================================================================
