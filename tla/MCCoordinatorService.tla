------------------------ MODULE MCCoordinatorService ------------------------
(* Small instances of CoordinatorService for TLC: two clients for a queue   *)
(* that holds one item.                                                     *)
EXTENDS CoordinatorService, TLC

CONSTANTS c1, c2, w1, w2, nobody

OneConnection == {c1}
TwoConnections == {c1, c2}
OneWorker == {w1}
TwoWorkers == {w1, w2}

(* The workers are interchangeable, and so are the connections.             *)
ThreadSymmetry == Permutations(Connections) \cup Permutations(Workers)
=============================================================================
