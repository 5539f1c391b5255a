---------------------------- MODULE MCDurability ----------------------------
(* Small instances of Durability for TLC: states of up to three units, of   *)
(* which two can be saved and one, with the header, loaded.                 *)
EXTENDS Durability, TLC

CONSTANTS host, a, b, c, noImage, noFile

HostOnly == {host}
ThreeObservations == {a, b, c}

(* The observations are interchangeable.                                    *)
ObservationSymmetry == Permutations(Observations)
=============================================================================
