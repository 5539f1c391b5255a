------------------------------ MODULE Capacity ------------------------------
(***************************************************************************)
(* Capacity accounting (capacity.cpp): the ledger of a pool, whose idle    *)
(* capacity is what the other components leave of the nominal one. Every   *)
(* amount is an unsigned word; a sum that does not fit is an error.        *)
(* Constant-level.                                                         *)
(***************************************************************************)
EXTENDS Integers

CONSTANT WordBits   \* width of the integers of the code: 64, scaled down

ASSUME WordAssumption == WordBits \in Nat \ {0}

WordMax == 2^WordBits - 1

(* CapacityLedger::from_components: refused when the components overflow,   *)
(* or exceed the nominal capacity.                                          *)
Components(l) == l.offline + l.allocated + l.reserved + l.draining + l.unusable
ClosesWithin(l) == Components(l) <= WordMax /\ Components(l) <= l.nominal

(* CapacityLedger::validate                                                 *)
LedgerOK(l) == ClosesWithin(l) /\ l.idle = l.nominal - Components(l)

=============================================================================
