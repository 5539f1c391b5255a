----------------------------- MODULE MCAuthority -----------------------------
(* Small instances of Authority for TLC: identities that compete for one    *)
(* place fewer than there are of them, sequence numbers that can skip and   *)
(* repeat, and a restart.                                                   *)
EXTENDS Authority, TLC

CONSTANTS k1, k2, k3, f1, f2, none

ThreeKeys == {k1, k2, k3}
TwoKeys == {k1, k2}
OneFederation == {f1}
TwoFederations == {f1, f2}
KeySymmetry == Permutations(Keys) \cup Permutations(Federations)
=============================================================================
