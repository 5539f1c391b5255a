---------------------------- MODULE MCHistories -----------------------------
(***************************************************************************)
(* Small instances of Histories for TLC.                                   *)
(***************************************************************************)
EXTENDS Histories, TLC

CONSTANTS k1, k2, f1, w1, w2, a, b, none

OneKey == {k1}
TwoKeys == {k1, k2}
OneFederation == {f1}
OneWorkload == {w1}
TwoWorkloads == {w1, w2}
TwoContents == {a, b}
OneContent == {a}

Symmetric == Permutations({w1, w2})
=============================================================================
