----------------------------- MODULE MCSessions -----------------------------
(* A small instance of Sessions for TLC: one process, which may skip, lose  *)
(* and repeat, against a coordinator that restarts or reloads once.         *)
EXTENDS Sessions, TLC

CONSTANTS k1, f1, none

OneKey == {k1}
OneFederation == {f1}
=============================================================================
