---------------------------- MODULE MCMigrations ----------------------------
(***************************************************************************)
(* Small instances of Migrations for TLC: one workload whose migrations    *)
(* supersede one another, published when planned, when nearly complete, or *)
(* with a history of their own.                                            *)
(***************************************************************************)
EXTENDS Migrations, TLC

CONSTANTS k1, k2, f1, w1, m1, m2, none

OneKey == {k1}
TwoKeys == {k1, k2}
OneFederation == {f1}
OneWorkload == {w1}
TwoMigrations == {m1, m2}

Record(g, stage, old, events) ==
  [generation |-> g, workload |-> w1, supersedes |-> old, stage |-> stage,
   outcome |-> OutcomeOf(stage), revalidation_pending |-> FALSE, events |-> events]

Event(stage, s) == [generation |-> 1, stage |-> stage, sequence |-> s]

MixedRecords ==
  {Record(1, "Planned", none, <<>>),
   Record(1, "RestoreComplete", m1, <<>>),
   Record(1, "StateCaptured", none, <<Event("StateCaptured", 2)>>),
   Record(2, "OutcomeUnknown", none, <<Event("OutcomeUnknown", 3)>>)}
=============================================================================
