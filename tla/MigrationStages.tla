-------------------------- MODULE MigrationStages --------------------------
(***************************************************************************)
(* The stages of a migration and the moves between them (migration.cpp).   *)
(* Constant-level: the migration history and the record codec share it.    *)
(***************************************************************************)
EXTENDS Naturals

Ordered == <<"Planned", "SourceQuiescing", "StateCaptured", "TransferStarted",
             "TransferComplete", "DestinationPrepared", "RestoreStarted",
             "RestoreComplete", "RevalidationRequired", "Committed">>
Terminal == {"Committed", "RolledBack", "Failed"}
Exceptional == {"RolledBack", "Failed", "OutcomeUnknown"}
Stage == {"Planned", "SourceQuiescing", "StateCaptured", "TransferStarted",
          "TransferComplete", "DestinationPrepared", "RestoreStarted",
          "RestoreComplete", "RevalidationRequired", "Committed",
          "RolledBack", "Failed", "OutcomeUnknown"}
Outcome == {"InProgress", "Committed", "RolledBack", "Failed", "Unknown"}

(* The enumerators by their numbers, from 0, as the encoded records have    *)
(* them.                                                                    *)
StageNumbered(n) ==
  CASE n < 10 -> Ordered[n + 1] [] n = 10 -> "RolledBack" [] n = 11 -> "Failed"
    [] OTHER -> "OutcomeUnknown"
OutcomeNumbered(n) ==
  CASE n = 0 -> "InProgress" [] n = 1 -> "Committed" [] n = 2 -> "RolledBack"
    [] n = 3 -> "Failed" [] OTHER -> "Unknown"

(* migration_stage_rank: the order of progress, for the stages that have one*)
Ranked == Stage \ Exceptional
migration_stage_rank(stage) == CHOOSE n \in 1..10 : Ordered[n] = stage

(* Mutant of Successors: an unknown outcome starts over.                    *)
SuccessorsStartOver(from) ==
  CASE from = "Planned"              -> {"SourceQuiescing"}
    [] from = "SourceQuiescing"      -> {"StateCaptured"}
    [] from = "OutcomeUnknown"       -> {"SourceQuiescing"}
    [] OTHER                         -> {}

(* is_valid_migration_transition                                            *)
Successors(from) ==
  CASE from = "Planned"              -> {"SourceQuiescing"}
    [] from = "SourceQuiescing"      -> {"StateCaptured"}
    [] from = "StateCaptured"        -> {"TransferStarted", "DestinationPrepared"}
    [] from = "TransferStarted"      -> {"TransferComplete"}
    [] from = "TransferComplete"     -> {"DestinationPrepared", "RestoreStarted"}
    [] from = "DestinationPrepared"  -> {"RestoreStarted"}
    [] from = "RestoreStarted"       -> {"RestoreComplete"}
    [] from = "RestoreComplete"      -> {"RevalidationRequired", "Committed"}
    [] from = "RevalidationRequired" -> {"Committed"}
    [] from = "OutcomeUnknown"       -> {"Committed", "RevalidationRequired"}
    [] OTHER                         -> {}

is_valid_migration_transition(from, to) ==
  /\ from \notin Terminal
  /\ \/ to \in Successors(from)
     \/ to \in Exceptional /\ to # from

is_acceptable_migration_event(from, to) ==
  from = to \/ is_valid_migration_transition(from, to)

(* The outcome MigrationRecord::validate expects of a stage.                *)
OutcomeOf(stage) ==
  CASE stage \in Terminal          -> stage
    [] stage = "OutcomeUnknown"    -> "Unknown"
    [] OTHER                       -> "InProgress"

=============================================================================
