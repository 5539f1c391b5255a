SPECIFICATION MigrationSpec
CONSTANTS
  k1 = k1
  k2 = k2
  f1 = f1
  w1 = w1
  m1 = m1
  m2 = m2
  none = none
  Keys <- OneKey
  Federations <- OneFederation
  NoFederation = none
  MaxPublishers = 1
  MaxPublishersPerFederation = 1
  MaxSequence = 4
  MaxEpoch = 2
  MigrationIds <- TwoMigrations
  MigratedWorkloads <- OneWorkload
  NoMigration = none
  MigrationRecords <- MixedRecords
  MaxMigrations = 2
  MaxStageEvents = 3
  MaxMigrationGeneration = 2
INVARIANTS StoredHistoryLegal ProgressNeverBackwards CurrentIsFreshlyStamped
