SPECIFICATION Spec
CONSTANTS
  Nothing = Nothing
  CapabilityLimit = 12
  Registered <- MCRegistered
  Changes <- MCChanges
  Losses <- MCLosses
  MaxChanges = 2
INVARIANTS TruncationNeverMisleads CompatibleNotStranded ConclusionsNeedCurrentEvidence CapacityPartitioned
PROPERTIES EvidenceLossOnlyUndecides PolicyKeptApart
CHECK_DEADLOCK FALSE
