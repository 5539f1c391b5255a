SPECIFICATION Spec
CONSTANTS
  k1 = k1
  k2 = k2
  f1 = f1
  w1 = w1
  w2 = w2
  a = a
  b = b
  none = none
  Keys <- OneKey
  Federations <- OneFederation
  NoFederation = none
  MaxPublishers = 1
  MaxPublishersPerFederation = 1
  MaxSequence = 4
  MaxEpoch = 2
  MaxPlacementId = 2
  Workloads <- TwoWorkloads
  Contents <- OneContent
  MaxPlacements = 2
  MaxPortability = 1
  MaxGeneration = 2
  MaxTime = 2
PROPERTIES PlacementsMoveForward LatestMovesForward AssessmentsMoveForward
SYMMETRY Symmetric
