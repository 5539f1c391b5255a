SPECIFICATION Spec
CONSTANTS
  host = host
  a = a
  b = b
  c = c
  noImage = noImage
  noFile = noFile
  Savers <- HostOnly
  Host = host
  Observations <- ThreeObservations
  NoImage = noImage
  NoFile = noFile
  MaxBytes = 2
  HeaderBytes = 1
  MaxEpoch = 3
  MaxSaves = 4
INVARIANTS StateFileWhole SavedSurvives SavedEpochNotReused
PROPERTY FileMovesForward
SYMMETRY ObservationSymmetry
CHECK_DEADLOCK FALSE
