SPECIFICATION Spec
CONSTANTS
  k1 = k1
  k2 = k2
  f1 = f1
  s1 = s1
  r1 = r1
  c1 = c1
  a = a
  b = b
  p = p
  none = none
  empty = empty
  Keys <- TwoKeys
  Federations <- OneFederation
  NoFederation = none
  MaxPublishers = 2
  MaxPublishersPerFederation = 2
  MaxSequence = 3
  MaxEpoch = 2
  Items <- RegistryItems
  Kind <- RegistryKind
  Clusters <- NoClusters
  Contents <- OneContent
  References <- MCReferences
  Limit <- RegistryLimit
  ClusterRecords <- NoMessages
  CapabilityMessages <- NoMessages
  CapacityMessages <- NoMessages
  Payloads <- OnePayload
  Empty = empty
  MaxGeneration = 2
INVARIANTS StampsBelowWatermark FencedStructureNotCurrent StructuralStampsUnique RegistrySavable
SYMMETRY KeySymmetry
