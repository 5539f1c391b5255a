SPECIFICATION Spec
CONSTANTS
  k1 = k1
  k2 = k2
  k3 = k3
  f1 = f1
  f2 = f2
  none = none
  Keys <- ThreeKeys
  Federations <- OneFederation
  NoFederation = none
  MaxPublishers = 2
  MaxPublishersPerFederation = 2
  MaxSequence = 3
  MaxEpoch = 2
INVARIANTS WatermarkIsLargestAccepted GapsCountEveryHole AuthorisedWithinBound
PROPERTIES ImplementsContract
