SPECIFICATION Spec
CONSTANTS
  k1 = k1
  f1 = f1
  none = none
  Keys <- OneKey
  Federations <- OneFederation
  NoFederation = none
  MaxPublishers = 1
  MaxPublishersPerFederation = 1
  MaxSequence = 3
  MaxEpoch = 2
  MaxRequests = 5
INVARIANTS SuccessMeansAccepted AcceptedInOrder WatermarkBetween
PROPERTIES ExchangeEnds
