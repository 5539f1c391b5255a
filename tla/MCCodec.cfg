SPECIFICATION CodecSpec
CONSTANTS
  WordBits = 20
  kMaxIdentifierLength = 4
  kMaxStringFieldBytes = 520
  kMaxFrameBytes = 2000
  kMaxBannerLength = 4
  kMaxEvidencePerFinding = 3
  kDefaultEvidencePerFinding = 2
  kMaxCapabilityEntriesPerPublication = 2
  kMaxValueSetEntries = 2
  kMaxArchitectures = 2
  kMaxPoolsPerCluster = 2
  kMaxClusterPerSite = 2
  kMaxCandidatesPerPlacement = 2
  kMaxStageEventsPerMigration = 2
  kPortabilityDimensionCount = 2
  kMaxDriftEntries = 2
  kCollectionLimit = 3
  kMaxReplyRows = 2
  kMaxRowFields = 2
  kMaxDriftCapabilities = 2
  max_frame_bytes = 1600
  Chunks <- MCChunks
  max_records = 2
  max_persistence_bytes = 7226
INVARIANTS RoundTrip LoadedIsAdmissible AcceptedPayloadWasSent RestoredIsSaved SavedIsLoadable
CHECK_DEADLOCK FALSE
