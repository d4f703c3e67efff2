CONSTANTS
  ChunkCount = 2
  PayloadBits = 3
  Bits <- MCBits
  ClockRange = 4
  GenerationRange = 3
  InitialGeneration = 2
  Tracks = {"main"}
  DefaultTrack = "main"
  SliceEvents = {"call"}
  InstantEvents = {"tick"}
  StateEvents <- MCStateEvents
  Codebook <- MCCodebook
  ScopeCapacity = 2
  MaxRequests = 3
  MaxSyncs = 2
SPECIFICATION Spec
INVARIANTS TypeOK RingKeepsNewest Ledger RequestsAccounted HeaderTellsTruth
  SlicesWithinGeneration SyncBeforeData AnchorsAdvance
PROPERTY OnlyRecordsTouchRing
CHECK_DEADLOCK FALSE
