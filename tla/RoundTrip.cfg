CONSTANTS
  ChunkCount = 2
  PayloadBits = 3
  Bits <- MCBits
  ClockRange = 4
  GenerationRange = 3
  InitialGeneration = 2
  Tracks = {"main", "aux"}
  DefaultTrack = "main"
  SliceEvents = {"call"}
  InstantEvents = {"tick"}
  StateEvents <- MCStateEvents
  Codebook <- MCCodebook
  ScopeCapacity = 1
  MaxRequests = 4
  MaxSyncs = 0
SPECIFICATION Spec
INVARIANTS FinalizedReadsBack AbandonedReadsBack InterruptedReadsBack
CHECK_DEADLOCK FALSE
