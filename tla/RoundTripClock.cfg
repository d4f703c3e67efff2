CONSTANTS
  ChunkCount = 2
  PayloadBits = 5
  Bits <- MCClockBits
  ClockRange = 4
  GenerationRange = 3
  InitialGeneration = 2
  Tracks = {"main"}
  DefaultTrack = "main"
  SliceEvents = {}
  InstantEvents = {"tick"}
  StateEvents <- MCStateEvents
  Codebook <- MCCodebook
  ScopeCapacity = 1
  MaxRequests = 3
  MaxSyncs = 3
SPECIFICATION Spec
INVARIANTS FinalizedReadsBack InterruptedReadsBack
CHECK_DEADLOCK FALSE
