CONSTANTS
  ChunkCount = 3
  ChunkRecords = 2
  MaxRecords = 5
SPECIFICATION Spec
INVARIANTS TypeOK RecoversNewestRun FinalizedMeansComplete LossIsFlagged
PROPERTY ImplementsFlightRecorder
CHECK_DEADLOCK FALSE
