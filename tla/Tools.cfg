SPECIFICATION Spec
CONSTANTS
  Vocabulary <- MCVocabulary
  MaxSources = 2
  MaxPackets = 4
  Jobs = {j1, j2}
  Merger = j1
  Verifiers = {v1, v2}
  Before = Before
  NoFile = NoFile
INVARIANTS OutputWhole OneNewIndex TracksKept ConnectionsKept IndexAsBuilt
CHECK_DEADLOCK FALSE
