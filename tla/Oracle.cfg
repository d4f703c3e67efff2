SPECIFICATION Spec
CONSTANTS
  Tracks = {t1}
  Functions = {f, g}
  MaxCalls = 3
  MaxDepth = 2
  MaxChunks = 3
  MaxFaults = 1
INVARIANTS OncePerCall PairedRight VerdictIsRight
CHECK_DEADLOCK FALSE
