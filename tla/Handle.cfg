CONSTANTS
  Threads = {t1, t2, t3}
  NoOwner = NoOwner
  MaxDepth = 3
  MaxGuards = 3
  MaxLeaks = 1
  MaxCalls = 4
SPECIFICATION Spec
SYMMETRY Symmetry
INVARIANTS TypeOK GuardsOwn NoAliasing NoLostWakeup
CHECK_DEADLOCK FALSE
