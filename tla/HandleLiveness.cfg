CONSTANTS
  Threads = {t1, t2, t3}
  NoOwner = NoOwner
  MaxDepth = 2
  MaxGuards = 2
  MaxLeaks = 0
  MaxCalls = 2
SPECIFICATION FairSpec
PROPERTY WaitersGetIn
CHECK_DEADLOCK FALSE
