CONSTANTS
  Requests = {r1, r2}
  Async = {}
  Parallel = 2
  Capacity = 1
  Stoppers = {s1}
  LateModes = {FALSE}
  Null = Null
SPECIFICATION FairSpec
PROPERTIES
  SyncCallReturns
CHECK_DEADLOCK FALSE
