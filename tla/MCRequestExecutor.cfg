CONSTANTS
  Requests = {r1, r2, r3}
  Async = {r1, r2}
  Parallel = 2
  Capacity = 1
  Stoppers = {s1, s2}
  LateModes = {TRUE, FALSE}
  Null = Null
SPECIFICATION MCSpec
INVARIANT StopDrains
PROPERTY ExecutedAndStopped
CHECK_DEADLOCK FALSE
