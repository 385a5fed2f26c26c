CONSTANTS
  Producers = {p1, p2}
  Consumers = {c1, c2}
  Observers = {o1}
  Items = {a, b, c}
  InitCapacity = 1
  Capacities = {0, 2}
SPECIFICATION FairSpec
INVARIANTS
  WakeupsKept
PROPERTIES
  ImplementsChannel
  PutReturns
