CONSTANTS
  u1 = u1
  u2 = u2
  Users = {u1, u2}
  GC = gc
  Settings <- MCSettings
  Ids = {1, 2, 3}
  MaxAdds = 3
  MaxRefs = 2
SPECIFICATION FairSpec
INVARIANTS
  SnapshotsSound
PROPERTIES
  EvictedIsDeleted
CHECK_DEADLOCK FALSE
