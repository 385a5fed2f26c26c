CONSTANTS
  Clients = {c1, c2}
  Workers = {w1, w2}
  Owner = owner
  Tasks = {a, b, c}
  max_queue_size_ = 1
SPECIFICATION FairSpec
INVARIANTS
  NoLostWakeup
  TasksKept
PROPERTIES
  CallsReturn
CHECK_DEADLOCK FALSE
