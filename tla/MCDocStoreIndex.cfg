SPECIFICATION Spec
CONSTANTS
  Threads = {t1, t2}
  Names = {a, b}
  FieldIds = {1, 128}
  Batches <- SomeBatches
  Bits = 3
  ByteBits = 1
  Limits = {1, 20}
  DBTableSegmentSize = 2
  MaxCalls = 3
  Disciplined = TRUE
  Deleted = Deleted
  None = None
INVARIANTS IndexedValueStored
