SPECIFICATION AllSpec
CONSTANTS
  FieldValues <- Values
  MaxStart = 2
  MinStart = 0
  IsLength = TRUE
  FieldNames = {0, 1, 2, 3}
  PK = 1
  FieldTypes = {1, 4}
  DocValues = {5, 6}
  NameSize <- NameSizes
  ByteBits = 2
  GarbledSchema = GarbledSchema
  AdvThreads = {t1, t2}
  AdvNames = {"n1", "n2", "n3", "n4"}
  AdvFields <- SomeAdvFields
  FidCount = 3
  AdvNameSize <- AdvSizes
  NoField = NoField
  Garbled = Garbled
  Processors = {"s1", "s2", "t", "k"}
  PortCounts <- Counts
  Locals = {"p1", "p2", "p3"}
  Pipelines = {pl1, pl2}
  NoPipe = NoPipe
  W32 = 2
  W64 = 4
  GroupBits = 2
  Null = Null
  MaxUnknown = 1
  Responses = {r1, r2}
  SubIds = {s1, s2, s3}
  StatusInputs <- Statuses
  TableInputs <- TableContents
  WireInputs <- ForeignResponses
  Numbers = {1, 3}
  Strings <- SomeStrings
  MaxDemoFields = 2
  StreamTexts <- Texts
  Streams = {f1, f2}
  Tty = {f1}
  Stdin = f1
  BufferIds = {1, 2}
  BufSizes = {1}
  ScanStrings <- SomeScanStrings
  YY_BUF_SIZE = 2
  MaxPushed = 2
  NoBuf = NoBuf
CHECK_DEADLOCK FALSE
INVARIANTS FieldLimitsSound SchemaSound DocComplete AdvMapsAgree
  PipesSound
  SubMessagesOwned WireRoundTrip MessagesSurvive TextKept LongestToken
