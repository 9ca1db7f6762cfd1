SPECIFICATION Spec
CONSTANTS
  IntBits = 8
  LongBits = 12
  PtrDigits = 4
  NameSiz = 3
  DflPrecision = 4
  Scale = 5
  Threads <- MCThreads
  Programs <- MCPrograms
  Streams <- MCStreams
  Stderr = "err"
  Buffered = {"disk"}
  Others = {"text"}
  RoomOf <- MCRoomOf
  TabBufSize = 4
  Core <- MCCore
CHECK_DEADLOCK FALSE
INVARIANTS
  FormatsMeant
  LossIsTold
  MessagesArrive
PROPERTIES
  CallsReturn
