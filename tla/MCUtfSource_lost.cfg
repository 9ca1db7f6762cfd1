SPECIFICATION Spec
CONSTANTS
  MaxChars = 5
  Files <- Utf8Whole
  WrdBuf = 6
  BufSiz = 8
  WchSiz = 4
  ChMax = 4
  Requests = {1, 3, 5}
INVARIANT CompleteAtEof
CHECK_DEADLOCK FALSE
