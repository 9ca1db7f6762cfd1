SPECIFICATION SourcesSpec
CONSTANTS
  IdChars = {"x"}
  Blanks = {" "}
  LF = "lf"
  EscSym = "esc"
  Configs <- MCConfigs
  TextsOf <- MCTextsOf
  MaxLen = 6
  InputBufSiz = 3
  Surplus = 2
  CharMax = 2
  RoughSize = 2
  LexsegsMax = 2
  MaxChars = 4
  Files <- UtfFiles
  WrdBuf = 6
  BufSiz = 8
  WchSiz = 4
  ChMax = 4
  Requests = {1, 3, 5}
INVARIANTS TokensWithLines TextEndsTruly DecodedInPlace EndsTruly
PROPERTIES ReadToEnd RefillReturns
CHECK_DEADLOCK FALSE
