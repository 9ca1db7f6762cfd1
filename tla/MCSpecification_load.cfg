INIT SpecificationInit
NEXT SpecificationNext
CONSTANTS
  Specs <- MCSpecs
  TextsOf <- MCTextsOf
  EscChars <- MCEscChars
  Digit <- MCDigit
  Uppers <- MCUpperDigits
  LF <- L
  CR <- R
  CharMax = 2
  NHex = 2
  NOct = 2
  NUni <- MCNUni
  MaxCode = 32767
  SpecNames = {"a", "b", "d:a"}
  Base <- MCBase
  NoName = NoName
  NoSpec = NoSpec
  Texts <- MCTexts
  SpecPath <- MCSP
  FilePath <- MCFP
  Holds <- MCHolds
  Asked <- MCAsked
  Headers <- MCHeaders
  Keywords <- MCKeywords
  Code <- MCCode
  Upper <- MCUpper
  TableSize = 128
  Alphas = {"a", "A", "b", "X"}
  Digits = {"0", "1"}
  Controls = {"nl", "tab", "^", " ", "del"}
  UtfIds = {"w3"}
  NL = "nl"
  Tab = "tab"
  Blank = " "
  Minus = "-"
  Period = "."
  Underline = "_"
  Zero = "0"
  MarkMax = 6
  Utf8Max = 4
  CommentsMax = 2
  QuotesMax = 2
  PrefixesMax = 2
  PrefixMax = 3
  SuffixMax = 2
  PoolMax = 7
  WordMax = 3
  ReservedIds <- MCReservedIds
  ReservedNames <- MCReservedNames
  Asked2Class <- MCAsked2Class
  UldLines <- MCUldLines
  Before <- MCBefore
INVARIANTS EmittedWhole LiteralsMeant ChainLoaded AttributesHold LoadedIsReachable
CHECK_DEADLOCK FALSE
