CONSTANTS
  l1 = l1
  l2 = l2
  s1 = s1
  s2 = s2
  o1 = o1
  NONE = NONE
  Line = Line
  Lexes <- MCLexes
  Streams <- MCStreams
  OStreams <- MCOStreams
  MaxDepth = 2
  CallerMay <- Careful
  Plain = {"a", "b", "k", "K", "N"}
  Accented = {"e"}
  Alien = {"w"}
  Zero = "0"
  WideTexts <- MCWideTexts
  FileTokens <- MCFileTokens
  Keywords <- MCKeywords
  Names <- MCNames
  NewNames <- MCNewNames
  Wants = {TRUE}
  MaxCalls = 4
  TmplNames = {"A", "B", ""}
  NoName = ""
  TmplValues = {"x", "long", "bad"}
  LongValues = {"long"}
  Unshown = {"bad"}
  TmplUnset = "NULL"
  Gone = "gone"
  MaxTmplCalls = 4
SPECIFICATION PartsSpec
INVARIANTS HeldWhileUsed LeftOverHasCause WrappersAgree
SYMMETRY Alike
CHECK_DEADLOCK FALSE
