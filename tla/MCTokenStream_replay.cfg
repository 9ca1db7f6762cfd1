SPECIFICATION StreamsSpec
CONSTANTS
  Scripts <- MCScripts
  Formats = {"bin", "txt"}
  TextLen <- MCTextLen
  Templates <- MCTemplates
  Spaces = {10, 31, 45, 60, 75, 500}
  FlushAt = 45
  BufSiz = 36
  MagicLen = 5
  HdrLen = 6
  BlkLen = 2
  Writers <- MCWriters
  Foreign <- MCForeign
  RawTexts <- MCRawTexts
  Rooms = {0, 6, 8, 13, 14, 100}
  CutSets <- MCCutSets
  Starts = {0, 3}
  Installed <- MCInstalled
  Nil = Nil
  PushedFiles <- MCPushedFiles
  Readers <- MCReaders
  Host = "BIN/LITTLE"
  TmplLists <- MCTmplLists
  TokensOf <- MCTokensOf
  Prepended <- MCPrepended
INVARIANTS ReplayedInOrder EndsTruly OpenedAsWritten PushTold
PROPERTIES ReaderEnds
