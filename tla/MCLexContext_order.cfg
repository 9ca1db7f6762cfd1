SPECIFICATION LoopSpec
CONSTANTS
  a = a
  b = b
  q = q
  Chars = {a, b}
  Quotes = {q}
  Sources <- MCSources
  MaxDepth = 3
  CallerMay = {"push_over_eof", "getch_over_eof"}
INVARIANTS EoiAtBottomOnly
PROPERTIES DeliversInOrder FailedSourceNotRead LoopEnds
