SPECIFICATION Spec
CONSTANTS
  a = a
  b = b
  q = q
  Chars = {a, b}
  Quotes = {q}
  Sources <- MCSources
  MaxDepth = 3
  CallerMay = {"push_over_ungot"}
PROPERTY PutBackIsNext
