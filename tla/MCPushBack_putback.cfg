CONSTANTS
  SP = " "
  NUL = "0"
  WordChars <- MCWordChars
  Literals <- MCLiterals
  EOF <- MCEof
  EOI <- MCEoi
  NONE <- MCNone
  Texts <- MCTexts
  InitialStacks <- MCStacks
  Gap = 3
  SegMax = 3
  Fresh = "a"
  MaxPuts = 3
  CallerMay = {"literal"}
SPECIFICATION Spec
INVARIANT NoCrash
PROPERTY DeliversPutBack
