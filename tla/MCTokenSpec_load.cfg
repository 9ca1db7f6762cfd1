INIT LoadInit
NEXT LoadNext
CONSTANTS
  AUTO = AUTO
  word1 = word1
  word2 = word2
  plus = plus
  minus = minus
  Rsvd <- MCRsvd
  RsvdId <- MCRsvdId
  Names = {1, 5}
  Words = {word1, word2}
  Chars = {plus, minus}
  Code <- MCCode
  Dflt = {minus}
  Numbers <- MCNumbers
  MaxLines = 3
  Section = 10
  NUL = NUL
  Digits <- MCDigits
  Inputs <- MCInputs
  IdFirst <- MCIdFirst
  IdChars <- MCIdChars
  Spaces = {" "}
  CharCode <- MCCharCode
  Upper <- MCUpper
  HashSize = 3
  WMaxLen = 15
  ChMax = 1
  IdMax = 3
  Bits32 = 6
  Bits64 = 8
SYMMETRY MCSymmetry
INVARIANTS KeywordsKept LookupsAgree FreedOnce PrintedMeant KeywordsFound NumeralsMeant
CHECK_DEADLOCK FALSE
