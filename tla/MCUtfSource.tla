---------------------------- MODULE MCUtfSource -----------------------------
EXTENDS UtfSource

CONSTANT MaxChars

Char(n, w) == [words |-> n, width |-> w]
Utf8  == {Char(w, w) : w \in {1, 2, 4}}
Utf16 == {Char(1, 1), Char(1, 3), Char(2, 4)}

FilesOver(chars, cuts, fails) ==
  {f \in [chars : UNION {[1..n -> chars] : n \in 0..MaxChars}, cut : cuts, fails : fails] :
     f.cut > 0 => f.chars # <<>> /\ f.cut < Last(f.chars).words}

Utf8Whole == FilesOver(Utf8, {0}, {FALSE})
UtfFiles  == FilesOver(Utf8, 0..3, BOOLEAN) \cup FilesOver(Utf16, {0, 1}, BOOLEAN)
=============================================================================
