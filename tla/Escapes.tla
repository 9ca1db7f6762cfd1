------------------------------ MODULE Escapes -------------------------------
(* The escapes of quoted texts (litesc.c, litstr.c): a QUOTE_TYPE: line    *)
(* chooses a category of escapes, adds to them and maps single characters; *)
(* the analyser of a literal goes over the text after the start mark in    *)
(* three procedures, and after each of them the filler refills the buffer  *)
(* to as many bytes as the next one asks for.  A character is one byte.    *)
EXTENDS Integers, Sequences, FiniteSets, SequencesExt

CONSTANTS
  Specs,          \* sequences of QUOTE_TYPE: lines
  TextsOf(_),     \* what follows the start mark of a literal of a line
  EscChars,       \* characters that can be mapped: graphic ASCII and LF
  Digit,          \* the value of a hexadecimal digit
  Uppers,         \* the digits that are upper-case letters
  LF, CR,
  CharMax,        \* ULS_UTF8_CH_MAXLEN
  NHex, NOct, NUni, \* the digits of \x, of \0 after the first, of \u and \U
  MaxCode         \* the largest code uls_encode_utf8() takes (0x1FFFFF)

ASSUME CharMaxAssumption == CharMax \in Nat \ {0}

VARIABLES
  spec,           \* the lines
  maps,           \* uls_escmap_t: the three of the library, then the copies
  qmts,           \* the quote types declared: map and flags
  lit,            \* the literal: its quote type, its text
  pos, buffered,  \* bytes of the text taken, and bytes of it in the buffer
  pc,
  need,           \* n_bytes_req
  esc,            \* the numeral begun: how it is read, and its value so far
  value, lfs      \* what the analyser put, and the line feeds it counted
vars == <<spec, maps, qmts, lit, pos, buffered, pc, need, esc, value, lfs>>
reading == <<lit, pos, buffered, need, esc, value, lfs>>

Str(s) == [str |-> s]
Num(base, n, fixed, cases) == [base |-> base, n |-> n, fixed |-> fixed, cases |-> cases]
Unmapped == [none |-> TRUE]
IsNum(e) == "base" \in DOMAIN e
NoNum == Num("hex", 0, FALSE, "uniform")

Octals == {c \in DOMAIN Digit : Digit[c] < 8}
Decimals == {c \in DOMAIN Digit : Digit[c] < 10}

(***************************************************************************)
(* initialize_uls_litesc(): the maps that quote types share, of the two    *)
(* empty ones one.                                                         *)
(***************************************************************************)
LegacyMap ==
  [c \in EscChars |->
     IF c = "n" THEN Str(<<LF>>)
     ELSE IF c = "x" THEN Num("hex", NHex, FALSE, "uniform")
     ELSE IF c \in Octals THEN Num("oct", NOct, FALSE, "uniform")
     ELSE Unmapped]
ModernMap ==
  [c \in EscChars |->
     IF c = "n" THEN Str(<<LF>>)
     ELSE IF c = "u" THEN Num("uni", NUni[c], TRUE, "uniform")
     ELSE Unmapped]
NoMap == [c \in EscChars |-> Unmapped]
Shared == <<LegacyMap, ModernMap, NoMap>>

(* __parse_escmap_optgrp(): a group of single characters ends the list,    *)
(* whatever follows; one it does not know refuses the line.                *)
IsGroup(a) == a \notin {"eos", "esc", "etc", "eol", "u4", "u04", "U8", "U08", "hex", "oct"}
Heard(adders) ==
  LET groups == {k \in DOMAIN adders : IsGroup(adders[k])}
  IN IF groups = {} THEN adders
     ELSE SubSeq(adders, 1, CHOOSE k \in groups : \A j \in groups : k <= j)
Known == {"?"}                         \* of r ' " and ?, which are alike
Opposite == [u4 |-> "u04", u04 |-> "u4", U8 |-> "U08", U08 |-> "U8"]
WithAdder(flags, a) ==
  (IF a \in DOMAIN Opposite THEN flags \ {Opposite[a]} ELSE flags) \cup {a}
AdderFlags(adders) == FoldLeft(WithAdder, {}, Heard(adders))

(* uls_parse_escmap_feature(): a shared map, the flags, and whether the    *)
(* line needs a map of its own.  verbatim1 and a line without a category   *)
(* take no list; a line without category or mapping has no flags.          *)
Feature(line) ==
  [map   |-> CASE line.cat = "modern" -> 2
               [] line.cat \in {"verbatim", "verbatim1"} -> 3
               [] OTHER -> 1,
   flags |-> (IF line.cat = "verbatim" \/ (line.cat = "" /\ line.maps = <<>>)
                THEN {} ELSE {"eos", "esc"}) \cup AdderFlags(line.adders),
   copied |-> line.adders # <<>>,
   bad   |-> \/ line.cat \in {"", "verbatim1"} /\ line.adders # <<>>
             \/ \E k \in DOMAIN Heard(line.adders) :
                  IsGroup(line.adders[k]) /\ line.adders[k] \notin Known]

SetEscmap(map, flags) ==               \* __uls_set_escmap()
  [c \in EscChars |->
     CASE c \in flags \cap Known -> Str(<<c>>)
       [] "oct" \in flags /\ c \in Octals -> Num("oct", NOct, FALSE, "uniform")
       [] "hex" \in flags /\ c = "x" -> Num("hex", NHex, FALSE, "uniform")
       [] c = "u" /\ {"u4", "u04"} \cap flags # {} ->
            Num("uni", NUni[c], "u04" \in flags, "uniform")
       [] c = "U" /\ {"U8", "U08"} \cap flags # {} ->
            Num("uni", NUni[c], "U08" \in flags, "uniform")
       [] "eol" \in flags /\ c = LF -> Str(<<>>)
       [] OTHER -> map[c]]

(* uls_parse_escmap_mapping(): one expression of the rest of the line.     *)
(* "~u04" is parsed and then deletes the mapping of the character '\0'.    *)
Mapping(m, item) ==
  CASE ~m.ok -> m
    [] item.op = "add" /\ item.c \in EscChars -> [m EXCEPT !.map[item.c] = item.as]
    [] item.op = "add" /\ item.c \notin EscChars -> [m EXCEPT !.ok = FALSE]
    [] item.op = "del" ->
         [m EXCEPT !.map = [c \in EscChars |-> IF c = item.c THEN Unmapped ELSE @[c]]]
    [] item.op = "~hex" ->
         [m EXCEPT !.map = [c \in EscChars |-> IF c = "x" THEN Unmapped ELSE @[c]]]
    [] item.op = "~oct" ->
         [m EXCEPT !.map = [c \in EscChars |-> IF c \in Octals THEN Unmapped ELSE @[c]]]
    [] item.op = "~u04" -> m

(* uls_parse_escmap(): a list or a mapping is made on a copy of the map.   *)
Own_ListOnly(f, line) == f.copied      \* mutant: mappings go to the shared map
Own(f, line) == f.copied \/ line.maps # <<>>

Declare ==
  /\ pc = "spec" /\ Len(qmts) < Len(spec)
  /\ LET line == spec[Len(qmts) + 1]
         f    == Feature(line)
         base == IF Own(f, line) THEN SetEscmap(maps[f.map], f.flags) ELSE maps[f.map]
         m    == FoldLeft(Mapping, [ok |-> TRUE, map |-> base], line.maps)
     IN IF f.bad \/ ~m.ok
        THEN pc' = "refused" /\ UNCHANGED <<maps, qmts>>
        ELSE /\ maps' = IF Own(f, line) THEN Append(maps, m.map)
                        ELSE [maps EXCEPT ![f.map] = m.map]
             /\ qmts' = Append(qmts, [map |-> IF Own(f, line) THEN Len(maps) + 1 ELSE f.map,
                                      flags |-> f.flags])
             /\ UNCHANGED pc
  /\ UNCHANGED <<spec, reading>>

(***************************************************************************)
(* input_quote_proc(): a literal of one of the quote types, any part of it *)
(* in the buffer.                                                          *)
(***************************************************************************)
Line == spec[lit.q]
Qmt == qmts[lit.q]
Larger(m, n) == IF m > n THEN m ELSE n
Left == Len(lit.text) - pos            \* of the source
Here == buffered - pos                 \* in the buffer
Next1 == lit.text[pos + 1]
EndLen == Len(Line.end)
AtEnd == SubSeq(lit.text, pos + 1, pos + EndLen) = Line.end

StartLiteral ==
  /\ pc = "spec" /\ Len(qmts) = Len(spec)
  /\ need' = Larger(EndLen, CharMax)
  /\ buffered' \in 0..Len(lit.text)
  /\ pc' = "escape0"
  /\ UNCHANGED <<spec, maps, qmts, lit, pos, esc, value, lfs>>

InLiteral == pc \in {"escape0", "escape1", "escape2"}
MustRefill == Here < need /\ Here < Left
Ready == ~MustRefill /\ Here >= EndLen

Refill ==
  /\ InLiteral /\ MustRefill
  /\ \E n \in (Here + 1)..Left : (n >= need \/ n = Left) /\ buffered' = pos + n
  /\ UNCHANGED <<spec, maps, qmts, lit, pos, pc, need, esc, value, lfs>>

Goes(to, taken, asks, puts, lines) ==
  /\ pc' = to /\ pos' = pos + taken /\ need' = Larger(asks, CharMax)
  /\ value' = value \o puts /\ lfs' = lfs + lines
  /\ UNCHANGED <<spec, maps, qmts, lit, buffered>>
Chars(s) == [k \in DOMAIN s |-> [ch |-> s[k]]]
Fails ==
  /\ pc' = "error"
  /\ UNCHANGED <<spec, maps, qmts, reading>>

Unterminated ==
  /\ InLiteral /\ ~MustRefill /\ Here < EndLen
  /\ Fails

(* dfl_lit_analyzer_escape0(): one round of its loop.                      *)
EndOfQuote ==
  /\ pc = "escape0" /\ Ready /\ AtEnd
  /\ Goes("ended", EndLen, 0, <<>>, 0) /\ UNCHANGED esc

EscapeSymbol ==
  /\ pc = "escape0" /\ Ready /\ ~AtEnd /\ Next1 = Line.esc
  /\ Goes("escape1", 1, CharMax, <<>>, 0) /\ UNCHANGED esc

LineEnds ==
  /\ pc = "escape0" /\ Ready /\ ~AtEnd /\ Next1 = LF /\ ~Line.multiline
  /\ Fails

PlainChar ==
  /\ pc = "escape0" /\ Ready /\ ~AtEnd /\ Next1 # Line.esc
  /\ Next1 = LF => Line.multiline
  /\ pc' = pc /\ pos' = pos + 1
  /\ need' = IF Here - 1 < EndLen THEN Larger(EndLen, CharMax) ELSE 0
  /\ value' = value \o Chars(<<Next1>>)
  /\ lfs' = IF Next1 = LF THEN lfs + 1 ELSE lfs
  /\ UNCHANGED <<spec, maps, qmts, lit, buffered, esc>>

(* dfl_lit_analyzer_escape1(): the character after the escape symbol; of a *)
(* line end of two characters both.                                        *)
TwoAt(a, b) == Here >= 2 /\ Next1 = a /\ lit.text[pos + 2] = b
Escaped1 == IF TwoAt(CR, LF) THEN LF ELSE Next1
Escaped1Len == IF TwoAt(CR, LF) \/ TwoAt(LF, CR) THEN 2 ELSE 1
Escaped1Lfs == IF Escaped1 = LF THEN 1 ELSE 0
Entry == IF Escaped1 \in EscChars THEN maps[Qmt.map][Escaped1] ELSE Unmapped
IsEos == "eos" \in Qmt.flags /\ <<Escaped1>> = Line.end
IsEsc == "esc" \in Qmt.flags /\ Escaped1 = Line.esc

Escape1Plain ==
  /\ pc = "escape1" /\ Ready
  /\ IsEos \/ IsEsc \/ ~IsNum(Entry)
  /\ LET c == Escaped1
         puts == CASE IsEos \/ IsEsc -> <<c>>
                   [] ~(IsEos \/ IsEsc) /\ Entry = Unmapped ->
                        IF "etc" \in Qmt.flags THEN <<c>> ELSE <<Line.esc, c>>
                   [] OTHER -> Entry.str
     IN Goes("escape0", Escaped1Len, EndLen, Chars(puts), Escaped1Lfs)
  /\ UNCHANGED esc

Escape1Numeral ==
  /\ pc = "escape1" /\ Ready
  /\ ~IsEos /\ ~IsEsc /\ IsNum(Entry)
  /\ Goes("escape2", Escaped1Len, Entry.n, <<>>, Escaped1Lfs)
  /\ esc' = [how |-> Entry, wch |-> IF Escaped1 \in Decimals THEN Digit[Escaped1] ELSE 0]

(* dfl_lit_analyzer_escape2(), __dec_escaped_char_cont(): the digits that  *)
(* follow, of one case unless the entry says which.                        *)
Letters(cs) == {c \in cs : c \notin Decimals}
Reads(e, cs) ==                        \* digits cs are read as one numeral
  IF e.base = "oct" THEN cs \subseteq Octals
  ELSE /\ cs \subseteq DOMAIN Digit
       /\ CASE e.cases = "both"  -> TRUE
            [] e.cases = "upper" -> Letters(cs) \subseteq Uppers
            [] e.cases = "lower" -> Letters(cs) \cap Uppers = {}
            [] e.cases = "uniform" ->
                 Letters(cs) \subseteq Uppers \/ Letters(cs) \cap Uppers = {}
Room == IF Here < esc.how.n THEN Here ELSE esc.how.n
DigitsRead ==                          \* stops at the first it cannot read
  CHOOSE n \in 0..Room :
    /\ Reads(esc.how, Range(SubSeq(lit.text, pos + 1, pos + n)))
    /\ n < Room => ~Reads(esc.how, Range(SubSeq(lit.text, pos + 1, pos + n + 1)))
Shift(e) == IF e.base = "oct" THEN 8 ELSE 16
Added(e) == e.base # "oct" /\ e.cases = "both"  \* skip_atox() is added to the first digit
Wch ==
  LET read(first) == FoldLeft(LAMBDA w, c : w * Shift(esc.how) + Digit[c], first,
                              SubSeq(lit.text, pos + 1, pos + DigitsRead))
  IN IF Added(esc.how) THEN esc.wch + read(0) ELSE read(esc.wch)
NumeralBad ==
  \/ esc.how.fixed /\ DigitsRead # esc.how.n
  \/ esc.how.base = "uni" /\ Wch > MaxCode

Escape2 ==
  /\ pc = "escape2" /\ Ready /\ ~NumeralBad
  /\ Goes("escape0", DigitsRead, EndLen,
          <<IF esc.how.base = "uni" THEN [code |-> Wch] ELSE [byte |-> Wch % 256]>>, 0)
  /\ UNCHANGED esc

Escape2Fails == pc = "escape2" /\ Ready /\ NumeralBad /\ Fails

Init ==
  /\ spec \in Specs /\ maps = Shared /\ qmts = <<>>
  /\ \E q \in DOMAIN spec : \E text \in TextsOf(spec[q]) :
       lit = [q |-> q, text |-> text]
  /\ pos = 0 /\ buffered = 0
  /\ pc = "spec" /\ need = 0
  /\ esc = [how |-> NoNum, wch |-> 0] /\ value = <<>> /\ lfs = 0

Read ==
  \/ Refill \/ Unterminated \/ EndOfQuote \/ EscapeSymbol \/ LineEnds
  \/ PlainChar \/ Escape1Plain \/ Escape1Numeral \/ Escape2 \/ Escape2Fails
Next == Declare \/ StartLiteral \/ Read

Spec == Init /\ [][Next]_vars

(***************************************************************************)
(* What a literal means, said of the whole text and of the line that       *)
(* declares it: no buffer, no map, no other line.                          *)
(***************************************************************************)
(* The last word of a line on a character is what it is mapped to; what a  *)
(* list of adders says behind a group of characters is not heard.          *)
AdderSays(a, c) ==
  CASE a = "?" /\ c = "?" -> <<Str(<<c>>)>>
    [] a = "oct" /\ c \in Octals -> <<Num("oct", NOct, FALSE, "uniform")>>
    [] a = "hex" /\ c = "x" -> <<Num("hex", NHex, FALSE, "uniform")>>
    [] a \in {"u4", "u04"} /\ c = "u" -> <<Num("uni", NUni[c], a = "u04", "uniform")>>
    [] a \in {"U8", "U08"} /\ c = "U" -> <<Num("uni", NUni[c], a = "U08", "uniform")>>
    [] a = "eol" /\ c = LF -> <<Str(<<>>)>>
    [] OTHER -> <<>>
MappingSays(item, c) ==
  CASE item.op = "add" /\ item.c = c -> <<item.as>>
    [] \/ item.op = "del" /\ item.c = c
       \/ item.op = "~hex" /\ c = "x"
       \/ item.op = "~oct" /\ c \in Octals -> <<Unmapped>>
    [] OTHER -> <<>>
Says(line, c) ==
  Last(<<Shared[Feature(line).map][c]>>
       \o FlattenSeq([k \in DOMAIN Heard(line.adders) |-> AdderSays(line.adders[k], c)])
       \o FlattenSeq([k \in DOMAIN line.maps |-> MappingSays(line.maps[k], c)]))

LongestNumeral(e, s) ==
  LET fits == {n \in 0..e.n : n <= Len(s) /\ Reads(e, Range(SubSeq(s, 1, n)))}
  IN CHOOSE n \in fits : \A m \in fits : m <= n
NumeralValue(first, s, radix) ==
  LET digit(k) == IF k = 0 THEN first ELSE Digit[s[k]]
  IN FoldLeft(LAMBDA sum, k : sum + digit(k) * radix ^ (Len(s) - k), 0,
              [k \in 1..(Len(s) + 1) |-> k - 1])

Meaning(line, text) ==
  LET bad == [ok |-> FALSE, value |-> <<>>, at |-> 0, lfs |-> 0]
      flags == Feature(line).flags
      rest(p) == SubSeq(text, p + 1, Len(text))
      with(m, puts, lines) ==
        IF m.ok THEN [m EXCEPT !.value = puts \o @, !.lfs = @ + lines] ELSE bad
      from[p \in 0..Len(text)] ==
        IF IsPrefix(line.end, rest(p))
        THEN [ok |-> TRUE, value |-> <<>>, at |-> p + Len(line.end), lfs |-> 0]
        ELSE IF p = Len(text) \/ (text[p + 1] = LF /\ LF # line.esc /\ ~line.multiline)
        THEN bad
        ELSE IF text[p + 1] # line.esc
        THEN with(from[p + 1], Chars(<<text[p + 1]>>), IF text[p + 1] = LF THEN 1 ELSE 0)
        ELSE IF p + 1 = Len(text) THEN bad
        ELSE LET starts(pair) == IsPrefix(pair, rest(p + 1))
                 c == IF starts(<<CR, LF>>) THEN LF ELSE text[p + 2]
                 q == p + 1 + (IF starts(<<CR, LF>>) \/ starts(<<LF, CR>>) THEN 2 ELSE 1)
                 lines == IF c = LF THEN 1 ELSE 0
                 e == IF c \in EscChars THEN Says(line, c) ELSE Unmapped
             IN IF ("eos" \in flags /\ <<c>> = line.end) \/ ("esc" \in flags /\ c = line.esc)
                THEN with(from[q], Chars(<<c>>), lines)
                ELSE IF e = Unmapped
                THEN with(from[q],
                          Chars(IF "etc" \in flags THEN <<c>> ELSE <<line.esc, c>>), lines)
                ELSE IF ~IsNum(e)
                THEN with(from[q], Chars(e.str), lines)
                ELSE LET n == LongestNumeral(e, rest(q))
                         first == IF c \in Decimals THEN Digit[c] ELSE 0
                         digits == SubSeq(rest(q), 1, n)
                         v == IF e.base # "oct" /\ e.cases = "both"
                              THEN first + NumeralValue(0, digits, Shift(e))
                              ELSE NumeralValue(first, digits, Shift(e))
                     IN IF (e.fixed /\ n < e.n) \/ (e.base = "uni" /\ v > MaxCode)
                        THEN bad
                        ELSE with(from[q + n],
                                  <<IF e.base = "uni" THEN [code |-> v]
                                    ELSE [byte |-> v % 256]>>, lines)
  IN from[0]

(* A literal is worth what its own line and its text say, whatever other   *)
(* lines did with the maps they share and wherever the buffer ended in the *)
(* middle of an escape, a line end or an end mark; the scan goes on right  *)
(* behind the end mark with the line feeds counted, and only a text that   *)
(* means nothing is an error, if the end mark is no longer than a          *)
(* character can be.  A digit mapped to a numeral is its first digit, but  *)
(* for one that is read in both cases, to whose value it is added          *)
(* (litstr.c:430-790, uls_input.c:155-213).               *)
LiteralsMeant ==
  LET m == Meaning(Line, lit.text)
  IN /\ pc = "ended" => m = [ok |-> TRUE, value |-> value, at |-> pos, lfs |-> lfs]
     /\ pc = "error" /\ EndLen <= CharMax => ~m.ok
=============================================================================
