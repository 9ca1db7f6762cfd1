------------------------------ MODULE Lexemes ------------------------------
(***************************************************************************)
(* From characters to tokens: the table of keywords that ulc_load() fills, *)
(* in the order of the frequencies a .ulf file gives, the trees of         *)
(* keywords of two and more marks, and uls_gettok_raw() cutting one line   *)
(* into numbers, words, keywords and single characters.                    *)
(*                                                                         *)
(* Left out: literals, comments and refilling (RawFiller), tokens of one   *)
(* character that have a name (TokenSpec), and characters of several       *)
(* bytes, one of which stands here for one byte.                           *)
(***************************************************************************)
EXTENDS Values

CONSTANTS
  Inputs,      \* what is loaded and scanned: records [spec, ulfs, lines]
  IdFirst,     \* the characters an identifier starts with
  IdChars,     \* ... and consists of
  Spaces,
  Upper,       \* the upper case of a character
  HashSize,    \* ULF_HASH_TABLE_SIZE
  WMaxLen,     \* ULS_TWOPLUS_WMAXLEN
  ChMax,       \* ULS_UTF8_CH_MAXLEN
  IdMax        \* id_max_uchars

ASSUME LexemesAssumption ==
  /\ HashSize \in Nat \ {0} /\ WMaxLen \in Nat /\ ChMax \in Nat \ {0}
  /\ IdFirst \subseteq IdChars /\ IdChars \cap Spaces = {}

VARIABLES input, stage, stats, nread, weights, buckets, pos, out
tables == <<stats, nread, weights, buckets>>
scanVars == <<input, stage, tables, pos, out>>

spec == input.spec
ulf == input.ulf
line == input.line

(***************************************************************************)
(* The keywords of the specification: spec.words is tokdef_array, each     *)
(* with its token; the first with a token is the base of its group.        *)
(***************************************************************************)
IsIdStr(t) == t[1] \in IdFirst /\ \A k \in DOMAIN t : t[k] \in IdChars
IdWords == SelectSeq(spec.words, LAMBDA e : IsIdStr(e.text))
TwoPlus == {e \in ToSet(spec.words) : ~IsIdStr(e.text)}
TextLens == {Len(e.text) : e \in TwoPlus}

Base(token) == spec.words[SelectInSeq(spec.words, LAMBDA e : e.token = token)]

\* get_idtok_list() chains the keywords, the last one first.
idtok_list == Reverse(IdWords)

(***************************************************************************)
(* strcmp(), and the binary search of both tables.                         *)
(***************************************************************************)
CodeAt(s, k) == IF k \in DOMAIN s THEN CharCode[s[k]] ELSE 0
Differ(s, t) == {k \in 1..Len(s) + 1 : CodeAt(s, k) # CodeAt(t, k)}
Before(s, t) == LET d == Differ(s, t)
                IN d # {} /\ LET k == Min(d) IN CodeAt(s, k) < CodeAt(t, k)

BiSearch(cmp) ==             \* the index found, or 0
  LET search[lo \in 1..Len(cmp) + 1, hi \in 0..Len(cmp)] ==
        LET mid == (lo + hi) \div 2
        IN IF lo > hi THEN 0
           ELSE IF cmp[mid] = 0 THEN mid
           ELSE IF cmp[mid] < 0 THEN search[lo, mid - 1] ELSE search[mid + 1, hi]
  IN search[1, Len(cmp)]

(***************************************************************************)
(* The hash table.  A bucket is its chain, the last keyword added first.   *)
(***************************************************************************)
Folded(t) == IF spec.nocase THEN [k \in DOMAIN t |-> Upper[t[k]]] ELSE t
Hash(t, w) ==
  MapThenSumSet(LAMBDA k : CharCode[Folded(t)[k]] * w[((k - 1) % 3) + 1], DOMAIN t)
    % HashSize

FindIn(b, w, t) ==
  LET chain == b[Hash(t, w)]
      i == SelectInSeq(chain, LAMBDA e : e.text = Folded(t))
  IN IF i = 0 THEN {} ELSE {chain[i]}
uls_find_kw(t) == FindIn(buckets, weights, t)

Added_Unlinked(b, w, e) ==
  IF FindIn(b, w, e.text) # {} THEN b ELSE [b EXCEPT ![Hash(e.text, w)] = <<e>>]
Added(b, w, e) ==
  IF FindIn(b, w, e.text) # {} THEN b ELSE [b EXCEPT ![Hash(e.text, w)] = <<e>> \o @]
AllAdded(w, es) ==
  FoldLeft(LAMBDA b, e : Added(b, w, e), [h \in 0..HashSize - 1 |-> <<>>], es)

ScanInit ==
  /\ \E i \in Inputs : \E u \in i.ulfs, l \in i.lines :
       input = [spec |-> i.spec, ulf |-> u, line |-> l]
  /\ stage = "load" /\ stats = <<>> /\ nread = 0 /\ weights = <<1, 1, 1>>
  /\ buckets = [h \in 0..HashSize - 1 |-> <<>>]
  /\ pos = 1 /\ out = <<>>

(***************************************************************************)
(* The end of ulc_load(), without a .ulf file and with one.                *)
(***************************************************************************)
LoadPlain ==
  /\ stage = "load" /\ ulf.file = "none"
  /\ buckets' = AllAdded(weights, idtok_list) /\ stage' = "scan"
  /\ UNCHANGED <<input, stats, nread, weights, pos, out>>

\* make_keyw_stat_for_load() sorts the keywords and takes the chain apart ...
Untouched == [k \in DOMAIN IdWords |-> [e |-> SetToSortSeq(ToSet(IdWords),
                LAMBDA d, e : Before(d.text, e.text))[k], freq |-> -1]]
UlfOpen ==
  /\ stage = "load" /\ ulf.file = "good"
  /\ stats' = Untouched /\ weights' = ulf.weights /\ stage' = "ulf"
  /\ UNCHANGED <<input, nread, buckets, pos, out>>

\* ... also for a file that is then refused: only its head is left to add.
UlfRefused ==
  /\ stage = "load" /\ ulf.file = "refused"
  /\ stats' = Untouched
  /\ buckets' = AllAdded(weights, SubSeq(idtok_list, 1, 1)) /\ stage' = "scan"
  /\ UNCHANGED <<input, nread, weights, pos, out>>

StatCmp(s, t) == IF Before(s, t) THEN 1 ELSE IF Before(t, s) THEN -1 ELSE 0
UlfLine ==
  /\ stage = "ulf" /\ nread < Len(ulf.lines)
  /\ LET l == ulf.lines[nread + 1]
         i == BiSearch([k \in DOMAIN stats |-> StatCmp(stats[k].e.text, l.text)])
     IN stats' = IF i = 0 THEN stats ELSE [stats EXCEPT ![i].freq = l.freq]
  /\ nread' = nread + 1
  /\ UNCHANGED <<input, stage, weights, buckets, pos, out>>

\* normalize_keyw_stat_list(): the mean for the keywords without a frequency.
Normalized ==
  LET seen == {k \in DOMAIN stats : stats[k].freq > 0}
      avg == IF seen = {} THEN 1
             ELSE MapThenSumSet(LAMBDA k : stats[k].freq, seen)
                    \div Cardinality(seen)
  IN [k \in DOMAIN stats |-> IF stats[k].freq < 0
                             THEN [stats[k] EXCEPT !.freq = avg] ELSE stats[k]]

\* Keywords of the same frequency stay in any order.
ByFreq(s) == {t \in SetToSeqs(ToSet(s)) :
                \A k \in 2..Len(t) : t[k - 1].freq <= t[k].freq}
UlfEnd ==
  /\ stage = "ulf" /\ nread = Len(ulf.lines)
  /\ \E s \in ByFreq(Normalized) :
       buckets' = AllAdded(weights, [k \in DOMAIN s |-> s[k].e])
  /\ stats' = <<>> /\ stage' = "scan"
  /\ UNCHANGED <<input, nread, weights, pos, out>>

(***************************************************************************)
(* uls_gettok_raw().  A token is where it starts, how much of the line it  *)
(* takes, and what it is.                                                  *)
(***************************************************************************)
Start == EndOf(line, pos, {k \in DOMAIN line : line[k] \in Spaces})
Ch == At(line, Start)
\* get_number() reads something: a point alone is no number.
IsNumber ==
  IsDigit(Ch, 10) \/ (Ch = "." /\ IsDigit(At(line, Start + 1), 10))

TokenAt(kind, token, len) == [kind |-> kind, token |-> token, from |-> Start,
                              len |-> len, num |-> NotNumber(Start)]
\* A token may be longer than the rest of the line: what follows is unknown.
Deliver(t) ==
  /\ out' = Append(out, t) /\ pos' = t.from + t.len
  /\ stage' = IF pos' > Len(line) + 1 THEN "overrun"
              ELSE IF t.kind = "err" THEN "done" ELSE "scan"
  /\ UNCHANGED <<input, tables>>

ScanNumber ==
  /\ stage = "scan" /\ IsNumber
  /\ \E n \in {get_number(line, Start, spec)} :
       Deliver([TokenAt("num", "NUMBER", n.pos - Start) EXCEPT !.num = n])

ScanWord ==
  /\ stage = "scan" /\ Ch \in IdFirst
  /\ LET end == EndOf(line, Start, {k \in DOMAIN line : line[k] \in IdChars})
         kw == uls_find_kw(SubSeq(line, Start, end - 1))
         T(kind, token) == TokenAt(kind, token, end - Start)
     IN Deliver(IF kw # {} THEN T("keyw", (CHOOSE e \in kw : TRUE).token)
                ELSE IF end - Start > IdMax THEN T("err", "ERR")
                ELSE T("id", "ID"))

\* is_keyword_twoplus(): the tree to start from, and down to shorter keywords.
Level(run) ==
  IF run >= ChMax * Max(TextLens) THEN WMaxLen ELSE Min({run, WMaxLen})
Sorted(len) == SetToSortSeq({e \in TwoPlus : Len(e.text) = len},
                            LAMBDA d, e : Before(d.text, e.text))
MarkCmp(t) ==        \* the line against a keyword, as far as the keyword goes
  LET d == {k \in DOMAIN t : CodeAt(line, Start + k - 1) # CharCode[t[k]]}
  IN IF d = {} THEN 0 ELSE CodeAt(line, Start + Min(d) - 1) - CharCode[t[Min(d)]]
InTree(len) == LET s == Sorted(len)
                   i == BiSearch([k \in DOMAIN s |-> MarkCmp(s[k].text)])
               IN IF i = 0 THEN {} ELSE {s[i]}
is_keyword_twoplus ==
  LET run == EndOf(line, Start, {k \in DOMAIN line : line[k] \notin Spaces}) - Start
      hits == {l \in TextLens : l <= Level(run) /\ InTree(l) # {}}
  IN IF hits = {} THEN {} ELSE InTree(Max(hits))

AtMark == Start <= Len(line) /\ ~IsNumber /\ Ch \notin IdFirst
StartsMark == \E e \in TwoPlus : e.text[1] = Ch

\* The token is as long as the keyword its group is based on.
ScanTwoPlus ==
  /\ stage = "scan" /\ AtMark /\ StartsMark
  /\ \E e \in is_keyword_twoplus :
       Deliver(TokenAt("mark", e.token, Len(Base(e.token).text)))

ScanChar ==
  /\ stage = "scan" /\ AtMark /\ (StartsMark => is_keyword_twoplus = {})
  /\ Deliver(TokenAt("char", Ch, 1))

ScanEnd ==
  /\ stage = "scan" /\ Start = Len(line) + 1
  /\ stage' = "done" /\ pos' = Start
  /\ UNCHANGED <<input, tables, out>>

ScanNext ==
  \/ LoadPlain \/ UlfOpen \/ UlfRefused \/ UlfLine \/ UlfEnd
  \/ ScanNumber \/ ScanWord \/ ScanTwoPlus \/ ScanChar \/ ScanEnd

ScanSpec == ScanInit /\ [][ScanNext]_scanVars

Text(t) == SubSeq(line, t.from, t.from + t.len - 1)

(***************************************************************************)
(* A word is reported as a keyword exactly if the specification lists it,  *)
(* with the token listed for it, whatever hash values the .ulf file asks   *)
(* for and in whatever order its frequencies enter the keywords.  With a   *)
(* .ulf file that is refused only the last keyword is left: the chain of   *)
(* the others was taken apart before the file was read.                    *)
(***************************************************************************)
KnownWords == IF ulf.file = "refused"
              THEN ToSet(SubSeq(idtok_list, 1, 1)) ELSE ToSet(IdWords)
WordsFound ==
  \A k \in DOMAIN out :
    LET t == out[k]
        known == {e \in KnownWords : e.text = Folded(Text(t))}
    IN /\ t.kind \in {"id", "err"} => known = {}
       /\ t.kind = "keyw" => \E e \in known : e.token = t.token

(***************************************************************************)
(* Where a keyword of marks stands the longest one is taken, with its      *)
(* token, and a single character only where none stands.  The token takes  *)
(* as much of the line as that keyword, unless its group is based on a     *)
(* keyword of another length.                                              *)
(***************************************************************************)
MarksAt(i) == {e \in TwoPlus : IsPrefix(e.text, SubSeq(line, i, Len(line)))}
LongestMark ==
  \A k \in DOMAIN out :
    LET t == out[k]
        at == MarksAt(t.from)
    IN /\ t.kind = "char" => at = {}
       /\ t.kind = "mark" =>
            \E e \in at :
              /\ \A d \in at : Len(d.text) <= Len(e.text)
              /\ t.token = e.token
              /\ t.len = Len(e.text) \/ Len(Base(e.token).text) # Len(e.text)

(* What is looked up is found: the words and the marks (uls_core.c:904-1025*)
(* with idkeyw.c, twoplus.c and onechar.c).                                *)
KeywordsFound == WordsFound /\ LongestMark

(***************************************************************************)
(* The text of a NUMBER is a numeral, the number reported is what it is    *)
(* worth, and no longer numeral stands there.  The one habit: a separator  *)
(* behind a run of zeros belongs to the number though no digit follows,    *)
(* and cuts it off from digits that a prefix hides.                        *)
(***************************************************************************)
Sep == spec.sep
Dangles(t, k) ==
  /\ t[k] = Sep /\ (k = Len(t) \/ ~IsDigit(t[k + 1], 10))
  /\ \E b \in 1..k : /\ b = 1 \/ t[b - 1] = "."
                     /\ \A l \in b..k - 1 : t[l] \in {Zero, Sep}
Undangled(t) ==
  LET keep == {k \in DOMAIN t : ~Dangles(t, k)}
  IN SelectSeq([k \in DOMAIN t |-> IF k \in keep THEN t[k] ELSE NUL],
               LAMBDA c : c # NUL)

RestOf(t) == SubSeq(line, t.from, Len(line))

ZerosAndPoint(r) == \E n \in 2..Len(r) :
                      r[n] = "." /\ \A k \in 1..n - 1 : r[k] = Zero
PrefixOf(r) == IF ZerosAndPoint(r) THEN 0 ELSE PrefixAt(r, 1, spec.prefixes)

NumeralExact(t) ==
  LET read == SubSeq(line, t.from, t.num.numeral - 1)
      text == Undangled(read)
      value == Number(t.num.digits, t.num.expo, t.num.radix)
      p == PrefixOf(RestOf(t))
      Radix(r) == p # 0 /\ IsRadix(r, spec.prefixes[p], Sep)
      Decimal(r) == IsDecimal(r, Sep)
  IN IF \E r \in Prefixes(RestOf(t)) : Radix(r)
     THEN /\ Radix(text) /\ value = RadixValue(text, spec.prefixes[p], Sep)
          /\ \A r \in Prefixes(RestOf(t)) : Radix(r) => Len(r) <= Len(read)
     ELSE /\ Decimal(text) /\ value = DecimalValue(text, Sep)
          /\ p = 0 /\ read = text =>
               \A r \in Prefixes(RestOf(t)) : Decimal(r) => Len(r) <= Len(read)
NumeralsExact == \A k \in DOMAIN out : out[k].kind = "num" => NumeralExact(out[k])

(***************************************************************************)
(* What a caller is given for a NUMBER is the number: as int, modulo the   *)
(* width, negative behind a minus; as double; and as the text for another  *)
(* language, which is empty for zero, decimal integers and magnitudes that *)
(* need many zeros.  Two habits: a double of two and more decimal digits   *)
(* without a point is read in base 16, and the prefixes of the radices 2,  *)
(* 3, 4 and 8 are unknown to the conversions to int and double.            *)
(***************************************************************************)
Worth(n) == Number(n.digits, n.expo, n.radix)
GexprValue(g) ==
  IF HasPrefix(g)
  THEN RadixValue(g, [text |-> <<"0", "x">>, radix |-> 16], NUL)
  ELSE DecimalValue(g, NUL)
SameInt(g, d, radix) == Value(Vals(SubSeq(g, 3, Len(g))), 16) = Value(Vals(d), radix)

IntsMeant(n, w, got) ==
  LET v == IF n.form = "point" THEN Whole(n) ELSE Value(Vals(n.digits), n.radix)
      fits == n.form # "point" \/ (n.expo < w /\ v < 2^w)
  IN /\ fits => got = {v % 2^w}
     /\ fits /\ v < 2^(w - 1) => /\ uls_lexeme_int(got, w, FALSE) = {v}
                         /\ uls_lexeme_int(got, w, TRUE) = {-v}
DoubleMeant(n) ==
  LET d == unsigned_double(Lexeme(n))
  IN IF n.form = "point" THEN d = [real |-> Worth(n)]
     ELSE n.radix = 16 \/ Len(n.digits) < 2
            => d = [int |-> Value(Vals(n.digits), n.radix)]
GexprMeant(n) ==
  LET g == uls_number_gexpr(n)
  IN IF g = <<>>
     THEN \/ n.radix = 10 /\ n.form # "point"
          \/ n.expo \notin -5..6
     ELSE IF n.form = "int" THEN SameInt(g, n.digits, n.radix)
          ELSE GexprValue(g) = Worth(n)
ValueMeant(n) ==
  /\ n.radix \in {10, 16} =>
       /\ DoubleMeant(n)
       /\ IntsMeant(n, Bits32, lexeme_uint32(Lexeme(n)))
       /\ IntsMeant(n, Bits64, lexeme_uint64(Lexeme(n)))
  /\ GexprMeant(n)
ValuesMeant == out # <<>> /\ Last(out).kind = "num" => ValueMeant(Last(out).num)

(* A numeral ends where it should, and is worth what it says in each of    *)
(* the types it can be converted to.                                       *)
NumeralsMeant == NumeralsExact /\ ValuesMeant
=============================================================================
