----------------------------- MODULE SpecHeader -----------------------------
(***************************************************************************)
(* The attributes of a specification (uls_conf.c): the header lines of the *)
(* files it is made of, the eldest's first, each carried out by            *)
(* uls_cmd_run() on what the lines before it left; the checks when all the *)
(* lines of tokens have been read; and what a keyword is taken for.  Then  *)
(* what uls_dump_tokdef__yaml() (uls_dump.c) prints of the attributes: the *)
(* literals, the numbers and the ranges of identifier characters.          *)
(*                                                                         *)
(* A character is a byte, but for the ones whose codes are not in the      *)
(* syntax table.  A word of a line is a sequence of characters, without    *)
(* the backslashes of its escapes.                                         *)
(***************************************************************************)
EXTENDS Integers, Sequences, FiniteSets, SequencesExt, FiniteSetsExt, Functions

CONSTANTS
  Headers,        \* sequences of header lines
  Keywords,       \* what a line of a token may have as keyword
  Code,           \* the code of each character
  TableSize,      \* ULS_SYNTAX_TABLE_SIZE
  Alphas, Digits, Controls, \* some of the ASCII characters; the rest is punctuation
  Upper,          \* the upper-case letter of each lower-case one
  UtfIds,         \* is_utf_id(): identifier characters no range has to name
  NL, Tab, Blank, Minus, Period, Underline, Zero,
  MarkMax,        \* ULS_COMM_MARK_MAXSIZ, ULS_QUOTE_MARK_MAXSIZ
  Utf8Max,        \* ULS_UTF8_CH_MAXLEN
  CommentsMax, QuotesMax,       \* ULS_N_MAX_COMMTYPES, ULS_N_MAX_QUOTETYPES
  PrefixesMax, PrefixMax,       \* ULS_N_MAX_NUMBER_PREFIXES, ULS_MAXLEN_NUMBER_PREFIX
  SuffixMax, PoolMax,           \* ULS_CNST_SUFFIX_MAXSIZ, ULS_CNST_SUFFIXES_MAXSIZ
  WordMax,        \* ULS_TWOPLUS_WMAXLEN
  ReservedIds, ReservedNames \* the numbers and the names of the reserved tokens

ASSUME SpecHeaderAssumption ==
  /\ Alphas \cap Digits = {} /\ Controls \cap (Alphas \cup Digits) = {}
  /\ {NL, Tab, Blank} \subseteq Controls
  /\ Utf8Max <= MarkMax

VARIABLES
  hstage,         \* "reading", "words", "ready", "refused", "crashed"
  hlines,         \* the header
  hread,          \* how many of its lines have been read
  hdr,            \* what they set
  keyword         \* that of the line of a token, and what it is taken for
headerVars == <<hstage, hlines, hread, hdr, keyword>>

AsciiChars == {c \in DOMAIN Code : Code[c] < TableSize}
Graphs == AsciiChars \ Controls

NoHeader ==                            \* __uls_init_fp()
  [nocase |-> FALSE, separator |-> {}, idmax |-> <<>>,
   idfirst |-> {}, ids |-> {}, wideFirst |-> {}, wideIds |-> {},
   notChars |-> {}, multibytes |-> FALSE,
   prefixes |-> <<>>, suffixes |-> <<>>, prepend |-> <<>>,
   comments |-> <<>>, quotes |-> <<>>, names |-> {}]

(***************************************************************************)
(* One operator for each attribute: the headers a line may leave, none if  *)
(* it is refused.                                                          *)
(***************************************************************************)
CaseSensitive(h, l) ==
  {[h EXCEPT !.nocase = (l.value = "false")] : x \in {l.value} \cap {"true", "false"}}

DecimalSeparator(h, l) ==              \* a blank value sets it back
  IF l.value \subseteq Graphs \ (Alphas \cup Digits \cup {Minus, Period})
  THEN {[h EXCEPT !.separator = l.value]} ELSE {}

IdMaxLength(h, l) ==                   \* bytes, and characters if they are given
  IF l.value = <<>> \/ l.value[1] <= 0 THEN {}
  ELSE {[h EXCEPT !.idmax =
           <<l.value[1], IF Len(l.value) > 1 /\ l.value[2] > 0 THEN l.value[2] ELSE l.value[1]>>]}

(* parse_id_ranges(): what is in the table is added to it, what is not     *)
(* replaces the ranges of the line before.                                 *)
RangeOf(r) == {c \in DOMAIN Code : r[1] <= Code[c] /\ Code[c] <= r[2]}
RangesOf(l) == UNION {RangeOf(r) : r \in ToSet(l.ranges)}
RangeBad(l) == \E r \in ToSet(l.ranges) : r[2] < r[1]

IdFirstChars(h, l) ==
  LET inTable == RangesOf(l) \cap AsciiChars
  IN IF RangeBad(l) \/ inTable \cap (Digits \cup Controls) # {} THEN {}
     ELSE {[h EXCEPT !.idfirst = @ \cup inTable, !.wideFirst = RangesOf(l) \ AsciiChars]}
IdChars(h, l) ==
  LET inTable == RangesOf(l) \cap AsciiChars
  IN IF RangeBad(l) \/ ~(inTable \subseteq Alphas \cup Digits \cup {Underline, Minus}) THEN {}
     ELSE {[h EXCEPT !.ids = @ \cup inTable, !.wideIds = RangesOf(l) \ AsciiChars]}

NotCharTok(h, l) ==
  {[h EXCEPT !.notChars = UNION {ToSet(w) : w \in ToSet(l.words)}
                            \cap (Graphs \ (Alphas \cup Digits)),
             !.multibytes = IF l.multibytes = "" THEN @ ELSE l.multibytes = "false"]}

(* numpfx_by_length_dsc(), cnst_suffixes_by_len(): longest first; the sort *)
(* leaves words of one length in any order.                                *)
LongestFirst(s, len(_)) ==
  {t \in {[k \in DOMAIN s |-> s[p[k]]] : p \in SetToSeqs(DOMAIN s)} :
     \A k \in DOMAIN t : k > 1 => len(t[k - 1]) >= len(t[k])}

NumberPrefixes(h, l) ==
  IF \/ Len(l.words) > PrefixesMax
     \/ \E w \in ToSet(l.words) :
          \/ w.prefix = <<>> \/ w.prefix[1] # Zero \/ Len(w.prefix) > PrefixMax
          \/ w.radix \notin {2, 3, 4, 8, 16}
  THEN {}
  ELSE {[h EXCEPT !.prefixes = t] : t \in LongestFirst(l.words, LAMBDA w : Len(w.prefix))}

(* check_validity_of_cnst_suffix(): the word of a bad character is         *)
(* destroyed, once for each of them.  add_cnst_suffix() drops a word that  *)
(* is too long, that is there, or for which the pool has no room.          *)
BadsIn(w) == Cardinality({k \in DOMAIN w : w[k] \notin Graphs \ Digits})
PoolSize(pool) == FoldLeft(LAMBDA n, w : n + Len(w) + 1, 0, pool)
AddSuffix(pool, w) ==
  IF Len(w) > SuffixMax \/ w \in ToSet(pool) \/ PoolMax - PoolSize(pool) < Len(w) + 1
  THEN pool ELSE Append(pool, w)
SuffixesDestroyTwice(l) == \E w \in ToSet(l.words) : BadsIn(w) > 1

SuffixPool_Unsorted(ws) == {FoldLeft(AddSuffix, <<>>, ws)}   \* mutant: in the order of the line
SuffixPool(ws) == {FoldLeft(AddSuffix, <<>>, t) : t \in LongestFirst(ws, Len)}
NumberSuffixes(h, l) ==
  {[h EXCEPT !.suffixes = t] :
     t \in SuffixPool(SelectSeq(l.words, LAMBDA w : BadsIn(w) = 0))}

(* PREPEND_INPUT: a text in double quotes is decoded into a buffer that is *)
(* as long as the line; before each character and before the end mark room *)
(* for the longest character is wanted.  "saved" is by how much the line   *)
(* is longer than the text and its quotes.                                 *)
PrependInput(h, l) ==
  IF \/ l.quote = "none" \/ ~l.closed \/ l.text = <<>>
     \/ l.quote = "double" /\ Utf8Max > l.saved + 3
  THEN {} ELSE {[h EXCEPT !.prepend = l.text]}

(***************************************************************************)
(* The marks of comments and of literal strings.                           *)
(***************************************************************************)
MarkFits(m) == m # <<>> /\ Len(m) + Utf8Max <= MarkMax + 1   \* uls_get_escape_str()
FirstIn(s, is(_)) == SelectInSeq(s, is)
PutAt(s, k, e) == IF k = 0 THEN Append(s, e) ELSE [s EXCEPT ![k] = e]
OthersHave(s, k, is(_)) == \E j \in DOMAIN s \ {k} : is(s[j])

(* The mark of a comment of column 0 has a line feed before it; to find    *)
(* whether it is there already, the first character of every mark is left  *)
(* out.                                                                    *)
CommentMark(l) == IF "column0" \in l.flags THEN <<NL>> \o l.mark ELSE l.mark
SameComment(l, c) == (IF "column0" \in l.flags THEN Tail(c.mark) ELSE c.mark) = l.mark
CommentType(h, l) ==
  LET end == IF "oneline" \in l.flags THEN <<NL>> ELSE l.end
      c == [mark |-> CommentMark(l), end |-> end]
      k == FirstIn(h.comments, LAMBDA x : SameComment(l, x))
      put == PutAt(h.comments, k, c)
      at == IF k = 0 THEN Len(put) ELSE k
  IN IF \/ ~MarkFits(l.mark) \/ ("oneline" \notin l.flags /\ ~MarkFits(l.end))
        \/ ~(l.flags \subseteq {"oneline", "column0", "nested"})
        \/ Len(put) > CommentsMax
        \/ OthersHave(put, at, LAMBDA x : x.mark = c.mark)
     THEN {} ELSE {[h EXCEPT !.comments = put]}

(* A quote type with a name is a token, whose number and name no reserved  *)
(* token has, and whose name no other; the number of one without a name is *)
(* compared with those of the other quote types only.                      *)
QuoteToken(h, l, id) ==
  l.name # "" => id \notin ReservedIds /\ l.name \notin h.names \cup ReservedNames
QuoteMarkFits(m) == MarkFits(m) /\ m # <<Period>>
QuoteType(h, l) ==
  LET end == CASE "asymmetric" \in l.flags -> l.end
               [] {"open", "nothing"} \cap l.flags # {} -> <<>>
               [] OTHER -> l.mark
      q == [mark |-> l.mark, end |-> end, id |-> IF l.id = 0 THEN Code[l.mark[1]] ELSE l.id]
      k == FirstIn(h.quotes, LAMBDA x : x.mark = l.mark)
      put == PutAt(h.quotes, k, q)
      at == IF k = 0 THEN Len(put) ELSE k
  IN IF \/ ~QuoteMarkFits(l.mark) \/ ("asymmetric" \in l.flags /\ ~QuoteMarkFits(l.end))
        \/ ~(l.flags \subseteq {"asymmetric", "open", "nothing", "multiline", "right_exclusive"})
        \/ Len(put) > QuotesMax
        \/ OthersHave(put, at, LAMBDA x : x.id = q.id)
        \/ ~QuoteToken(h, l, q.id)
     THEN {} ELSE {[h EXCEPT !.quotes = put, !.names = @ \cup ({l.name} \ {""})]}


(* uls_cmd_run()                                                           *)
After(h, l) ==
  CASE l.attr = "CASE_SENSITIVE"    -> CaseSensitive(h, l)
    [] l.attr = "COMMENT_TYPE"      -> CommentType(h, l)
    [] l.attr = "DECIMAL_SEPARATOR" -> DecimalSeparator(h, l)
    [] l.attr = "DOMAIN"            -> IF l.ours THEN {h} ELSE {}
    [] l.attr = "ID_CHARS"          -> IdChars(h, l)
    [] l.attr = "ID_FIRST_CHARS"    -> IdFirstChars(h, l)
    [] l.attr = "ID_MAX_LENGTH"     -> IdMaxLength(h, l)
    [] l.attr = "NOT_CHAR_TOK"      -> NotCharTok(h, l)
    [] l.attr = "NUMBER_PREFIXES"   -> NumberPrefixes(h, l)
    [] l.attr = "NUMBER_SUFFIXES"   -> NumberSuffixes(h, l)
    [] l.attr = "PREPEND_INPUT"     -> PrependInput(h, l)
    [] l.attr = "QUOTE_TYPE"        -> QuoteType(h, l)
    [] OTHER                        -> {}

(***************************************************************************)
(* check_keyw_str(): what the keyword of a token's line is taken for.      *)
(***************************************************************************)
IdFirst(h) == h.idfirst \cup h.wideFirst \cup UtfIds
Ids(h) == h.ids \cup h.wideIds \cup UtfIds

Class(h, w) ==
  CASE ToSet(w) \subseteq Digits -> "user"
    [] w[1] \in IdFirst(h) /\ ToSet(Tail(w)) \subseteq Ids(h) -> "id"
    [] Blank \in ToSet(w) -> "refused"
    [] Len(w) = 1 -> "one"
    [] Len(w) > WordMax \/ ToSet(w) \cap Controls # {} -> "refused"
    [] OTHER -> "two"

\* It is kept in upper case if case does not matter.
UpperOf(c) == IF c \in DOMAIN Upper THEN Upper[c] ELSE c
KeptAs(h, w) == IF h.nocase THEN [k \in DOMAIN w |-> UpperOf(w[k])] ELSE w

(* check_if_keyw(): no comment may begin with the mark of a literal, and   *)
(* no literal with the mark of a comment.                                  *)
MarksApart_OneWay(h) ==                \* mutant: whether a literal begins like a comment is not asked
  \A c \in ToSet(h.comments), q \in ToSet(h.quotes) : ~IsPrefix(q.mark, c.mark)
MarksApart(h) ==
  \A c \in ToSet(h.comments), q \in ToSet(h.quotes) :
    ~IsPrefix(c.mark, q.mark) /\ ~IsPrefix(q.mark, c.mark)

(***************************************************************************)
(* Loading: the attributes, the lines of the tokens, the last checks.      *)
(***************************************************************************)
NoKeyword == [word |-> <<>>, class |-> "none"]

HeaderStart == hstage = "reading" /\ hread = 0 /\ hdr = NoHeader /\ keyword = NoKeyword
HeaderInit == hlines \in Headers /\ HeaderStart

HeaderLine == hlines[hread + 1]

ReadAttribute ==
  /\ hstage = "reading" /\ hread < Len(hlines)
  /\ hread' = hread + 1
  /\ IF HeaderLine.attr = "NUMBER_SUFFIXES" /\ SuffixesDestroyTwice(HeaderLine)
     THEN hstage' = "crashed" /\ UNCHANGED hdr
     ELSE \/ hdr' \in After(hdr, HeaderLine) /\ UNCHANGED hstage
          \/ After(hdr, HeaderLine) = {} /\ hstage' = "refused" /\ UNCHANGED hdr
  /\ UNCHANGED <<hlines, keyword>>

ReadKeyword ==                         \* of all the lines of tokens one
  /\ hstage = "reading" /\ hread = Len(hlines)
  /\ \E w \in Keywords : keyword' = [word |-> w, class |-> Class(hdr, w)]
  /\ hstage' = IF keyword'.class = "refused" THEN "refused" ELSE "words"
  /\ UNCHANGED <<hlines, hread, hdr>>

CheckKeywords ==
  /\ hstage = "words"
  /\ hstage' = IF MarksApart(hdr) THEN "ready" ELSE "refused"
  /\ UNCHANGED <<hlines, hread, hdr, keyword>>

HeaderStep == ReadAttribute \/ ReadKeyword \/ CheckKeywords
HeaderSpec == HeaderInit /\ [][HeaderStep]_headerVars

(***************************************************************************)
(* What the analyser does with it: at every place of a text the filler     *)
(* looks for the mark of a comment and then for that of a literal, in the  *)
(* order they are kept; what is left is split into numbers, identifiers,   *)
(* keywords of more than one character, and single characters.             *)
(***************************************************************************)
FirstMark(s, text) ==
  LET k == FirstIn(s, LAMBDA x : IsPrefix(x.mark, text)) IN IF k = 0 THEN <<>> ELSE s[k].mark
MarkAt(h, text) ==
  IF FirstMark(h.comments, text) # <<>> THEN FirstMark(h.comments, text)
  ELSE FirstMark(h.quotes, text)
Cut(h, text) == \E k \in DOMAIN text : MarkAt(h, SubSeq(text, k, Len(text))) # <<>>

IsNumber(text) ==
  \/ text[1] \in Digits
  \/ text[1] = Period /\ Len(text) > 1 /\ text[2] \in Digits
Skipped(c) == c \in Controls \ {NL, Tab}

(* What a text that is the keyword k and no more is found to be.           *)
Scanned(h, k) ==
  LET text == k.word
      id == text[1] \in IdFirst(h)
      end == SelectInSubSeq(text, 2, Len(text), LAMBDA c : c \notin Ids(h))
  IN CASE Cut(h, text) -> "mark"
       [] Skipped(text[1]) -> "nothing"
       [] IsNumber(text) -> "number"
       [] id /\ end # 0 -> "part"
       [] id -> IF k.class = "id" THEN "keyword" ELSE "ID"
       [] k.class \in {"two", "one"} /\ text = KeptAs(h, text) -> "keyword"
       [] OTHER -> "char"

FirstSuffix(pool, text) ==             \* is_cnst_suffix_contained()
  LET k == FirstIn(pool, LAMBDA w : IsPrefix(w, text)) IN IF k = 0 THEN <<>> ELSE pool[k]
FirstPrefix(prefixes, text) ==         \* find_prefix_radix()
  LET k == FirstIn(prefixes, LAMBDA w : IsPrefix(w.prefix, text))
  IN IF k = 0 THEN <<>> ELSE prefixes[k].prefix

-----------------------------------------------------------------------------
ReadLines == SubSeq(hlines, 1, hread)
LinesWith(attr) == SelectSeq(ReadLines, LAMBDA l : l.attr = attr)
Given(attr) == LinesWith(attr) # <<>>
LastOf(attr) == Last(LinesWith(attr))
Loaded == hstage \in {"reading", "words", "ready"}

\* A later line has the mark of line k, or is that of a comment of column 0
\* whose mark is that of line k without its first character.
DisplacedBy(ls, k, j) ==
  /\ j > k
  /\ \/ CommentMark(ls[j]) = CommentMark(ls[k])
     \/ /\ "column0" \in ls[j].flags /\ Tail(CommentMark(ls[k])) = ls[j].mark
        /\ \A i \in 1..k : CommentMark(ls[i]) # CommentMark(ls[j])
MarksOf(s) == {x.mark : x \in ToSet(s)}

(* As long as nothing is refused, the header is what its lines say: of an  *)
(* attribute with one value the last line, of the characters of            *)
(* identifiers all lines if they are ASCII and the last one if they are    *)
(* not, of the marks the last line of each; a number prefix or suffix that *)
(* begins with another one is found whole, wherever it stands in its line  *)
(* (uls_conf.c:411-1556, uls_cmd_run()).                                   *)
AttributesInForce == Loaded =>
  /\ Given("CASE_SENSITIVE") => hdr.nocase = (LastOf("CASE_SENSITIVE").value = "false")
  /\ Given("DECIMAL_SEPARATOR") => hdr.separator = LastOf("DECIMAL_SEPARATOR").value
  /\ Given("PREPEND_INPUT") => hdr.prepend = LastOf("PREPEND_INPUT").text
  /\ Given("ID_FIRST_CHARS") =>
       IdFirst(hdr) = RangesOf(LastOf("ID_FIRST_CHARS")) \cup UtfIds
          \cup (AsciiChars \cap UNION {RangesOf(l) : l \in ToSet(LinesWith("ID_FIRST_CHARS"))})
  /\ Given("ID_CHARS") =>
       Ids(hdr) = RangesOf(LastOf("ID_CHARS")) \cup UtfIds
          \cup (AsciiChars \cap UNION {RangesOf(l) : l \in ToSet(LinesWith("ID_CHARS"))})
  /\ Given("NUMBER_PREFIXES") =>
       \A w \in ToSet(LastOf("NUMBER_PREFIXES").words) :
         FirstPrefix(hdr.prefixes, w.prefix) = w.prefix
  /\ Given("NUMBER_SUFFIXES") =>
       \A w \in ToSet(LastOf("NUMBER_SUFFIXES").words) :
         \/ FirstSuffix(hdr.suffixes, w) = w
         \/ /\ w \notin ToSet(hdr.suffixes)
            /\ \/ BadsIn(w) > 0 \/ Len(w) > SuffixMax
               \/ PoolMax - PoolSize(hdr.suffixes) < Len(w) + 1
  /\ LET ls == LinesWith("COMMENT_TYPE")
     IN MarksOf(hdr.comments) =
          {CommentMark(ls[k]) : k \in {i \in DOMAIN ls : ~\E j \in DOMAIN ls : DisplacedBy(ls, i, j)}}
  /\ LET ls == LinesWith("QUOTE_TYPE")
     IN /\ MarksOf(hdr.quotes) = {ls[k].mark : k \in DOMAIN ls}
        /\ \A q \in ToSet(hdr.quotes) :
             q.id = Last(SelectSeq(ls, LAMBDA l : l.mark = q.mark)).id
             \/ Last(SelectSeq(ls, LAMBDA l : l.mark = q.mark)).id = 0

(* In an analyser that was created, a mark at the beginning of a text is   *)
(* found, and found to be that mark, unless one of its kind that was       *)
(* declared before is the beginning of it: '"' before '""""' hides the    *)
(* longer one (uls_conf.c:2271-2304, uls_context.c:397-454).               *)
HiddenIn(s, m) == \E j \in DOMAIN s :
  /\ IsStrictPrefix(s[j].mark, m) /\ \A k \in DOMAIN s : s[k].mark = m => j < k
MarksFound ==
  hstage = "ready" =>
    /\ \A m \in MarksOf(hdr.comments) : MarkAt(hdr, m) = m \/ HiddenIn(hdr.comments, m)
    /\ \A m \in MarksOf(hdr.quotes) : MarkAt(hdr, m) = m \/ HiddenIn(hdr.quotes, m)

(* A text that is a keyword of the specification is found to be that       *)
(* keyword, but for those the loading accepts and no text can reach: a     *)
(* mark of a comment or a literal is in it; it begins like a number, or    *)
(* like an identifier without being one; it has a lower-case letter and    *)
(* case does not matter, for it is kept in upper case and compared with    *)
(* the text as it is; a control character (uls_conf.c:85-226,              *)
(* uls_core.c:848-1025).                                                   *)
MayBeMissed(w, class) ==
  \/ \E m \in MarksOf(hdr.comments) \cup MarksOf(hdr.quotes), k \in DOMAIN w :
       IsPrefix(m, SubSeq(w, k, Len(w)))
  \/ w[1] \in Controls
  \/ class # "id" /\ (w[1] \in Digits \cup {Period} \cup IdFirst(hdr)
                     \/ (hdr.nocase /\ ToSet(w) \cap DOMAIN Upper # {}))
KeywordsReachable ==
  (hstage = "ready" /\ keyword.class \notin {"user", "none"}) =>
    Scanned(hdr, keyword) = "keyword" \/ MayBeMissed(keyword.word, keyword.class)

(* What the specification declares, a mark or a keyword, a text can reach. *)
LoadedIsReachable == MarksFound /\ KeywordsReachable

-----------------------------------------------------------------------------
(* -------- uls_dump.c: what is printed of the attributes -------- *)

Coded(S) == {Code[c] : c \in S}

(* dump_tokdef__char_context(): the codes of the syntax table by runs.     *)
RunsOf(S) == {<<i, j>> \in S \X S : i <= j /\ i..j \subseteq S /\ i - 1 \notin S /\ j + 1 \notin S}

YamlComment(c) == [start |-> c.mark, end |-> c.end]
YamlQuote(q) == [id |-> q.id, start |-> q.mark, end |-> q.end]
Each(s, of(_)) == [k \in DOMAIN s |-> of(s[k])]

YamlHeader(h) ==
  [idfirst |-> RunsOf(Coded(h.idfirst)), ids |-> RunsOf(Coded(h.ids)),
   caseSensitive |-> ~h.nocase,
   separator |-> h.separator, idmax |-> h.idmax,   \* each left out while it is the default
   prefixes |-> h.prefixes, suffixes |-> h.suffixes,
   comments |-> Each(h.comments, YamlComment), quotes |-> Each(h.quotes, YamlQuote)]

-----------------------------------------------------------------------------
(* The lines of a header that say what a YAML document says, and the       *)
(* headers they leave.                                                     *)
AsLines(y) ==
  <<[attr |-> "CASE_SENSITIVE", value |-> IF y.caseSensitive THEN "true" ELSE "false"],
    [attr |-> "ID_FIRST_CHARS", ranges |-> SetToSeq(y.idfirst)],
    [attr |-> "ID_CHARS", ranges |-> SetToSeq(y.ids)],
    [attr |-> "DECIMAL_SEPARATOR", value |-> y.separator],
    [attr |-> "NUMBER_PREFIXES", words |-> y.prefixes],
    [attr |-> "NUMBER_SUFFIXES", words |-> y.suffixes]>>
  \o (IF y.idmax = <<>> THEN <<>> ELSE <<[attr |-> "ID_MAX_LENGTH", value |-> y.idmax]>>)
HeadersOf(ls) == FoldLeft(LAMBDA S, l : UNION {After(h, l) : h \in S}, {NoHeader}, ls)

(* The YAML document of a specification that was loaded, read as the       *)
(* attributes it stands for, is accepted and gives the analyser the same   *)
(* characters of identifiers as far as they are in the table, the same     *)
(* numbers, and the marks of comments and literals in the order in which   *)
(* they are tried (uls_dump.c:549-749).                                    *)
HeaderDumped ==
  hstage = "ready" =>
    LET y == YamlHeader(hdr)
    IN /\ \E h \in HeadersOf(AsLines(y)) :
            \A f \in {"nocase", "idfirst", "ids", "separator", "idmax", "prefixes", "suffixes"} :
              h[f] = hdr[f]
       /\ \A k \in DOMAIN hdr.comments :
            y.comments[k].start = hdr.comments[k].mark /\ y.comments[k].end = hdr.comments[k].end
       /\ \A k \in DOMAIN hdr.quotes :
            y.quotes[k].start = hdr.quotes[k].mark /\ y.quotes[k].end = hdr.quotes[k].end

(* The attributes hold in the analyser, and in one made of its dump.       *)
AttributesHold == AttributesInForce /\ HeaderDumped
=============================================================================
