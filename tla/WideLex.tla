------------------------------- MODULE WideLex -------------------------------
(***************************************************************************)
(* The lexer for programs of wide characters (src/ulscompat): a shell over *)
(* an analyser that converts what it is given, and keeps what it has       *)
(* converted until a call tells it that the analyser went on.  The calls   *)
(* that wide programs make to the analyser itself do not tell it.          *)
(*                                                                         *)
(* The analyser is what LexContext, PushBack and Ownership say of it; here *)
(* its inputs are the tokens that are left.  A text is a sequence of       *)
(* characters, of which a locale knows some.                               *)
(***************************************************************************)
EXTENDS Integers, Sequences, SequencesExt

CONSTANTS
  Plain,       \* characters of every locale
  Accented,    \* characters of locales with UTF-8 only
  Alien,       \* wide characters that no encoding has, and bytes that are no text
  Zero,        \* the NUL, inside a token
  WideTexts,   \* what programs give
  FileTokens,  \* the tokens of the files that can be opened, by path
  Keywords,    \* of the language: tokens to narrow texts
  Names,       \* the names of tokens, likewise
  NewNames,    \* and after a renaming
  Wants,       \* whether the ends of texts are asked for
  MaxCalls     \* bound: the calls of a behaviour

VARIABLES
  utf8,    \* whether the locale is one of UTF-8
  lex,     \* the analyser: its inputs, the names of its tokens, its references
  shell,   \* what has been converted
  since,   \* for each converted text, the calls since that did not tell the shell
  said,    \* the last answer, and the call if it was a reader
  calls    \* how many there were

wideVars == <<utf8, lex, shell, since, said, calls>>

Stale   == <<"stale">>
Refused == <<"refused">>
Done    == <<"done">>
Failed  == <<"failed">>
Panic   == <<"panic">>      \* err_panic() ends the program
Corrupt == <<"corrupt">>    \* a read of, or a free() of, what is no text of its own
Over    == {Panic, Corrupt}
Cached  == {"lexeme", "tokstr", "tag"}

\* uls_wstr2ustr() and uls_ustr2wstr() go as far as the first NUL.
Cut(text) ==
  IF Zero \in ToSet(text) THEN SubSeq(text, 1, (CHOOSE k \in DOMAIN text : text[k] = Zero /\ Zero \notin ToSet(SubSeq(text, 1, k - 1))) - 1)
  ELSE text
Known == Plain \cup IF utf8 THEN Accented ELSE {}
Converted(text) == IF ToSet(Cut(text)) \subseteq Known THEN Cut(text) ELSE Refused
\* A line is encoded in UTF-8 whatever the locale is.
Encoded(text) == IF Alien \cap ToSet(text) = {} THEN text ELSE Refused

(* -------- the analyser -------- *)

Tok(text, printed) == [lexeme |-> text, tokstr |-> printed]
Blank == Tok(<<>>, <<>>)
Input(tag, toks, want) == [tag |-> tag, toks |-> toks, tok |-> Blank, want |-> want, eof |-> FALSE]
Inner == Head(lex.inputs)
Popped == IF Len(lex.inputs) > 1 THEN Tail(lex.inputs) ELSE lex.inputs
Current(cache) == IF cache = "tag" THEN Inner.tag ELSE Inner.tok[cache]

\* uls_get_tok(): the next token of the first input that has one, or wants
\* its end to be told.
Got ==
  LET open == IF Inner.eof THEN Popped ELSE lex.inputs
      k    == CHOOSE i \in DOMAIN open :
                /\ open[i].toks # <<>> \/ open[i].want \/ i = Len(open)
                /\ \A j \in 1..i - 1 : open[j].toks = <<>> /\ ~open[j].want
      top  == open[k]
  IN <<IF top.toks # <<>> THEN [top EXCEPT !.tok = Head(top.toks), !.toks = Tail(@)]
       ELSE IF k < Len(open) THEN [top EXCEPT !.tok = Tok(top.tag, top.tag), !.eof = TRUE]
       ELSE [top EXCEPT !.tok = Blank]>>
     \o SubSeq(open, k + 1, Len(open))

\* uls_get_ch(): a character of the input; the token is no more.
GotCh ==
  LET rest == IF Inner.toks = <<>> THEN <<>>
              ELSE LET t == Tail(Head(Inner.toks).lexeme)
                   IN IF t = <<>> THEN Tail(Inner.toks) ELSE <<Tok(t, t)>> \o Tail(Inner.toks)
  IN <<[Inner EXCEPT !.toks = rest, !.tok = Blank]>> \o Tail(lex.inputs)

\* __push_and_alloc_line_right(): what is put back has the tag of its input.
PutBack(text) == <<Input(Inner.tag, IF text = <<>> THEN <<>> ELSE <<Tok(text, text)>>, FALSE)>> \o lex.inputs

(* -------- calls -------- *)

Alive == lex.refs > 0 /\ said.answer \notin Over
Calling(call) == Alive /\ calls < MaxCalls /\ calls' = calls + 1
Says(answer) == said' = [call |-> "other", answer |-> answer, want |-> Stale]
\* A call that tells the shell of these, one that does not.
Tells(caches) ==
  /\ shell' = [shell EXCEPT !.text = [c \in Cached |-> IF c \in caches THEN Stale ELSE @[c]]]
  /\ since' = [c \in Cached |-> IF c \in caches THEN {} ELSE since[c]]
Untold(call) ==
  /\ since' = [c \in Cached |-> since[c] \cup {call}]
  /\ UNCHANGED shell

uls_get_wtok_Quiet ==                \* mutant: the texts of the last token stay
  /\ Calling("get_wtok")
  /\ lex' = [lex EXCEPT !.inputs = Got]
  /\ since' = [c \in Cached |-> IF c = "tag" THEN since[c] \cup {"get_wtok"} ELSE {}]
  /\ Says(Done) /\ UNCHANGED <<utf8, shell>>
uls_get_wtok ==
  /\ Calling("get_wtok")
  /\ lex' = [lex EXCEPT !.inputs = Got]
  /\ shell' = [shell EXCEPT !.text = [@ EXCEPT !["lexeme"] = Stale, !["tokstr"] = Stale]]
  /\ since' = [c \in Cached |-> IF c = "tag" THEN since[c] \cup {"get_wtok"} ELSE {}]
  /\ Says(Done) /\ UNCHANGED utf8

uls_set_wtok(w) ==
  /\ Calling("set_wtok")
  /\ IF Converted(w) = Refused THEN UNCHANGED <<lex, shell, since>>
     ELSE /\ lex' = [lex EXCEPT !.inputs[1].tok = Tok(Converted(w), Converted(w))]
          /\ Tells({"lexeme", "tokstr"})
  /\ Says(Done) /\ UNCHANGED utf8

\* uls_lexeme_wstr(), uls_tokstr_wstr(), uls_get_tag_wstr() and their lengths.
Reads(cache) ==
  /\ Calling(cache)
  /\ IF shell.text[cache] # Stale
     THEN said' = [call |-> cache, answer |-> shell.text[cache], want |-> Current(cache)] /\ UNCHANGED <<shell, since>>
     ELSE IF Converted(Current(cache)) = Refused
     THEN said' = [call |-> cache, answer |-> Panic, want |-> Current(cache)] /\ UNCHANGED <<shell, since>>
     ELSE /\ shell' = [shell EXCEPT !.text[cache] = Converted(Current(cache))]
          /\ since' = [since EXCEPT ![cache] = {}]
          /\ said' = [call |-> cache, answer |-> Converted(Current(cache)), want |-> Current(cache)]
  /\ UNCHANGED <<utf8, lex>>

uls_get_wch ==
  /\ Calling("get_wch")
  /\ lex' = [lex EXCEPT !.inputs = GotCh]
  /\ Untold("get_wch") /\ Says(Done) /\ UNCHANGED utf8

\* uls_unget_tok_wstr(), uls_unget_wstr() and uls_unget_wch(); the second one
\* is silent about a text it cannot convert.
Ungets(call, w) ==
  /\ Calling(call)
  /\ IF Converted(w) = Refused
     THEN Says(IF call = "unget_wstr" THEN Done ELSE Failed) /\ UNCHANGED <<lex, shell, since>>
     ELSE /\ lex' = [lex EXCEPT !.inputs = PutBack(Converted(w))]
          /\ shell' = [shell EXCEPT !.text = [@ EXCEPT !["lexeme"] = Stale, !["tokstr"] = Stale]]
          /\ since' = [c \in Cached |-> IF c = "tag" THEN since[c] \cup {call} ELSE {}]
          /\ Says(Done)
  /\ UNCHANGED utf8

\* uls_push_line_wstr() and uls_set_line_wstr() do not learn of a line that
\* is refused, and set the mode of the input that is there.
Lines(call, w, want) ==
  /\ Calling(call)
  /\ LET base == IF call = "set_line" THEN Popped ELSE lex.inputs
         after == IF Encoded(w) = Refused THEN lex.inputs
                  ELSE <<Input(<<>>, IF w = <<>> THEN <<>> ELSE <<Tok(w, w)>>, want)>> \o base
     IN lex' = [lex EXCEPT !.inputs = [after EXCEPT ![1].want = want]]
  /\ Untold(call) /\ Says(Done) /\ UNCHANGED utf8

\* uls_push_file_wstr(): the file is opened here, and its tag is set through
\* the shell. uls_set_file_wstr() drops the input whatever becomes of the file.
Files(call, path, want) ==
  /\ Calling(call)
  /\ LET base == IF call = "set_file" THEN Popped ELSE lex.inputs
         opens == Converted(path) # Refused /\ Converted(path) \in DOMAIN FileTokens
     IN IF ~opens
        THEN /\ lex' = [lex EXCEPT !.inputs = base]
             /\ Untold(call) /\ Says(Failed)
        ELSE /\ lex' = [lex EXCEPT !.inputs = <<Input(Converted(path), FileTokens[Converted(path)], want)>> \o base]
             /\ shell' = [shell EXCEPT !.text["tag"] = Stale]
             /\ since' = [c \in Cached |-> IF c = "tag" THEN {} ELSE since[c] \cup {call}]
             /\ Says(Done)
  /\ UNCHANGED utf8

\* uls_push_fp_wstr(), uls_push_fd_wstr(): a stream without a path.
PushesFp(path) ==
  /\ Calling("push_fp")
  /\ lex' = [lex EXCEPT !.inputs = <<Input(<<>>, FileTokens[path], FALSE)>> \o @]
  /\ Untold("push_fp") /\ Says(Done) /\ UNCHANGED utf8

uls_set_tag_wstr(w) ==
  /\ Calling("set_tag")
  /\ IF Converted(w) = Refused THEN UNCHANGED <<lex, shell, since>>
     ELSE lex' = [lex EXCEPT !.inputs[1].tag = Converted(w)] /\ Tells({"tag"})
  /\ Says(Done) /\ UNCHANGED utf8

\* Calls of the core that wide programs make as they are.
uls_pop ==
  /\ Calling("pop")
  /\ lex' = [lex EXCEPT !.inputs = Popped]
  /\ Untold("pop") /\ Says(Done) /\ UNCHANGED utf8
uld_post_names ==
  /\ Calling("rename")
  /\ lex' = [lex EXCEPT !.names = NewNames]
  /\ Says(Done) /\ UNCHANGED <<utf8, shell, since>>
uls_grab ==
  /\ Calling("grab") /\ lex.refs = 1
  /\ lex' = [lex EXCEPT !.refs = 2]
  /\ Says(Done) /\ UNCHANGED <<utf8, shell, since>>
uls_ungrab ==
  /\ Calling("ungrab") /\ shell.left
  /\ lex' = [lex EXCEPT !.refs = @ - 1]
  /\ Says(Done) /\ UNCHANGED <<utf8, shell, since>>

\* The names and keywords are those of the creation. One that could not be
\* converted has an entry all the same, of whatever was in the memory.
Copied(table) == [t \in DOMAIN table |-> Converted(table[t])]
Looks(kind, t) ==
  /\ Calling(kind)
  /\ LET e == IF kind = "keyword" THEN shell.keywords[t] ELSE shell.names[t]
         is == IF kind = "keyword" THEN Keywords[t] ELSE lex.names[t]
     IN said' = [call |-> kind, answer |-> IF e = Refused THEN Corrupt ELSE e, want |-> is]
  /\ UNCHANGED <<utf8, lex, shell, since>>

\* uls_push_istream_2_wstr(): the converted texts are freed, and freed once
\* more through the lists of them; so are those that were not yet converted.
Templates(ws) ==
  /\ Calling("push_istream")
  /\ IF ws # <<>> THEN said' = [call |-> "push_istream", answer |-> Corrupt, want |-> Stale] /\ UNCHANGED <<lex, since>>
     ELSE /\ lex' = [lex EXCEPT !.inputs = <<Input(<<>>, <<>>, FALSE)>> \o @]
          /\ Says(Done)
          /\ since' = [c \in Cached |-> since[c] \cup {"push_istream"}]
  /\ UNCHANGED <<utf8, shell>>

\* uls_destroy_wstr(): the shell goes if nothing else holds the analyser.
uls_destroy_wstr ==
  /\ Calling("destroy") /\ ~shell.left
  /\ lex' = [lex EXCEPT !.refs = @ - 1]
  /\ IF lex.refs > 1 THEN shell' = [shell EXCEPT !.left = TRUE] /\ Says(Done)
     ELSE /\ shell' = [shell EXCEPT !.there = FALSE]
          /\ Says(IF \E t \in DOMAIN shell.keywords : shell.keywords[t] = Refused THEN Corrupt ELSE Done)
  /\ UNCHANGED <<utf8, since>>

\* uls_init_wstr(): a shell that has converted nothing but the names.
WideInit ==
  /\ utf8 \in BOOLEAN
  /\ lex = [inputs |-> <<Input(<<>>, <<>>, FALSE)>>, names |-> Names, refs |-> 1]
  /\ shell = [text |-> [c \in Cached |-> Stale], there |-> TRUE, left |-> FALSE,
              keywords |-> Copied(Keywords), names |-> Copied(Names)]
  /\ since = [c \in Cached |-> {}]
  /\ said = [call |-> "other", answer |-> Done, want |-> Stale]
  /\ calls = 0

WideStep ==
  \/ uls_get_wtok \/ uls_get_wch \/ uls_pop \/ uld_post_names \/ uls_grab \/ uls_ungrab \/ uls_destroy_wstr
  \/ \E w \in WideTexts : uls_set_wtok(w) \/ uls_set_tag_wstr(w) \/ Templates(<<w>>)
  \/ Templates(<<>>)
  \/ \E c \in Cached : Reads(c)
  \/ \E call \in {"unget_tok", "unget_wstr", "unget_wch"}, w \in WideTexts : Ungets(call, w)
  \/ \E call \in {"push_line", "set_line"}, w \in WideTexts, want \in Wants : Lines(call, w, want)
  \/ \E call \in {"push_file", "set_file"}, w \in WideTexts, want \in Wants : Files(call, w, want)
  \/ \E path \in DOMAIN FileTokens : PushesFp(path)
  \/ \E t \in DOMAIN Keywords : Looks("keyword", t) \/ Looks("name", t)

-----------------------------------------------------------------------------
(* -------- properties -------- *)

\* A wide reader answers what the analyser would, converted; if not, one of
\* the calls that do not tell the shell was made since it was asked first:
\* for a lexeme, none that reads or puts back tokens; for a name, a renaming.
LexemeUntold == {"get_wch", "pop", "push_line", "set_line", "push_file", "set_file", "push_fp", "push_istream"}
TagUntold == (LexemeUntold \ {"push_file"}) \cup {"get_wtok"}
AnswersFresh ==
  (said.want # Stale /\ said.answer \notin Over /\ said.answer # Converted(said.want)) =>
    CASE said.call \in {"lexeme", "tokstr"} -> since[said.call] \cap LexemeUntold # {}
      [] said.call = "tag" -> since["tag"] \cap TagUntold # {}
      [] said.call = "name" -> lex.names # Names
      [] OTHER -> FALSE

\* The program ends by force only for a text that the locale cannot show; and
\* memory is corrupted only by template variables, or by a keyword or a name
\* that could not be converted.
EndsHaveCause ==
  /\ said.answer = Panic => Converted(said.want) = Refused
  /\ said.answer = Corrupt =>
       \/ said.call = "push_istream"
       \/ \E t \in DOMAIN Keywords : Refused \in {Converted(Keywords[t]), Converted(Names[t])}

\* The shell is freed with the analyser, unless it was destroyed while a
\* stream held it.
GoneTogether == lex.refs = 0 => (shell.there <=> shell.left)

WideAsCore == AnswersFresh /\ EndsHaveCause /\ GoneTogether
=============================================================================
