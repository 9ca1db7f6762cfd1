----------------------------- MODULE PlainLexer -----------------------------
(***************************************************************************)
(* What the raw reader of the analyser promises, said without a buffer:    *)
(* the tokens of a text that is given whole, each with the number of the   *)
(* line it begins on.  Comments count for their line feeds only, so a word *)
(* goes on after a comment that has none.  RawFiller.tla is the reader.    *)
(*                                                                         *)
(* The first part, the classes of characters and the marks of comments and *)
(* literals (ch_context, commtypes and quotetypes of uls_xcontext_t), is   *)
(* shared with RawFiller.                                                  *)
(***************************************************************************)
EXTENDS Integers, Sequences, FiniteSets, SequencesExt

CONSTANTS
  IdChars,     \* the characters identifiers are made of
  Blanks,      \* white space other than the line feed
  LF,          \* '\n'
  EscSym,      \* the escape symbol of literal strings
  Configs      \* the lexical configurations, see ConfigOK

VARIABLE conf  \* the one the analyser was created with

StartsOf(commtypes, quotetypes) ==
  {commtypes[k].start : k \in DOMAIN commtypes}
  \cup {quotetypes[k].start : k \in DOMAIN quotetypes}

(* ch_context[c] = 0: no configured use makes the character anything else. *)
SpacesOf(commtypes, quotetypes, lf_is_token) ==
  IF lf_is_token \/ \E m \in StartsOf(commtypes, quotetypes) : m[1] = LF
    THEN Blanks ELSE Blanks \cup {LF}

Commtype(c)  == c.start # <<>> /\ c.end # <<>>
Quotetype(q) == /\ q.start # <<>> /\ q.end # <<>> /\ q.end[1] # EscSym
                /\ {q.multiline, q.exclusive} \subseteq BOOLEAN
ConfigOK(cf) ==
  /\ cf.lf_is_token \in BOOLEAN      \* the configuration has a token for LF
  /\ cf.start_line \in Int /\ cf.start_line <= 1    \* 1 - lfs_prepended_input
  /\ \A k \in DOMAIN cf.commtypes : Commtype(cf.commtypes[k])
  /\ \A k \in DOMAIN cf.quotetypes : Quotetype(cf.quotetypes[k])
  /\ cf.spaces = SpacesOf(cf.commtypes, cf.quotetypes, cf.lf_is_token)

ASSUME CharsOK ==
  /\ IdChars \cap Blanks = {} /\ LF \notin IdChars \cup Blanks
  /\ \A cf \in Configs : ConfigOK(cf)

Commtypes  == conf.commtypes           \* in the order they are defined
Quotetypes == conf.quotetypes
LfIsToken  == conf.lf_is_token
StartLine  == conf.start_line

IsSpace(c) == c \in conf.spaces

MarkAt(t, i, mark) ==
  i + Len(mark) - 1 <= Len(t) /\ SubSeq(t, i, i + Len(mark) - 1) = mark

FirstStart(types, t, i) ==             \* 0 if none of them starts there
  LET ks == {k \in DOMAIN types : MarkAt(t, i, types[k].start)}
  IN IF ks = {} THEN 0 ELSE CHOOSE k \in ks : \A j \in ks : k <= j
is_commtype_start(t, i)          == FirstStart(Commtypes, t, i)
uls_xcontext_find_quotetype(t, i) == FirstStart(Quotetypes, t, i)

NumLfs(t) == Len(SelectSeq(t, LAMBDA c : c = LF))
-----------------------------------------------------------------------------
(* The text with its comments replaced by their line feeds and its literal *)
(* strings by one item each.  An item knows its place in the text.         *)
Item(q, v, at) == [q |-> q, v |-> v, at |-> at]
BadItem(at) == [q |-> -1, v |-> <<>>, at |-> at]

LeastOf(S) == CHOOSE j \in S : \A i \in S : j <= i

LfItems(t, i, j) ==
  LET ps == SelectSeq([p \in 1..(j - i + 1) |-> i + p - 1], LAMBDA p : t[p] = LF)
  IN [n \in DOMAIN ps |-> Item(0, <<LF>>, ps[n])]

(* A character of a literal is escaped if the run of escape symbols before *)
(* it, within the literal, is odd.                                         *)
Escaped(t, from, j) ==
  LET run == {i \in from..j : \A p \in i..(j - 1) : t[p] = EscSym}
  IN (j - LeastOf(run)) % 2 = 1

Ends(t, from, mark) == {j \in from..Len(t) : MarkAt(t, j, mark)}
LitEnds(t, from, q) ==
  {j \in Ends(t, from, q.end) :
     /\ ~Escaped(t, from, j)
     /\ q.multiline \/ \A p \in from..(j - 1) : t[p] = LF => Escaped(t, from, p)}

Items(t) ==
  LET f[i \in 1..(Len(t) + 1)] ==
        IF i > Len(t) THEN <<>>
        ELSE IF IsSpace(t[i]) THEN <<Item(0, <<t[i]>>, i)>> \o f[i + 1]
        ELSE IF is_commtype_start(t, i) # 0 THEN
          LET c    == Commtypes[is_commtype_start(t, i)]
              ends == Ends(t, i + Len(c.start), c.end)
              next == LeastOf(ends) + Len(c.end)
          IN IF ends = {} THEN <<BadItem(i)>>
             ELSE LfItems(t, i, next - 1) \o f[next]
        ELSE IF uls_xcontext_find_quotetype(t, i) # 0 THEN
          LET k    == uls_xcontext_find_quotetype(t, i)
              q    == Quotetypes[k]
              from == i + Len(q.start)
              ends == LitEnds(t, from, q)
              end  == LeastOf(ends)
          IN IF ends = {} THEN <<BadItem(i)>>
             ELSE <<Item(k, SubSeq(t, from, end - 1), i)>>
                  \o f[IF q.exclusive THEN end ELSE end + Len(q.end)]
        ELSE <<Item(0, <<t[i]>>, i)>> \o f[i + 1]
  IN f[1]

LineOf(t, i) == StartLine + NumLfs(SubSeq(t, 1, i - 1))

(* Items to tokens, from the last one back: characters of identifiers that *)
(* follow each other join, separators end a word, and the line feeds of    *)
(* the lines that were prepended to the input are not tokens.              *)
Joined(t, it, acc) ==
  LET c   == it.v[1]
      tok == [q |-> it.q, v |-> it.v, line |-> LineOf(t, it.at)]
  IN IF it.q = -1 THEN [toks |-> <<>>, bad |-> TRUE, word |-> FALSE]
     ELSE IF it.q = 0 /\ c \in IdChars THEN
       IF acc.word
         THEN [acc EXCEPT !.toks = <<[tok EXCEPT !.v = it.v \o acc.toks[1].v]>>
                                   \o Tail(acc.toks)]
         ELSE [acc EXCEPT !.toks = <<tok>> \o @, !.word = TRUE]
     ELSE IF it.q = 0 /\ (IsSpace(c) \/ (c = LF /\ (~LfIsToken \/ tok.line <= 0)))
       THEN [acc EXCEPT !.word = FALSE]
     ELSE [acc EXCEPT !.toks = <<tok>> \o @, !.word = FALSE]

(* The promise: the tokens of the text, up to the first comment or literal *)
(* that has no end if there is one (bad).                                  *)
Lexed(t) ==
  FoldRight(LAMBDA it, acc : Joined(t, it, acc), Items(t),
            [toks |-> <<>>, bad |-> FALSE, word |-> FALSE])
=============================================================================
