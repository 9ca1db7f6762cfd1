----------------------------- MODULE RawFiller ------------------------------
(***************************************************************************)
(* The raw reader under one input context: the input buffer and its refill *)
(* (uls_input.c), xcontext_raw_filler(), which takes the comments out and  *)
(* the literal strings aside (uls_context.c), and the part of              *)
(* uls_gettok_raw() that walks over what it left, counts lines and asks    *)
(* for more (uls_core.c).  One action is one round of one of their loops.  *)
(*                                                                         *)
(* Abstractions.  Buffered text is a sequence of items, one per byte of    *)
(* zbuf1: a literal string is an item of its own, where the code has the   *)
(* '\0' it puts there and a lexseg.  A byte is a character.  The escape    *)
(* sequences of a literal are kept as they are written.  The reads of the  *)
(* source are not divided: uls_input_read() repeats them until the buffer  *)
(* is full or the source has ended.                                        *)
(***************************************************************************)
EXTENDS PlainLexer

CONSTANTS
  TextsOf(_),  \* the inputs for a configuration, prepended lines included
  InputBufSiz, \* ULS_INPUT_BUFSIZ
  Surplus,     \* ULS_LEN_SURPLUS, what a mark may need to be recognised
  CharMax,     \* ULS_UTF8_CH_MAXLEN
  RoughSize,   \* ULS_ZBUF1_ROUGHSIZE
  LexsegsMax   \* the slots of ctx->lexsegs

MarksOf(types) == {types[k].start : k \in DOMAIN types}
                  \cup {types[k].end : k \in DOMAIN types}

ASSUME SizesOK ==
  /\ {CharMax, RoughSize} \subseteq Nat \ {0}
  /\ Surplus \in Nat
  /\ \A cf \in Configs : \A m \in MarksOf(cf.commtypes) \cup MarksOf(cf.quotetypes) :
       Len(m) <= Surplus
  /\ InputBufSiz \in Nat /\ Surplus + CharMax <= InputBufSiz + 1
  /\ LexsegsMax \in Nat \ {0, 1}

VARIABLES
  text,  \* the whole input
  ibuf,  \* uls_input_t: the source, the unread bytes, the line number
  loop,  \* the loop that runs: "fill" and the ones it calls, or "scan"
  proc,  \* the comment or the literal being read
  zbuf,  \* what the filler has collected, see Ch and Lit
  ctx,   \* uls_context_t: the text to scan, the line number, the EOF flag
  out    \* the tokens delivered

fillerVars == <<conf, text, ibuf, loop, proc, zbuf, ctx, out>>
input == <<conf, text>>

Ch(c) == [k |-> "ch", c |-> c]
Lit(q, body, lfs) == [k |-> "lit", q |-> q, body |-> body, lfs |-> lfs]
Chs(s) == [i \in DOMAIN s |-> Ch(s[i])]
Drop(s, n) == SubSeq(s, n + 1, Len(s))
NumLits(z) == Len(SelectSeq(z, LAMBDA u : u.k = "lit"))
NoProc == [cur |-> 0, body |-> <<>>, lfs |-> 0, need |-> 0, esc |-> FALSE]

FillerInit ==
  /\ conf \in Configs /\ text \in TextsOf(conf)
  /\ ibuf \in [src : {text}, fails : BOOLEAN, buf : {<<>>}, st : {"open"},
              line_num : {StartLine}]
  /\ loop = "fill" /\ proc = NoProc /\ zbuf = <<>>
  /\ ctx = [line |-> <<>>, lineno |-> StartLine, delta |-> 0, eof |-> FALSE]
  /\ out = <<>>
-----------------------------------------------------------------------------
(* uls_input_refill_buffer(): at least n bytes, or what there is at EOF.   *)
(* A source that fails before the buffer is full loses what was read.      *)
Room == InputBufSiz - Len(ibuf.buf)

ReadFailed == [ibuf EXCEPT !.src = <<>>, !.st = "err"]
ReadEnded  == [ibuf EXCEPT !.buf = @ \o ibuf.src, !.src = <<>>, !.st = "eof"]
ReadRest_FailIsEof == ReadEnded        \* mutant: a failing read ends the source
ReadRest == IF ibuf.fails THEN ReadFailed ELSE ReadEnded

Refilled(n) ==
  IF n <= Len(ibuf.buf) \/ ibuf.st # "open" THEN ibuf
  ELSE IF Len(ibuf.src) < Room THEN ReadRest
  ELSE [ibuf EXCEPT !.buf = @ \o SubSeq(ibuf.src, 1, Room), !.src = Drop(@, Room)]
RefillFails(n) == n > Len(ibuf.buf) /\ Refilled(n).st = "err"

Taken(r, n, lfs) == [r EXCEPT !.buf = Drop(@, n), !.line_num = @ + lfs]

(* The filler returns -1: what it had collected is not delivered, and the  *)
(* context is in error for good (set_err_tok() by uls_fillbuff()).         *)
FillError(r) ==
  /\ ibuf' = [r EXCEPT !.buf = <<>>]
  /\ loop' = "err" /\ zbuf' = <<>> /\ proc' = NoProc
  /\ UNCHANGED <<input, ctx, out>>

(* It returns to uls_fillbuff(), which takes nothing at all for EOF.       *)
FillReturns(r, eof) ==
  /\ ibuf' = r
  /\ ctx' = [ctx EXCEPT !.line = zbuf, !.eof = eof]
  /\ zbuf' = <<>>
  /\ loop' = IF zbuf = <<>> THEN "eof" ELSE "scan"
  /\ UNCHANGED <<input, proc, out>>

Collect(r, z) ==                       \* back to the top of the loop
  /\ ibuf' = r /\ zbuf' = z
  /\ loop' = "fill" /\ proc' = NoProc
  /\ UNCHANGED <<input, ctx, out>>

Enter(to, r, p) ==
  /\ ibuf' = r /\ proc' = p /\ loop' = to
  /\ UNCHANGED <<input, zbuf, ctx, out>>
-----------------------------------------------------------------------------
(* xcontext_raw_filler(): one round of its loop.                           *)
Surplused == Refilled(Surplus)
AtFill == loop = "fill" /\ ~RefillFails(Surplus)
AtChar == AtFill /\ Surplused.buf # <<>>
Cmt    == is_commtype_start(Surplused.buf, 1)
Qmt    == uls_xcontext_find_quotetype(Surplused.buf, 1)

FillFails == loop = "fill" /\ RefillFails(Surplus) /\ FillError(Surplused)

FillEof == AtFill /\ Surplused.buf = <<>> /\ FillReturns(Surplused, TRUE)

FillSpace ==
  /\ AtChar /\ IsSpace(Surplused.buf[1])
  /\ IF Len(zbuf) >= RoughSize
       THEN FillReturns(Surplused, FALSE)
       ELSE Enter("space", Surplused, NoProc)

FillComment ==
  /\ AtChar /\ ~IsSpace(Surplused.buf[1]) /\ Cmt # 0
  /\ Enter("comment", Taken(Surplused, Len(Commtypes[Cmt].start), 0),
           [NoProc EXCEPT !.cur = Cmt])

NoLexsegLeft == NumLits(zbuf) + 1 >= LexsegsMax

AtQuote == AtChar /\ ~IsSpace(Surplused.buf[1]) /\ Cmt = 0 /\ Qmt # 0
AtLeast(q, n) == IF Len(q.end) > n THEN Len(q.end) ELSE n

FillQuote ==
  /\ AtQuote
  /\ IF NoLexsegLeft THEN FillReturns(Surplused, FALSE)
     ELSE Enter("quote", Taken(Surplused, Len(Quotetypes[Qmt].start), 0),
                [NoProc EXCEPT !.cur = Qmt,
                               !.need = AtLeast(Quotetypes[Qmt], CharMax)])

FillChar ==
  /\ AtChar /\ ~IsSpace(Surplused.buf[1]) /\ Cmt = 0 /\ Qmt = 0
  /\ LET c == Surplused.buf[1]
     IN Collect(Taken(Surplused, 1, NumLfs(<<c>>)), Append(zbuf, Ch(c)))

(* input_space_proc(): a run of white space becomes its line feeds, with   *)
(* one blank for what stands between them.                                 *)
Squeezed_NoLfs(run) == <<Ch(CHOOSE c \in Blanks : TRUE)>>   \* mutant
Squeezed(run) ==
  LET blank == CHOOSE c \in Blanks : TRUE
      keep == SelectSeq([i \in DOMAIN run |-> i],
                LAMBDA i : run[i] = LF \/ i = 1 \/ run[i - 1] = LF)
  IN [n \in DOMAIN keep |-> Ch(IF run[keep[n]] = LF THEN LF ELSE blank)]

SpacesAhead(buf) ==
  IF \A i \in DOMAIN buf : IsSpace(buf[i]) THEN Len(buf)
  ELSE LeastOf({i \in DOMAIN buf : ~IsSpace(buf[i])}) - 1

SpaceTaken(buf, n) ==
  /\ ibuf' = Taken(Surplused, n, NumLfs(SubSeq(buf, 1, n)))
  /\ zbuf' = zbuf \o Squeezed(SubSeq(buf, 1, n))
  /\ loop' = IF n < Len(buf) THEN "fill" ELSE "space"
  /\ UNCHANGED <<input, proc, ctx, out>>

SpaceRun_Waits ==                      \* mutant: goes on at the end of the source
  /\ loop = "space" /\ ~RefillFails(Surplus)
  /\ SpaceTaken(Surplused.buf, SpacesAhead(Surplused.buf))
SpaceRun ==
  /\ loop = "space" /\ ~RefillFails(Surplus)
  /\ IF Surplused.buf = <<>> THEN FillReturns(Surplused, FALSE)
     ELSE SpaceTaken(Surplused.buf, SpacesAhead(Surplused.buf))

SpaceFails == loop = "space" /\ RefillFails(Surplus) /\ FillError(Surplused)

(* input_skip_comment(), then the line feeds of the comment: the ones in   *)
(* it and the ones its marks have.                                         *)
cmt_ == Commtypes[proc.cur]
CommentLfs == proc.lfs + NumLfs(cmt_.start) + NumLfs(cmt_.end)

CommentEnd ==
  /\ loop = "comment" /\ ~RefillFails(Len(cmt_.end))
  /\ LET r == Refilled(Len(cmt_.end))
     IN /\ MarkAt(r.buf, 1, cmt_.end)
        /\ Collect(Taken(r, Len(cmt_.end), CommentLfs),
                   zbuf \o [i \in 1..CommentLfs |-> Ch(LF)])

CommentSkip ==
  /\ loop = "comment" /\ ~RefillFails(Len(cmt_.end))
  /\ LET r == Refilled(Len(cmt_.end))
     IN /\ Len(r.buf) >= Len(cmt_.end) /\ ~MarkAt(r.buf, 1, cmt_.end)
        /\ Enter("comment", Taken(r, 1, 0),
                 [proc EXCEPT !.lfs = @ + NumLfs(<<r.buf[1]>>)])

CommentUnterminated ==
  /\ loop = "comment"
  /\ \/ RefillFails(Len(cmt_.end))
     \/ Len(Refilled(Len(cmt_.end)).buf) < Len(cmt_.end)
  /\ FillError(Refilled(Len(cmt_.end)))
-----------------------------------------------------------------------------
(* input_quote_proc() and dfl_lit_analyzer_escape0() and _escape1(), which *)
(* ask for more bytes only when they return: need is what they asked for.  *)
qmt_ == Quotetypes[proc.cur]
InQuote == loop = "quote" /\ ~RefillFails(proc.need)
           /\ Len(Refilled(proc.need).buf) >= Len(qmt_.end)
QuoteRest == Refilled(proc.need).buf

QuoteLfs ==                            \* n_qmt_lines + lit_ctx->n_lfs
  proc.lfs + NumLfs(qmt_.start) + (IF qmt_.exclusive THEN 0 ELSE NumLfs(qmt_.end))

QuoteEnd ==
  /\ InQuote /\ ~proc.esc /\ MarkAt(QuoteRest, 1, qmt_.end)
  /\ Collect(Taken(Refilled(proc.need),
                  IF qmt_.exclusive THEN 0 ELSE Len(qmt_.end), QuoteLfs),
             Append(zbuf, Lit(proc.cur, proc.body, QuoteLfs)))

QuoteNext(need, esc) ==
  LET c == QuoteRest[1]
  IN Enter("quote", Taken(Refilled(proc.need), 1, 0),
           [proc EXCEPT !.body = Append(@, c), !.need = need, !.esc = esc,
                        !.lfs = @ + NumLfs(<<c>>)])

QuoteEscape ==
  /\ InQuote /\ ~proc.esc /\ QuoteRest[1] = EscSym
  /\ QuoteNext(CharMax, TRUE)

QuoteEscaped ==
  /\ InQuote /\ proc.esc
  /\ QuoteNext(AtLeast(qmt_, CharMax), FALSE)

QuoteChar ==
  /\ InQuote /\ ~proc.esc
  /\ ~MarkAt(QuoteRest, 1, qmt_.end) /\ QuoteRest[1] # EscSym
  /\ QuoteRest[1] = LF => qmt_.multiline
  /\ QuoteNext(IF Len(QuoteRest) - 1 < Len(qmt_.end)
                 THEN AtLeast(qmt_, CharMax) ELSE 0, FALSE)

QuoteUnterminated ==
  /\ loop = "quote"
  /\ \/ RefillFails(proc.need)
     \/ Len(QuoteRest) < Len(qmt_.end)
     \/ /\ InQuote /\ ~proc.esc /\ ~MarkAt(QuoteRest, 1, qmt_.end)
        /\ QuoteRest[1] = LF /\ ~qmt_.multiline
  /\ FillError(Refilled(proc.need))
-----------------------------------------------------------------------------
(* uls_gettok_raw() over the text it has: one round, or one token.         *)
Lineno == ctx.lineno + ctx.delta       \* delta_lineno is added on entry

Scanned(n, lineno, delta) ==
  /\ ctx' = [ctx EXCEPT !.line = Drop(@, n), !.lineno = lineno, !.delta = delta]
  /\ UNCHANGED <<input, ibuf, proc, zbuf>>
Deliver(q, v) == out' = Append(out, [q |-> q, v |-> v, line |-> Lineno])

AtItem == loop = "scan" /\ ctx.line # <<>> /\ ctx.line[1].k = "ch"
c_ == ctx.line[1].c

ScanSpace ==                           \* skip_white_spaces()
  /\ AtItem /\ IsSpace(c_)
  /\ Scanned(1, Lineno + NumLfs(<<c_>>), 0)
  /\ UNCHANGED <<loop, out>>

ScanPrependedLf ==                     \* lineno <= 0
  /\ AtItem /\ c_ = LF /\ ~IsSpace(LF) /\ LfIsToken /\ Lineno <= 0
  /\ Scanned(1, Lineno + 1, 0)
  /\ UNCHANGED <<loop, out>>

ScanControl ==                         \* "skipping the ASCII control-char"
  /\ AtItem /\ c_ = LF /\ ~IsSpace(LF) /\ ~LfIsToken
  /\ Scanned(1, Lineno, 0)
  /\ UNCHANGED <<loop, out>>

ScanId ==
  /\ AtItem /\ c_ \in IdChars
  /\ LET ends == {i \in 1..Len(ctx.line) :
                    ctx.line[i].k = "lit" \/ ctx.line[i].c \notin IdChars}
         n == IF ends = {} THEN Len(ctx.line) ELSE LeastOf(ends) - 1
     IN /\ Deliver(0, [i \in 1..n |-> ctx.line[i].c])
        /\ Scanned(n, Lineno, 0)
  /\ UNCHANGED loop

ScanOneChar ==
  /\ AtItem /\ ~IsSpace(c_) /\ c_ \notin IdChars
  /\ c_ = LF => LfIsToken /\ Lineno > 0
  /\ Deliver(0, <<c_>>)
  /\ Scanned(1, Lineno, NumLfs(<<c_>>))
  /\ UNCHANGED loop

LitDelta(u) == u.lfs

ScanLit ==
  /\ loop = "scan" /\ ctx.line # <<>> /\ ctx.line[1].k = "lit"
  /\ Deliver(ctx.line[1].q, ctx.line[1].body)
  /\ Scanned(1, Lineno, LitDelta(ctx.line[1]))
  /\ UNCHANGED loop

ScanRefill ==                          \* uls_clear_and_fillbuff()
  /\ loop = "scan" /\ ctx.line = <<>>
  /\ Scanned(0, Lineno, 0)
  /\ loop' = IF ctx.eof THEN "eof" ELSE "fill"
  /\ UNCHANGED out

Fill == FillFails \/ FillEof \/ FillSpace \/ FillComment \/ FillQuote
        \/ FillChar \/ SpaceRun \/ SpaceFails \/ CommentEnd \/ CommentSkip
        \/ CommentUnterminated \/ QuoteEnd \/ QuoteEscape \/ QuoteEscaped
        \/ QuoteChar \/ QuoteUnterminated
Scan == ScanSpace \/ ScanPrependedLf \/ ScanControl \/ ScanId \/ ScanOneChar
        \/ ScanLit \/ ScanRefill
Ended ==                               \* called again: "called again after I/O
  loop \in {"eof", "err"} /\ UNCHANGED fillerVars   \* failed!", or EOF again

FillerNext == Fill \/ Scan \/ Ended

(* The filler is one call, and the caller takes tokens as long as there    *)
(* are any.                                                                *)
FillerSpec == FillerInit /\ [][FillerNext]_fillerVars /\ WF_fillerVars(FillerNext)
-----------------------------------------------------------------------------
(* Wherever the buffer, the fills and the lexsegs happen to be cut, what is*)
(* delivered are the tokens of the text, in order and undivided; neither   *)
(* the buffer nor the table of lexsegs holds more than it has room for.    *)
Value(tok) == <<tok.q, tok.v>>
Values(toks) == [i \in DOMAIN toks |-> Value(toks[i])]
TokensInOrder ==
  /\ IsPrefix(Values(out), Values(Lexed(text).toks))
  /\ Len(ibuf.buf) <= InputBufSiz /\ NumLits(zbuf) + 1 <= LexsegsMax

(* uls_get_lineno() after uls_get_tok() is the line the token begins on,   *)
(* across comments and literals of several lines and prepended lines.      *)
LinesRight ==
  LET toks == Lexed(text).toks
  IN \A i \in DOMAIN out \cap DOMAIN toks : out[i].line = toks[i].line

(* So it is unless a mark that starts a comment or literal begins with the *)
(* line feed (the option column0), which then is not counted any more.     *)
LinesRightUnlessMark ==
  (\A m \in StartsOf(Commtypes, Quotetypes) : m[1] # LF) => LinesRight

(* uls_get_tok() reports EOF of a source only after all its tokens, never  *)
(* for a source that failed or that ends within a comment or a literal, and*)
(* it reports ERR only for those.                                          *)
TextEndsTruly ==
  LET promised == Lexed(text)
  IN /\ loop = "eof" =>
          Values(out) = Values(promised.toks) /\ ~promised.bad /\ ~ibuf.fails
     /\ loop = "err" => ibuf.fails \/ promised.bad

(* Every text is read to its end: no loop of the reader waits for bytes    *)
(* that will not come or comes back without having consumed any.           *)
ReadToEnd == <>(loop \in {"eof", "err"})

(* The tokens of the text come in order, each with the number of its line. *)
TokensWithLines == TokensInOrder /\ LinesRightUnlessMark
=============================================================================
