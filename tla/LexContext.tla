----------------------------- MODULE LexContext -----------------------------
(***************************************************************************)
(* The core of the analyser (src/src/uls_core.c): the stack of input       *)
(* contexts under one uls_lex_t and the protocol of uls_get_tok() over it. *)
(*                                                                         *)
(* A context is what uls_push() allocates.  Its source is a sequence of    *)
(* chunks, each what one call of the filler (fill_proc) puts in the line   *)
(* buffer, or Fail when that call fails (I/O error, unterminated comment   *)
(* or literal).  The buffered text is a sequence of units: a character     *)
(* that is a token of its own, a blank, a literal string (a lexseg), or a  *)
(* lexeme the scanner rejects with set_err_tok().  uls_get_tok() is the    *)
(* one call that loops over contexts, so it is modelled step by step (pc = *)
(* "get_tok" while it runs); the other calls are single actions.           *)
(*                                                                         *)
(* Not here: what a push-back does to the line buffer (a later peek copies *)
(* a token that was put back into a context of its own), token streams.    *)
(***************************************************************************)
EXTENDS Integers, Sequences, SequencesExt

CONSTANTS
  Chars,      \* one-character tokens
  Quotes,     \* literal-string tokens
  Sources,    \* the sources callers push, each a sequence of chunks
  MaxDepth,   \* bound: the depth of the context stack
  CallerMay   \* the unusual orders of calls the caller makes, see Habits

EOI  == "EOI"   \* end of all input
EOF  == "EOF"   \* end of one source
ERR  == "ERR"
NONE == "NONE"
Reserved == {EOI, EOF, ERR, NONE}
Tokens   == Chars \cup Quotes \cup Reserved
Results  == {"ok", "fail", "none", "blank"}   \* what the other calls return

Char(c) == [k |-> "char", t |-> c]
Lit(q)  == [k |-> "lit", t |-> q]
Blank   == [k |-> "blank", t |-> NONE]
Bad     == [k |-> "bad", t |-> ERR]
Units   == {Char(c) : c \in Chars} \cup {Lit(q) : q \in Quotes} \cup {Blank, Bad}
Fail    == <<>>
Chunks  == Seq(Units)

(* Orders of calls that the code allows but that only some runs make: a    *)
(* push while the current token is put back, is EOF, or is ERR, and        *)
(* reading by character when EOF has been delivered, or over a lexeme or a *)
(* source that is in error.                                                *)
Habits == {"push_over_ungot", "push_over_eof", "push_over_err",
           "getch_over_eof", "getch_over_err"}

ASSUME ConstantsOK ==
  /\ (Chars \cup Quotes) \cap (Reserved \cup Results) = {}
  /\ Chars \cap Quotes = {}
  /\ Sources \subseteq Seq(Chunks)
  /\ MaxDepth \in Nat \ {0}
  /\ CallerMay \subseteq Habits

VARIABLES
  stack,  \* the contexts, the current one first, the initial one last
  pc,     \* "idle", or "get_tok" while that call loops
  ret     \* the call that returned last, and its value

vars == <<stack, pc, ret>>

Context ==
  [kind : {"initial", "source"}, line : Chunks, src : Seq(Chunks),
   tok : Tokens, ungot : BOOLEAN, wantEof : BOOLEAN, err : BOOLEAN]

uls_init_context(kind, src, want) ==
  [kind |-> kind, line |-> <<>>, src |-> src, tok |-> NONE,
   ungot |-> FALSE, wantEof |-> want, err |-> FALSE]

ctx == Head(stack)
SetContext(c) == stack' = <<c>> \o Tail(stack)
IsInitial_OffByOne == Len(stack) <= 2  \* mutant: one context too early
IsInitial == Len(stack) = 1            \* uls_is_context_initial()
Below == IF IsInitial THEN stack ELSE Tail(stack)   \* after uls_pop()
Returns(call, val) == ret' = [call |-> call, val |-> val]

(* uls_fillbuff(): the three outcomes of the filler.                       *)
FillFails(c) == c.err \/ (c.src # <<>> /\ Head(c.src) = Fail)
FillEof(c)   == ~c.err /\ c.src = <<>>
uls_fillbuff_Retries(c) ==             \* mutant: reads on after a failure
  IF c.src = <<>> THEN [c EXCEPT !.line = <<>>]
  ELSE IF Head(c.src) = Fail
    THEN [c EXCEPT !.line = <<>>, !.src = Tail(@), !.tok = ERR, !.err = TRUE]
  ELSE [c EXCEPT !.line = Head(c.src), !.src = Tail(c.src)]
uls_fillbuff(c) ==
  IF c.err THEN c                      \* "called again after I/O failed"
  ELSE IF c.src = <<>> THEN [c EXCEPT !.line = <<>>]
  ELSE IF Head(c.src) = Fail
    THEN [c EXCEPT !.line = <<>>, !.tok = ERR, !.err = TRUE]
  ELSE [c EXCEPT !.line = Head(c.src), !.src = Tail(c.src)]

Init ==
  /\ stack = <<uls_init_context("initial", <<>>, FALSE)>>
  /\ pc = "idle"
  /\ ret = [call |-> "none", val |-> EOI]
-----------------------------------------------------------------------------
(* uls_get_tok(): the returns before the loop, then the loop.              *)

MakeEoi ==                             \* make_eoi_lexeme()
  /\ SetContext([ctx EXCEPT !.tok = EOI])
  /\ pc' = "idle" /\ Returns("get_tok", EOI)

GetTokSticky ==
  /\ pc = "idle" /\ ctx.tok \in {EOI, ERR}
  /\ Returns("get_tok", ctx.tok)
  /\ UNCHANGED <<stack, pc>>

GetTokUngot ==
  /\ pc = "idle" /\ ctx.tok \notin {EOI, ERR} /\ ctx.ungot
  /\ SetContext([ctx EXCEPT !.ungot = FALSE])
  /\ Returns("get_tok", ctx.tok)
  /\ UNCHANGED pc

GetTokEnter_NoPop ==                   \* mutant: stays at a delivered EOF
  /\ pc = "idle" /\ ctx.tok \notin {EOI, ERR} /\ ~ctx.ungot
  /\ pc' = "get_tok"
  /\ UNCHANGED <<stack, ret>>

GetTokEnter ==
  /\ pc = "idle" /\ ctx.tok \notin {EOI, ERR} /\ ~ctx.ungot
  /\ IF ctx.tok = EOF /\ IsInitial THEN MakeEoi
     ELSE /\ stack' = IF ctx.tok = EOF THEN Below ELSE stack
          /\ pc' = "get_tok"
          /\ UNCHANGED ret

(* One round of the loop: uls_gettok_raw() on the current context.         *)
AtText == \E i \in DOMAIN ctx.line : ctx.line[i] # Blank

ScanToken ==
  /\ pc = "get_tok"
  /\ \E n \in DOMAIN ctx.line :
       LET u == ctx.line[n]
       IN /\ u # Blank /\ \A i \in 1..n-1 : ctx.line[i] = Blank
          /\ SetContext([ctx EXCEPT !.line = SubSeq(@, n + 1, Len(@)),
                                    !.tok = u.t, !.err = @ \/ u = Bad])
          /\ Returns("get_tok", u.t)
  /\ pc' = "idle"

ScanRefill ==
  /\ pc = "get_tok" /\ ~AtText /\ ~FillFails(ctx) /\ ~FillEof(ctx)
  /\ SetContext(uls_fillbuff(ctx))
  /\ UNCHANGED <<pc, ret>>

(* The filler failed: gettok returns 0, and the loop looks at tok.         *)
ScanFailed ==
  /\ pc = "get_tok" /\ ~AtText /\ FillFails(ctx)
  /\ LET c == uls_fillbuff(ctx)
     IN /\ SetContext(c)
        /\ IF c.tok = NONE THEN UNCHANGED <<pc, ret>>   \* continue;
           ELSE pc' = "idle" /\ Returns("get_tok", c.tok)

ScanEof ==
  /\ pc = "get_tok" /\ ~AtText /\ FillEof(ctx)
  /\ IF ctx.wantEof
       THEN /\ SetContext([uls_fillbuff(ctx) EXCEPT !.tok = EOF])
            /\ pc' = "idle" /\ Returns("get_tok", EOF)
     ELSE IF IsInitial THEN MakeEoi
     ELSE stack' = Below /\ UNCHANGED <<pc, ret>>

GetTokCall == GetTokSticky \/ GetTokUngot \/ GetTokEnter
GetTokLoop == ScanToken \/ ScanRefill \/ ScanFailed \/ ScanEof
-----------------------------------------------------------------------------
(* uls_unget_tok(uls_tok(), NULL), that is uls_unget_current(): only the   *)
(* flag TOKEN_UNGOT.  Callers put back the token they just got.            *)
UngetCurrent ==
  /\ pc = "idle" /\ ret.call = "get_tok" /\ ~ctx.ungot
  /\ SetContext([ctx EXCEPT !.ungot = TRUE])
  /\ Returns("unget", ctx.tok)
  /\ UNCHANGED pc

(* What the caller's habits allow when it pushes over the context c.       *)
EofDelivered(c) == c.wantEof /\ c.tok \in {EOF, EOI}
MayPushOver(c) ==
  /\ c.ungot => "push_over_ungot" \in CallerMay
  /\ EofDelivered(c) => "push_over_eof" \in CallerMay
  /\ c.tok = ERR => "push_over_err" \in CallerMay

(* uls_push(), a new source and the first fill.  When that fill fails,     *)
(* uls_push_line() keeps the failed context; uls_push_isrc(), which leaves *)
(* WANT_EOFTOK as uls_push() inherits it, and uls_push_istream() pop it.   *)
Filled(src, want) == uls_fillbuff(uls_init_context("source", src, want))

PushLine(below, src, want) ==
  LET c == Filled(src, want)
  IN /\ stack' = <<c>> \o below
     /\ Returns("push", IF c.err THEN "fail" ELSE "ok")

PushStream(below, src, want) ==
  LET c == Filled(src, want)
  IN IF c.err THEN stack' = below /\ Returns("push", "fail")
     ELSE stack' = <<c>> \o below /\ Returns("push", "ok")

PushOnto(below, src) ==
  /\ pc = "idle" /\ Len(below) < MaxDepth /\ MayPushOver(Head(below))
  /\ \/ \E want \in BOOLEAN : PushLine(below, src, want)
     \/ \E want \in BOOLEAN : PushStream(below, src, want)  \* uls_push_istream
     \/ PushStream(below, src, Head(below).wantEof)         \* uls_push_isrc
  /\ UNCHANGED pc

Push == \E src \in Sources : PushOnto(stack, src)
Set  == \E src \in Sources : PushOnto(Below, src)

Pop ==
  /\ pc = "idle" /\ ~IsInitial
  /\ stack' = Below /\ Returns("pop", "ok")
  /\ UNCHANGED pc

PopAll ==                              \* uls_pop_all()
  /\ pc = "idle" /\ ~IsInitial
  /\ stack' = <<Last(stack)>> /\ Returns("pop", "ok")
  /\ UNCHANGED pc

WantEof(want) ==                       \* uls_want_eof(), uls_unwant_eof()
  /\ pc = "idle"
  /\ SetContext([ctx EXCEPT !.wantEof = want])
  /\ Returns("want_eof", "ok")
  /\ UNCHANGED pc

(* uls_peek_ch() refills an empty line; a failed refill latches ERR.       *)
Peeked_Drops(c) == uls_fillbuff(c)     \* mutant: refills over unread text
Peeked(c) == IF c.line = <<>> THEN uls_fillbuff(c) ELSE c

PeekCh ==
  /\ pc = "idle" /\ ~ctx.ungot
  /\ SetContext(Peeked(ctx))
  /\ Returns("peek_ch", "ok")
  /\ UNCHANGED pc

(* uls_get_ch(): peek, step over a character (never over a literal), and   *)
(* forget the current token whatever it was.                               *)
GetCh ==
  /\ pc = "idle" /\ ~ctx.ungot
  /\ LET c == Peeked(ctx)
         taken == c.line # <<>> /\ Head(c.line).k # "lit"
     IN /\ ctx.tok = ERR \/ c.err \/ (taken /\ Head(c.line) = Bad)
             => "getch_over_err" \in CallerMay
        /\ EofDelivered(ctx) => "getch_over_eof" \in CallerMay
        /\ SetContext([c EXCEPT !.line = IF taken THEN Tail(@) ELSE @,
                                !.tok = NONE])
        /\ Returns("get_ch", IF ~taken THEN "none"
                             ELSE IF Head(c.line) \in {Blank, Bad} THEN "blank"
                             ELSE Head(c.line).t)
  /\ UNCHANGED pc

Call == GetTokCall \/ UngetCurrent \/ Push \/ Set \/ Pop \/ PopAll
        \/ (\E want \in BOOLEAN : WantEof(want)) \/ PeekCh \/ GetCh

Next == GetTokLoop \/ Call

(* One thread runs a call to its end, and nothing else happens meanwhile.  *)
Spec == Init /\ [][Next]_vars /\ WF_vars(GetTokLoop)
-----------------------------------------------------------------------------
(* Types, and the shape of the stack: the initial context is at the bottom *)
(* and nowhere else, and it never has text or a source of its own.         *)
TypeOK ==
  /\ stack \in Seq(Context) /\ stack # <<>>
  /\ pc \in {"idle", "get_tok"}
  /\ ret.val \in Tokens \cup Results

(* uls_get_tok() reports EOI only once every source that was pushed has    *)
(* been popped, and only as the token of the initial context, which keeps  *)
(* no text: nothing can be left behind unread when the caller stops.       *)
EoiAtBottomOnly ==
  \A i \in 1..Len(stack) :
    /\ stack[i].kind = "initial" <=> i = Len(stack)
    /\ stack[i].tok = EOI => i = Len(stack)
    /\ i = Len(stack) => stack[i].line = <<>> /\ stack[i].src = <<>>

(* What uls_get_tok() returned is what uls_tok() and uls_lexeme() report   *)
(* of the current context, however many contexts the call popped.          *)
ReturnedIsCurrent ==
  pc = "idle" /\ ret.call = "get_tok" => ctx.tok = ret.val

(* Once a filler failed in a context (or its scanner rejected a lexeme),   *)
(* no call reads that context's source again.                              *)
FailedSourceNotRead ==
  [][~(Push \/ Set) =>
       \A d \in 0..(Len(stack) - 1) :
         d < Len(stack') /\ stack[Len(stack) - d].err =>
           stack'[Len(stack') - d].src = stack[Len(stack) - d].src]_vars

(* uls_unget_current() lets a caller get the current token again: a token  *)
(* that was put back is the next one its context delivers, whatever is     *)
(* pushed over it meanwhile, unless the caller dismisses the context.  The *)
(* loop of uls_get_tok() breaks that: it looks at TOKEN_UNGOT before it    *)
(* begins, and not when it pops back to a context.                         *)
PutBackIsNext ==
  [][~(Pop \/ PopAll \/ Set) =>
       \A d \in 0..(Len(stack) - 1) :
         LET c == stack[Len(stack) - d]
             e == stack'[Len(stack') - d]
         IN c.ungot /\ c.tok \notin {EOI, ERR} =>
              /\ d < Len(stack') /\ e.tok = c.tok
              /\ e.ungot \/ (ret'.call = "get_tok" /\ ret'.val = c.tok)]_vars

(* The tokens of a context that uls_get_tok() has still to deliver: those  *)
(* of its text, up to the first error, ...                                 *)
Joined(n, piece(_)) ==
  LET upto[i \in 0..n] == IF i = 0 THEN <<>> ELSE upto[i - 1] \o piece(i)
  IN upto[n]
Text(c) ==
  c.line \o Joined(Len(c.src),
                   LAMBDA i : IF c.src[i] = Fail THEN <<Bad>> ELSE c.src[i])
UptoError(u) ==
  IF \E i \in DOMAIN u : u[i] = Bad
    THEN SubSeq(u, 1, CHOOSE i \in DOMAIN u :
                        u[i] = Bad /\ \A j \in 1..i-1 : u[j] # Bad)
    ELSE u
Delivered(text, eof) ==
  LET u == UptoError(text)
  IN Joined(Len(u), LAMBDA i : IF u[i] = Blank THEN <<>> ELSE <<u[i].t>>)
     \o (IF eof /\ (u = <<>> \/ Last(u) # Bad) THEN <<EOF>> ELSE <<>>)

(* ... after the token that was put back, and before EOF, if it is (again) *)
(* to come.                                                                *)
Ends(c, scanned) == c.wantEof /\ (c.tok \in {EOF, EOI} => scanned)
Pending(c, scanned) ==
  IF c.tok = ERR THEN <<ERR>>
  ELSE (IF c.ungot /\ c.tok # EOI THEN <<c.tok>> ELSE <<>>)
       \o Delivered(Text(c), Ends(c, scanned))

(* A context that is popped back to is scanned, whatever token it has.     *)
Queue(s, scanned) ==
  Joined(Len(s), LAMBDA i : Pending(s[i], i > 1 \/ scanned))
Promise == INSTANCE TokenQueue WITH pending <- Queue(stack, pc = "get_tok")

(* Whatever the caller stacks, puts back, dismisses or reads by character, *)
(* uls_get_tok() delivers each pending token once and in order, a token    *)
(* that was put back first, the EOF of a source (when wanted) after its    *)
(* last token, ERR for ever once a source failed, and EOI at the end. EOF  *)
(* comes a second time only if the caller pushed over it or read on.       *)
DeliversInOrder == Promise!Spec

(* Each call of uls_get_tok() returns, and a caller that keeps calling it, *)
(* as the loop of every tool does, and at last stops adding input (a       *)
(* get_ch after EOF has EOF come again), gets to EOI or is told of ERR.    *)
LoopSpec == Spec /\ WF_vars(GetTokCall)
Adds == Push \/ Set \/ UngetCurrent \/ (\E want \in BOOLEAN : WantEof(want))
        \/ (EofDelivered(ctx) /\ GetCh)
LoopEnds ==
  /\ pc = "get_tok" ~> pc = "idle"
  /\ (<>[][~Adds]_vars) => []<>(ret.val \in {EOI, ERR})
=============================================================================
