------------------------------ MODULE PushBack ------------------------------
(***************************************************************************)
(* Putting tokens, text and literals back (src/src/unget.c), down to the   *)
(* line buffer they are put into.                                          *)
(*                                                                         *)
(* A context keeps the text to scan in zbuf1 (mem below) as segments that  *)
(* a NUL separates; after the segment i comes a literal, in slot i, and    *)
(* the segment i+1 starts where slot i+1 says.  A push-back makes, on top  *)
(* of the context of a source, an "unget" context whose text is behind a   *)
(* gap: later push-backs fill the gap from its end.  When the gap is used  *)
(* up, or a literal is put back, a slot before i is taken.                 *)
(*                                                                         *)
(* The buffers of sources are filled (RawFiller does that), tokens are     *)
(* words of one-character letters, a position 0 stands for cnst_nilstr,    *)
(* and a line ends at its NUL (where the scanner stops: in the code the    *)
(* segment behind a literal put back has line_end at its first byte).      *)
(* Not here: line numbers, contexts that read a token stream.              *)
(***************************************************************************)
EXTENDS Integers, Sequences, SequencesExt

CONSTANTS
  SP, NUL,           \* characters with a meaning
  WordChars,         \* characters that make words
  Literals,          \* literals, each an item of its own
  EOF, EOI, NONE,    \* reserved tokens, each a sequence of one item
  Texts,             \* what callers put back with uls_unget_str()
  InitialStacks,     \* the contexts at first, see Source
  Gap,               \* ULS_UNGETS_BUFSIZ (256)
  SegMax,            \* ULS_LEXSEGS_MAX
  Fresh,             \* the bytes of memory that no code has written
  MaxPuts,           \* bound: the push-backs of a behaviour
  CallerMay          \* the unusual orders of calls the caller makes

Habits == {"overfill", "literal"}

ASSUME PushBackConstants ==
  /\ SegMax \in Nat \ {0, 1} /\ Gap \in Nat \ {0} /\ CallerMay \subseteq Habits
  /\ Texts \subseteq Seq(WordChars \cup {SP}) \ {<<>>}
  /\ Fresh \in WordChars \cup {SP, NUL}
  /\ SP \notin WordChars /\ NUL \notin WordChars \cup {SP}
  /\ Literals \cap (WordChars \cup {SP, NUL}) = {}

(* What a slot says of the literal behind its segment: offset2 < 0, a      *)
(* segment without token (offset2 = 0, tokdef_vx nil), or the literal.     *)
NoLit  == "offset2 < 0"
NilTok == "tokdef_vx = nil"
Slot(off, q) == [off |-> off, q |-> q]

ASSUME TokensDiffer ==
  /\ {NoLit, NilTok} \cap Literals = {}
  /\ \A t \in {EOF, EOI, NONE} :
       t = <<t[1]>> /\ t[1] \notin WordChars \cup Literals \cup {SP, NUL}
  /\ EOF \notin {EOI, NONE} /\ EOI # NONE

Item == WordChars \cup Literals \cup {SP, NUL, EOF[1], EOI[1], NONE[1]}
Context ==
  [kind : {"initial", "line", "unget"}, mem : Seq(Item), zlen : Nat,
   line : Nat, lptr : Nat, lend : Nat,
   slot : [0..SegMax -> [off : Nat, q : Literals \cup {NoLit, NilTok}]],
   i : 0..SegMax, n : 0..SegMax, want : BOOLEAN, tok : Seq(Item), ungot : BOOLEAN]

(* A source as the raw filler leaves it: the first segment at hand, n      *)
(* literals behind as many segments, each of which begins behind a NUL and *)
(* ends with one.  The lowest context delivers no EOF.                     *)
Filled(c) ==
  /\ c \in Context /\ c.kind # "unget" /\ c.tok = NONE /\ ~c.ungot
  /\ c.mem \in Seq(WordChars \cup {SP, NUL})
  /\ c.i = 0 /\ c.line = 1 /\ c.lptr = 1 /\ c.zlen = Len(c.mem)
  /\ c.lend \in 1..c.zlen /\ c.mem[c.lend] = NUL
  /\ \A p \in 1..c.lend - 1 : c.mem[p] # NUL
  /\ \A k \in 0..SegMax : c.slot[k].off < c.zlen
  /\ \A k \in 0..c.n : \E e \in c.slot[k].off + 1..c.zlen : e >= c.lend /\ c.mem[e] = NUL
  /\ \A k \in 0..c.n - 1 : c.slot[k].q \in Literals

ASSUME SourcesFilled ==
  \A st \in InitialStacks :
    /\ st \in Seq({c \in Context : Filled(c)}) /\ st # <<>>
    /\ ~st[Len(st)].want

VARIABLES
  stack,   \* the contexts, the current one first
  pc,      \* "idle", or "gettok" while uls_get_tok() loops
  ret,     \* the call that returned last, and its value
  puts,    \* how many push-backs there were
  crashed  \* a token of a slot without one was looked at

vars == <<stack, pc, ret, puts, crashed>>

ctx == Head(stack)
Set(c) == stack' = <<c>> \o Tail(stack)
Returns(call, val) == ret' = [call |-> call, val |-> val] /\ pc' = "idle"
IsUnget(c) == c.kind = "unget"

At(c, p) == IF p = 0 THEN NUL ELSE c.mem[p]
(* The end of the text at p: the next NUL.                                 *)
EndOfText(c, p) ==
  IF p = 0 THEN 0
  ELSE CHOOSE e \in p..Len(c.mem) :
         c.mem[e] = NUL /\ \A i \in p..e - 1 : c.mem[i] # NUL
TextAt(c, p) == IF p = 0 THEN <<>> ELSE SubSeq(c.mem, p, EndOfText(c, p) - 1)

(* Memory of len bytes behind k, as the allocator gives it.                *)
Grown(mem, k, len) == [p \in 1..IF Len(mem) > k + len THEN Len(mem) ELSE k + len |->
                         IF p <= Len(mem) THEN mem[p] ELSE Fresh]
Written(mem, p, txt) ==
  [i \in DOMAIN mem |-> IF i \in p..p + Len(txt) - 1 THEN txt[i - p + 1] ELSE mem[i]]

(* A source whose text, with the literals qs after the first segments, the *)
(* raw filler has put in the buffer.                                       *)
Source(kind, want, segs, qs) ==
  LET off[k \in 1..Len(segs)] ==
        IF k = 1 THEN 0 ELSE off[k - 1] + Len(segs[k - 1]) + 1
      mem == FlattenSeq([k \in DOMAIN segs |-> Append(segs[k], NUL)])
  IN [kind |-> kind, mem |-> mem, zlen |-> Len(mem),
      line |-> 1, lptr |-> 1, lend |-> Len(segs[1]) + 1,
      slot |-> [k \in 0..SegMax |->
                  IF k < Len(qs) THEN Slot(off[k + 1], qs[k + 1])
                  ELSE IF k = Len(qs) THEN Slot(off[k + 1], NoLit)
                  ELSE Slot(0, NoLit)],
      i |-> 0, n |-> Len(qs), want |-> want, tok |-> NONE, ungot |-> FALSE]

(* __push_and_alloc_line_right(), before the allocation: the context that  *)
(* uls_push() makes, its input at its end.                                 *)
UngetContext_OneBefore(i) ==           \* mutant: text takes the slot of a literal
  [kind |-> "unget", mem |-> <<>>, zlen |-> 0, line |-> 0, lptr |-> 0, lend |-> 0,
   slot |-> [k \in 0..SegMax |-> Slot(0, NoLit)],
   i |-> SegMax - 1, n |-> SegMax, want |-> FALSE, tok |-> NONE, ungot |-> FALSE]
UngetContext(i) ==
  [kind |-> "unget", mem |-> <<>>, zlen |-> 0, line |-> 0, lptr |-> 0, lend |-> 0,
   slot |-> [k \in 0..SegMax |-> Slot(0, NoLit)],
   i |-> i, n |-> SegMax, want |-> FALSE, tok |-> NONE, ungot |-> FALSE]

(* __alloc_lexseg_and_zbuf(): a gap and len bytes at the end of zbuf1 are  *)
(* the segment that is read next; slot i is about it.                      *)
Alloc(c, len, q) ==
  LET k1   == c.zlen
      line == k1 + 1
      lend == line + Gap + len
  IN [c EXCEPT !.mem  = Written(Grown(@, k1, Gap + len + 1), lend, <<NUL>>),
               !.zlen = k1 + Gap + len + 1,
               !.line = line, !.lptr = line + Gap, !.lend = lend,
               !.slot[c.i] = Slot(k1, q)]

Init ==
  /\ stack \in InitialStacks
  /\ pc = "idle" /\ puts = 0 /\ crashed = FALSE
  /\ ret = [call |-> "none", val |-> NONE]
-----------------------------------------------------------------------------
(* uls_get_tok(): the returns before the loop.                             *)
GetTokSticky == pc = "idle" /\ ctx.tok = EOI
                /\ Returns("get_tok", EOI) /\ UNCHANGED <<stack, puts, crashed>>

GetTokUngot ==
  /\ pc = "idle" /\ ctx.tok # EOI /\ ctx.ungot
  /\ Set([ctx EXCEPT !.ungot = FALSE]) /\ Returns("get_tok", ctx.tok)
  /\ UNCHANGED <<puts, crashed>>

GetTok ==
  /\ pc = "idle" /\ ctx.tok # EOI /\ ~ctx.ungot
  /\ stack' = IF ctx.tok = EOF THEN Tail(stack) ELSE stack
  /\ pc' = "gettok" /\ UNCHANGED <<ret, puts, crashed>>

(* uls_gettok_raw(): blanks are skipped, then a word is taken ...          *)
NonBlank(c) == CHOOSE p \in c.lptr..EndOfText(c, c.lptr) :
                 At(c, p) # SP /\ \A i \in c.lptr..p - 1 : At(c, i) = SP
AtNul(c) == At(c, NonBlank(c)) = NUL

ScanWord ==
  /\ pc = "gettok" /\ ~AtNul(ctx)
  /\ \E e \in NonBlank(ctx) + 1..EndOfText(ctx, ctx.lptr) :
       LET w == SubSeq(ctx.mem, NonBlank(ctx), e - 1)
       IN /\ ToSet(w) \subseteq WordChars /\ At(ctx, e) \notin WordChars
          /\ Set([ctx EXCEPT !.lptr = e, !.tok = w])
          /\ Returns("get_tok", w)
  /\ UNCHANGED <<puts, crashed>>

(* ... or, at the end of a segment, the literal of its slot, if it has one *)
(* (a slot with neither makes the program fail), and the next segment.     *)
NextSegment(c) ==
  LET p == c.slot[c.i + 1].off + 1
  IN [c EXCEPT !.i = @ + 1, !.line = p, !.lptr = p, !.lend = EndOfText(c, p)]

ScanSegmentEnd ==
  /\ pc = "gettok" /\ AtNul(ctx) /\ ctx.i < ctx.n
  /\ LET q == ctx.slot[ctx.i].q
     IN CASE q = NoLit  -> Set(NextSegment(ctx)) /\ UNCHANGED <<pc, ret, crashed>>
          [] q = NilTok -> crashed' = TRUE /\ UNCHANGED <<stack, pc, ret>>
          [] OTHER      -> /\ Set([NextSegment(ctx) EXCEPT !.tok = <<q>>])
                           /\ Returns("get_tok", <<q>>) /\ UNCHANGED crashed
  /\ UNCHANGED puts

(* ... or, when all segments are read, the input is asked for more, and    *)
(* has none: EOF is delivered where it is wanted, else the context popped. *)
ClearAndFill(c) ==
  [c EXCEPT !.zlen = 0, !.n = 0, !.line = 0, !.lptr = 0, !.lend = 0,
            !.mem = Written(Grown(@, 0, 1), 1, <<NUL>>), !.slot[0] = Slot(0, NoLit)]

ScanFill ==
  /\ pc = "gettok" /\ AtNul(ctx) /\ ctx.i >= ctx.n
  /\ IF ctx.want
       THEN Set([ClearAndFill(ctx) EXCEPT !.tok = EOF]) /\ Returns("get_tok", EOF)
     ELSE IF Len(stack) = 1
       THEN Set([ClearAndFill(ctx) EXCEPT !.tok = EOI]) /\ Returns("get_tok", EOI)
     ELSE stack' = Tail(stack) /\ UNCHANGED <<pc, ret>>
  /\ UNCHANGED <<puts, crashed>>
-----------------------------------------------------------------------------
(* __uls_unget_str(): room for the text in front of what is still to read. *)
(* The rest of the word at hand goes with it to a new segment.             *)
WordRest_Nothing(c) == c.lptr          \* mutant: the rest of the word stays behind
WordRest(c) ==
  LET stop == {p \in c.lptr..c.lend : p = c.lend \/ At(c, p) = SP}
  IN CHOOSE p \in stop : \A r \in stop : p <= r
Fits(c, len) == IsUnget(c) /\ c.line + len <= c.lptr

WithText(st, txt) ==
  LET c     == Head(st)
      moved == IF c.lptr = 0 THEN <<>> ELSE SubSeq(c.mem, c.lptr, WordRest(c) - 1)
      left  == [c EXCEPT !.lptr = IF c.lptr = 0 THEN 0 ELSE WordRest(c)]
      Put(d, t) == [d EXCEPT !.mem = Written(@, d.lptr, t)]
  IN IF Fits(c, Len(txt))
       THEN <<Put([c EXCEPT !.lptr = @ - Len(txt)], txt)>> \o Tail(st)
     ELSE IF IsUnget(c) /\ c.i > 0
       THEN <<Put(Alloc([left EXCEPT !.i = @ - 1], Len(txt) + Len(moved), NilTok),
                  txt \o moved)>> \o Tail(st)
     ELSE <<Put(Alloc(UngetContext(SegMax), Len(txt) + Len(moved), NilTok), txt \o moved),
            left>> \o Tail(st)

(* __uls_unget_quote(): the literal takes the slot before i.               *)
WithQuote(st, q) ==
  LET c == Head(st)
  IN IF IsUnget(c) /\ c.i > 0
       THEN <<Alloc([c EXCEPT !.i = @ - 1], 0, q)>> \o Tail(st)
     ELSE <<[Alloc(UngetContext(SegMax - 1), 0, q) EXCEPT !.slot[SegMax] = Slot(0, NoLit)]>>
          \o st

(* __uls_unget_current(): the token that was put back becomes text.        *)
Melt(st) ==
  LET c == [Head(st) EXCEPT !.ungot = FALSE]
      s == <<c>> \o Tail(st)
  IN IF ~Head(st).ungot THEN st
     ELSE IF Len(c.tok) = 1 /\ c.tok[1] \in Literals THEN WithQuote(s, c.tok[1])
     ELSE WithText(s, IF c.tok = EOI THEN <<SP>> ELSE Append(c.tok, SP))

(* What keeps text apart from what the gap holds: when the gap is used up, *)
(* nothing may be left to read in this context.  A literal is kept apart   *)
(* by nothing: behind it comes the gap, from its first byte.               *)
SafeText(c, len) ==
  \/ ~IsUnget(c)
  \/ IF Fits(c, len) THEN c.line + len < c.lptr \/ c.i >= c.n
     ELSE c.i = 0 \/ (c.i > c.n /\ At(c, c.lptr) = NUL)
CallerKeeps(st, q, len) ==
  IF q = NONE THEN "overfill" \in CallerMay \/ SafeText(Head(st), len)
  ELSE "literal" \in CallerMay

(* The lexeme of an EOF that was put back would become text, and a source  *)
(* whose EOF was delivered ends again: callers put nothing over them.      *)
MeltKept == LET t == ctx.tok
                q == IF Len(t) = 1 /\ t[1] \in Literals THEN t ELSE NONE
            IN /\ t # EOF
               /\ ctx.ungot => CallerKeeps(stack, q, Len(IF t = EOI THEN <<>> ELSE t) + 1)
MayPut == pc = "idle" /\ puts < MaxPuts /\ MeltKept

UngetCurrent ==                        \* uls_unget_current(), of what was got
  /\ pc = "idle" /\ puts < MaxPuts /\ ret.call = "get_tok" /\ ~ctx.ungot
  /\ Set([ctx EXCEPT !.ungot = TRUE]) /\ Returns("unget", ctx.tok)
  /\ puts' = puts + 1 /\ UNCHANGED crashed

UngetText(call, txt) ==
  /\ MayPut /\ CallerKeeps(Melt(stack), NONE, Len(txt))
  /\ stack' = WithText(Melt(stack), txt) /\ puts' = puts + 1
  /\ Returns("put", txt) /\ UNCHANGED crashed

UngetStr == \E txt \in Texts : UngetText("uls_unget_str", txt)
UngetCh  == \E ch \in WordChars \cup {SP} : UngetText("uls_unget_ch", <<ch>>)
(* uls_unget_tok(NONE, lxm) puts the text and a blank, any other token a   *)
(* literal that delivers it.                                               *)
UngetTokText == \E txt \in Texts : UngetText("uls_unget_tok", Append(txt, SP))
UngetTok == \E q \in Literals :
  /\ MayPut /\ CallerKeeps(Melt(stack), <<q>>, 0)
  /\ stack' = WithQuote(Melt(stack), q) /\ puts' = puts + 1
  /\ Returns("put", <<q>>) /\ UNCHANGED crashed

(* uls_peek_ch(): the next character, or none before a literal and at the  *)
(* end of the buffer, which is then filled; the context is not popped.     *)
Peeked(st) ==
  LET c == Head(st)
  IN IF At(c, c.lptr) = NUL /\ c.i >= c.n THEN <<ClearAndFill(c)>> \o Tail(st) ELSE st
PeekFails(st) == LET c == Head(st)
                 IN At(c, c.lptr) = NUL /\ c.i < c.n /\ c.slot[c.i].q \in {NoLit, NilTok}
CharAt(st) == LET c == Head(st) IN IF At(c, c.lptr) = NUL THEN NONE ELSE <<At(c, c.lptr)>>

PeekOrGet(call, after) ==
  /\ pc = "idle" /\ MeltKept
  /\ LET st == Melt(stack)
     IN IF PeekFails(st) THEN crashed' = TRUE /\ UNCHANGED <<stack, pc, ret, puts>>
        ELSE /\ stack' = after /\ Returns(call, CharAt(st))
             /\ UNCHANGED <<puts, crashed>>

PeekCh == PeekOrGet("peek_ch", Peeked(Melt(stack)))
(* uls_get_ch() goes on by the character and forgets the last token.       *)
After(st) == LET c == Head(st)
             IN <<[c EXCEPT !.lptr = IF At(c, @) = NUL THEN @ ELSE @ + 1,
                            !.tok = NONE]>> \o Tail(st)
GetCh == PeekOrGet("get_ch", After(Peeked(Melt(stack))))
-----------------------------------------------------------------------------
Next == GetTokSticky \/ GetTokUngot \/ GetTok \/ ScanWord \/ ScanSegmentEnd \/ ScanFill
        \/ UngetCurrent \/ UngetStr \/ UngetCh \/ UngetTokText \/ UngetTok
        \/ PeekCh \/ GetCh

Spec == Init /\ [][Next]_vars
-----------------------------------------------------------------------------
(* A caller that fills no gap, whatever text and literals it puts back and *)
(* whatever memory holds, never meets a segment without a token            *)
(* (uls_core.c:990, unget.c:320), and every context and its slots always   *)
(* point into its buffer.                                                  *)
NoCrash ==
  /\ ~crashed
  /\ \A k \in DOMAIN stack :
       LET c == stack[k]
       IN /\ c.line \in 0..c.lptr /\ c.lptr <= c.lend
          /\ c.lend <= Len(c.mem) /\ c.zlen <= Len(c.mem)
          /\ \A s \in 0..SegMax : c.slot[s].off <= Len(c.mem)

(* What is still to come from a context: the text at lptr, then the        *)
(* literals and the texts of the segments after it.                        *)
Behind(c, k) ==
  (IF c.slot[k].q \in {NoLit, NilTok} THEN <<>> ELSE <<c.slot[k].q>>)
  \o TextAt(c, c.slot[k + 1].off + 1)
Segs(c) == IF c.i < c.n THEN FlattenSeq([k \in 1..c.n - c.i |-> Behind(c, c.i + k - 1)])
           ELSE <<>>
Drained(c) == IF IsUnget(c) /\ c.n = 0 THEN <<SP>> ELSE <<>>   \* peeked at, ended
Ending(c, top) == IF c.want /\ ~(top /\ c.tok = EOF) THEN EOF ELSE <<>>
Coming(c, top) == TextAt(c, c.lptr) \o (Segs(c) \o (Drained(c) \o Ending(c, top)))

ToCome(st) == FlattenSeq([k \in DOMAIN st |-> Coming(st[k], k = 1)])
Kept(st)   == IF Head(st).ungot THEN Head(st).tok ELSE NONE

TQ == INSTANCE TextQueue WITH
        coming <- ToCome(stack), put <- Kept(stack), busy <- pc = "gettok"

(* The documents say of a token or a string put back that it comes again,  *)
(* in front of the input: it is read before what was to come, in the order *)
(* of a stack, whole and once, and nothing else is read.  A literal breaks *)
(* that: behind it the code goes on at the first byte of the gap, which    *)
(* nothing has written.                                                    *)
PutBackFirst == TQ!Spec

(* It is so but for that, whatever memory holds: of texts, characters and  *)
(* tokens put back, kept in the gap, in a new context or as the current    *)
(* token, and again when the contexts with a literal put back are gone.    *)
LiteralPutBack(st) ==
  \E k \in DOMAIN st : IsUnget(st[k]) /\ \E s \in 0..SegMax : st[k].slot[s].q \in Literals
DeliversPutBack ==
  /\ TQ!Init
  /\ [][LiteralPutBack(stack) \/ LiteralPutBack(stack') \/ TQ!Next]_(TQ!vars)
=============================================================================
