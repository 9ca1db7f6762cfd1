------------------------- MODULE LexContext_proofs --------------------------
(***************************************************************************)
(* What LexContext promises for every choice of its constants: any tokens, *)
(* any sources (of any length), any depth of the stack and every habit of  *)
(* the caller, but for the two that the refinement excludes.               *)
(*                                                                         *)
(* First the invariants and the action properties, then the refinement:    *)
(* uls_get_tok() and the calls around it implement the queue of tokens to  *)
(* come (TokenQueue).  Each step takes the front of the queue, changes it  *)
(* as TokenQueue allows, or leaves it alone (NextStep), and the queue is   *)
(* empty at first (InitStep).  The queue is computed from the state: the   *)
(* texts of a context, flattened and cut at the first error, context after *)
(* context.  So its proof has three layers: what a text delivers when a    *)
(* unit is taken off it or a chunk is read into it (data only), what a     *)
(* context and a stack have to come when one context changes, is pushed or *)
(* popped, and the calls.                                                  *)
(***************************************************************************)
EXTENDS LexContext, Flattening

(* Sequences of tokens put behind each other.                              *)
LEMMA TokensAssociate ==
  \A v, w, x \in Seq(Tokens) : v \o w \in Seq(Tokens) /\ (v \o w) \o x = v \o (w \o x)
<1> SUFFICES ASSUME NEW v \in Seq(Tokens), NEW w \in Seq(Tokens), NEW x \in Seq(Tokens)
             PROVE  v \o w \in Seq(Tokens) /\ (v \o w) \o x = v \o (w \o x)
  OBVIOUS
<1>1. v \o w \in Seq(Tokens)
  BY ConcatProperties
<1>2. (v \o w) \o x = v \o (w \o x)
  BY Associative
<1> QED
  BY <1>1, <1>2

(* Pushing c on a sequence.                                                *)
LEMMA ConsProperties ==
  ASSUME NEW S, NEW s \in Seq(S), NEW c \in S
  PROVE  LET t == <<c>> \o s
         IN /\ t \in Seq(S) /\ t # <<>>
            /\ Len(t) = Len(s) + 1
            /\ t[1] = c /\ Head(t) = c
            /\ \A i \in 1..Len(s) : t[i + 1] = s[i]
<1>1. <<c>> \in Seq(S) /\ Len(<<c>>) = 1 /\ <<c>>[1] = c
  OBVIOUS
<1>2. /\ <<c>> \o s \in Seq(S) /\ Len(<<c>> \o s) = Len(s) + 1
      /\ \A i \in 1..Len(s) + 1 : (<<c>> \o s)[i] = IF i <= 1 THEN <<c>>[i] ELSE s[i - 1]
  BY <1>1, ConcatProperties
<1>3. Len(s) \in Nat
  OBVIOUS
<1> QED
  BY <1>1, <1>2, <1>3

(* Replacing the first element of a sequence, as SetContext() does.        *)
LEMMA ReplaceHead ==
  ASSUME NEW S, NEW s \in Seq(S), s # <<>>, NEW c \in S
  PROVE  LET t == <<c>> \o Tail(s)
         IN /\ t \in Seq(S) /\ t # <<>>
            /\ Len(t) = Len(s)
            /\ t[1] = c /\ Head(t) = c
            /\ \A i \in 2..Len(s) : t[i] = s[i]
<1>1. /\ Tail(s) \in Seq(S) /\ Len(Tail(s)) = Len(s) - 1
      /\ \A i \in 1..Len(Tail(s)) : Tail(s)[i] = s[i + 1]
  BY HeadTailProperties
<1>2. Len(s) \in Nat \ {0}
  BY EmptySeq
<1> QED
  BY <1>1, <1>2, ConsProperties
-----------------------------------------------------------------------------
(* The stacks that are reachable, with EoiAtBottomOnly as a condition on   *)
(* one stack so that it can be shown of the stack that follows.            *)
Good(s) ==
  /\ s \in Seq(Context) /\ s # <<>>
  /\ \A i \in 1..Len(s) :
       /\ s[i].kind = "initial" <=> i = Len(s)
       /\ s[i].tok = EOI => i = Len(s)
       /\ i = Len(s) => s[i].line = <<>> /\ s[i].src = <<>>

(* The context c may take the place of the current one in s.               *)
Replaces(c, s) ==
  /\ c \in Context
  /\ c.kind = Head(s).kind
  /\ c.tok = EOI => Len(s) = 1
  /\ Len(s) = 1 => c.line = <<>> /\ c.src = <<>>

IInv ==
  /\ Good(stack)
  /\ pc \in {"idle", "get_tok"}
  /\ ret.val \in Tokens \cup {"ok", "fail", "none", "blank"}

(* The current context of a good stack.                                    *)
LEMMA GoodHead ==
  ASSUME NEW s, Good(s)
  PROVE  /\ Head(s) \in Context /\ Head(s) = s[1]
         /\ Len(s) \in Nat \ {0}
         /\ Head(s).kind = "initial" <=> Len(s) = 1
         /\ Head(s).tok = EOI => Len(s) = 1
         /\ Len(s) = 1 => Head(s).line = <<>> /\ Head(s).src = <<>>
<1>1. s \in Seq(Context) /\ s # <<>>
  BY DEF Good
<1>2. Head(s) \in Context /\ Len(s) \in Nat \ {0}
  BY <1>1, EmptySeq, HeadTailProperties
<1>3. Head(s) = s[1]
  BY <1>1
<1>4. 1 \in 1..Len(s)
  BY <1>2
<1> QED
  BY <1>2, <1>3, <1>4 DEF Good

(* Replacing it by one of its kind keeps the stack good,                   *)
LEMMA GoodReplace ==
  ASSUME NEW s, Good(s), NEW c, Replaces(c, s)
  PROVE  Good(<<c>> \o Tail(s)) /\ Head(<<c>> \o Tail(s)) = c
<1>1. /\ <<c>> \o Tail(s) \in Seq(Context) /\ <<c>> \o Tail(s) # <<>>
      /\ Len(<<c>> \o Tail(s)) = Len(s)
      /\ (<<c>> \o Tail(s))[1] = c /\ Head(<<c>> \o Tail(s)) = c
      /\ \A i \in 2..Len(s) : (<<c>> \o Tail(s))[i] = s[i]
  BY ReplaceHead DEF Good, Replaces
<1>2. Len(s) \in Nat \ {0} /\ \A i \in 1..Len(s) : i = 1 \/ i \in 2..Len(s)
  BY GoodHead
<1>3. Head(s) = s[1] /\ 1 \in 1..Len(s)
  BY <1>2, GoodHead
<1> DEFINE t == <<c>> \o Tail(s)
<1> HIDE DEF t
<1>4. /\ t \in Seq(Context) /\ t # <<>> /\ Len(t) = Len(s) /\ t[1] = c /\ Head(t) = c
      /\ \A i \in 2..Len(s) : t[i] = s[i]
  BY <1>1 DEF t
<1>5. Good(t)
  BY <1>2, <1>3, <1>4 DEF Good, Replaces
<1> QED
  BY <1>4, <1>5 DEF t

(* and so does a push,                                                     *)
LEMMA GoodPush ==
  ASSUME NEW s, Good(s), NEW c \in Context, c.kind = "source", c.tok # EOI
  PROVE  Good(<<c>> \o s)
<1>1. /\ <<c>> \o s \in Seq(Context) /\ <<c>> \o s # <<>>
      /\ Len(<<c>> \o s) = Len(s) + 1
      /\ (<<c>> \o s)[1] = c
      /\ \A i \in 1..Len(s) : (<<c>> \o s)[i + 1] = s[i]
  BY ConsProperties DEF Good
<1>2. Len(s) \in Nat \ {0}
  BY GoodHead
<1>3. \A i \in 1..Len(s) + 1 : i = 1 \/ (i - 1 \in 1..Len(s) /\ i = (i - 1) + 1)
  BY <1>2
<1> QED
  BY <1>1, <1>2, <1>3 DEF Good

(* a pop,                                                                  *)
LEMMA GoodPop ==
  ASSUME NEW s, Good(s), Len(s) # 1
  PROVE  Good(Tail(s))
<1>1. /\ Tail(s) \in Seq(Context) /\ Len(Tail(s)) = Len(s) - 1
      /\ \A i \in 1..Len(Tail(s)) : Tail(s)[i] = s[i + 1]
  BY HeadTailProperties DEF Good
<1>2. Len(s) \in Nat \ {0, 1}
  BY GoodHead
<1>3. Tail(s) # <<>>
  <2>1. Len(Tail(s)) # 0 /\ Len(<<>>) = 0
    BY <1>1, <1>2, EmptySeq
  <2> QED
    BY <2>1
<1>4. \A i \in 1..Len(Tail(s)) :
        /\ i + 1 \in 1..Len(s)
        /\ i + 1 = Len(s) <=> i = Len(Tail(s))
  BY <1>1, <1>2
<1> QED
  BY <1>1, <1>3, <1>4 DEF Good

(* popping all,                                                            *)
LEMMA GoodBottom ==
  ASSUME NEW s, Good(s)
  PROVE  Good(<<Last(s)>>)
<1>1. Len(s) \in Nat \ {0} /\ Last(s) = s[Len(s)] /\ Last(s) \in Context
  BY GoodHead, ElementOfSeq DEF Good, Last
<1> QED
  BY <1>1 DEF Good

(* and what uls_pop() leaves when it may do nothing.                       *)
LEMMA GoodBelow ==
  ASSUME Good(stack)
  PROVE  Good(Below)
  BY GoodPop DEF Below, IsInitial
-----------------------------------------------------------------------------
(* No unit of text carries the token EOI.                                  *)
LEMMA UnitToken ==
  ASSUME NEW u \in Units
  PROVE  u.t \in Tokens \ {EOI}
  BY ConstantsOK DEF Units, Char, Lit, Blank, Bad, Tokens, Reserved,
                     EOI, EOF, ERR, NONE

(* uls_fillbuff() keeps the kind of the context, never makes EOI, and      *)
(* finds nothing where there was nothing.                                  *)
LEMMA FillKeeps ==
  ASSUME NEW c \in Context
  PROVE  /\ uls_fillbuff(c) \in Context
         /\ uls_fillbuff(c).kind = c.kind
         /\ uls_fillbuff(c).tok \in {c.tok, ERR}
         /\ c.line = <<>> /\ c.src = <<>> =>
              uls_fillbuff(c).line = <<>> /\ uls_fillbuff(c).src = <<>>
<1>1. ERR \in Tokens /\ <<>> \in Chunks
  BY EmptySeq DEF Tokens, Reserved, Chunks
<1>2. c.src # <<>> => Head(c.src) \in Chunks /\ Tail(c.src) \in Seq(Chunks)
  BY HeadTailProperties DEF Context
<1> QED
  BY <1>1, <1>2 DEF uls_fillbuff, Context

(* A refill replaces the current context by one of its kind.               *)
LEMMA FillReplaces ==
  ASSUME NEW s, Good(s)
  PROVE  /\ Replaces(uls_fillbuff(Head(s)), s)
         /\ Replaces(Peeked(Head(s)), s)
<1>1. EOI # ERR
  BY DEF EOI, ERR
<1> QED
  BY <1>1, GoodHead, FillKeeps DEF Replaces, Peeked

(* A context that uls_push() made and filled.                              *)
LEMMA FilledIsSource ==
  ASSUME NEW src \in Sources, NEW want \in BOOLEAN
  PROVE  /\ Filled(src, want) \in Context
         /\ Filled(src, want).kind = "source"
         /\ Filled(src, want).tok # EOI
<1> DEFINE c == uls_init_context("source", src, want)
<1>1. c \in Context /\ c.kind = "source" /\ c.tok = NONE
  BY ConstantsOK, EmptySeq DEF uls_init_context, Context, Chunks, Tokens, Reserved
<1>2. NONE # EOI /\ ERR # EOI
  BY DEF NONE, EOI, ERR
<1> QED
  BY <1>1, <1>2, FillKeeps DEF Filled
-----------------------------------------------------------------------------
(* The steps of uls_get_tok().                                             *)
LEMMA GetTokKeeps ==
  ASSUME IInv, GetTokCall \/ GetTokLoop
  PROVE  IInv'
<1> USE DEF IInv
<1> DEFINE Keeps(c) == SetContext(c) => Good(stack')
<1>1. \A c : Replaces(c, stack) => Keeps(c)
  BY GoodReplace DEF SetContext
<1>2. /\ ctx \in Context /\ Len(stack) \in Nat \ {0}
      /\ Len(stack) = 1 => ctx.line = <<>> /\ ctx.src = <<>>
      /\ ctx.tok \in Tokens /\ (ctx.tok = EOI => Len(stack) = 1)
  BY GoodHead DEF ctx, Context
<1>3. {EOI, EOF, ERR, NONE} \subseteq Tokens /\ EOF # EOI
  BY DEF Tokens, Reserved, EOI, EOF
<1>4. MakeEoi /\ IsInitial => IInv'
  <2>1. IsInitial => Replaces([ctx EXCEPT !.tok = EOI], stack)
    BY <1>2, <1>3 DEF Replaces, Context, IsInitial, ctx
  <2> QED
    BY <2>1, <1>1, <1>3 DEF MakeEoi, Returns
<1>5. CASE GetTokSticky
  BY <1>5, <1>2 DEF GetTokSticky, Returns
<1>6. CASE GetTokUngot
  <2>1. Replaces([ctx EXCEPT !.ungot = FALSE], stack)
    BY <1>2 DEF Replaces, Context, ctx
  <2> QED
    BY <1>6, <2>1, <1>1, <1>2 DEF GetTokUngot, Returns
<1>7. CASE GetTokEnter
  BY <1>7, <1>4, GoodBelow DEF GetTokEnter
<1>8. CASE ScanToken
  <2>1. PICK n \in DOMAIN ctx.line :
          LET u == ctx.line[n]
          IN /\ SetContext([ctx EXCEPT !.line = SubSeq(@, n + 1, Len(@)),
                                       !.tok = u.t, !.err = @ \/ u = Bad])
             /\ Returns("get_tok", u.t)
    BY <1>8 DEF ScanToken
  <2>2. ctx.line \in Seq(Units)
    BY <1>2 DEF Context, Chunks
  <2>3. /\ n \in 1..Len(ctx.line) /\ Len(ctx.line) \in Nat
        /\ ctx.line[n] \in Units
    BY <2>2, LenProperties, ElementOfSeq
  <2>4. Len(stack) # 1
    BY <1>2, <2>3, EmptySeq
  <2>5. ctx.line[n].t \in Tokens \ {EOI}
    BY <2>3, UnitToken
  <2>6. SubSeq(ctx.line, n + 1, Len(ctx.line)) \in Chunks
    <3>1. \A i \in n + 1..Len(ctx.line) : ctx.line[i] \in Units
      BY <2>2, <2>3, ElementOfSeq
    <3> QED
      BY <3>1, <2>3, SubSeqProperties DEF Chunks
  <2>7. Replaces([ctx EXCEPT !.line = SubSeq(@, n + 1, Len(@)),
                             !.tok = ctx.line[n].t,
                             !.err = @ \/ ctx.line[n] = Bad], stack)
    BY <1>2, <2>4, <2>5, <2>6 DEF Replaces, Context, ctx
  <2> QED
    BY <1>8, <2>1, <2>5, <2>7, <1>1 DEF ScanToken, Returns
<1>9. CASE ScanRefill
  BY <1>9, <1>1, FillReplaces DEF ScanRefill, ctx
<1>10. CASE ScanFailed
  <2>1. Replaces(uls_fillbuff(ctx), stack)
    BY FillReplaces DEF ctx
  <2>2. uls_fillbuff(ctx).tok \in Tokens
    BY <2>1 DEF Replaces, Context
  <2> QED
    BY <1>10, <2>1, <2>2, <1>1 DEF ScanFailed, Returns
<1>11. CASE ScanEof
  <2>1. Replaces([uls_fillbuff(ctx) EXCEPT !.tok = EOF], stack)
    BY FillReplaces, <1>3 DEF Replaces, Context, ctx
  <2>2. CASE ctx.wantEof
    BY <1>11, <2>1, <2>2, <1>1, <1>3 DEF ScanEof, Returns
  <2>3. CASE ~ctx.wantEof
    BY <1>11, <2>3, <1>4, GoodBelow DEF ScanEof
  <2> QED
    BY <2>2, <2>3
<1> QED
  BY <1>5, <1>6, <1>7, <1>8, <1>9, <1>10, <1>11 DEF GetTokCall, GetTokLoop
-----------------------------------------------------------------------------
(* uls_push_*() and uls_set_*(), onto any reachable stack.                 *)
LEMMA PushKeeps ==
  ASSUME IInv, NEW below, Good(below), NEW src \in Sources, PushOnto(below, src)
  PROVE  IInv'
<1>1. \A want \in BOOLEAN : Good(<<Filled(src, want)>> \o below)
  BY FilledIsSource, GoodPush
<1>2. Head(below).wantEof \in BOOLEAN
  BY GoodHead DEF Context
<1>3. \A want \in BOOLEAN : PushLine(below, src, want) \/ PushStream(below, src, want)
        => Good(stack') /\ ret'.val \in {"ok", "fail"}
  <2> TAKE want \in BOOLEAN
  <2>1. PushLine(below, src, want) => Good(stack') /\ ret'.val \in {"ok", "fail"}
    BY <1>1 DEF PushLine, Returns
  <2>2. PushStream(below, src, want) => Good(stack') /\ ret'.val \in {"ok", "fail"}
    <3> HAVE PushStream(below, src, want)
    <3>1. stack' \in {below, <<Filled(src, want)>> \o below}
      BY DEF PushStream
    <3>2. ret'.val \in {"ok", "fail"}
      BY DEF PushStream, Returns
    <3> QED
      BY <1>1, <3>1, <3>2
  <2> QED
    BY <2>1, <2>2
<1> QED
  BY <1>2, <1>3 DEF PushOnto, IInv

(* The other calls.                                                        *)
LEMMA CallKeeps ==
  ASSUME IInv, UngetCurrent \/ Push \/ Set \/ Pop \/ PopAll
               \/ (\E want \in BOOLEAN : WantEof(want)) \/ PeekCh \/ GetCh
  PROVE  IInv'
<1> USE DEF IInv
<1>1. \A c : Replaces(c, stack) /\ SetContext(c) => Good(stack')
  BY GoodReplace DEF SetContext
<1>2. /\ ctx \in Context /\ Len(stack) \in Nat \ {0}
      /\ Len(stack) = 1 => ctx.line = <<>> /\ ctx.src = <<>>
      /\ ctx.tok \in Tokens /\ (ctx.tok = EOI => Len(stack) = 1)
  BY GoodHead DEF ctx, Context
<1>3. Replaces(Peeked(ctx), stack)
  BY FillReplaces DEF ctx
<1>4. NONE \in Tokens /\ NONE # EOI
  BY DEF Tokens, Reserved, EOI, NONE
<1>5. CASE UngetCurrent
  <2>1. Replaces([ctx EXCEPT !.ungot = TRUE], stack)
    BY <1>2 DEF Replaces, Context, ctx
  <2> QED
    BY <1>5, <2>1, <1>1, <1>2 DEF UngetCurrent, Returns
<1>6. CASE Push
  BY <1>6, PushKeeps DEF Push
<1>7. CASE Set
  BY <1>7, PushKeeps, GoodBelow DEF Set
<1>8. CASE Pop
  BY <1>8, GoodBelow DEF Pop, Returns
<1>9. CASE PopAll
  BY <1>9, GoodBottom DEF PopAll, Returns
<1>10. CASE \E want \in BOOLEAN : WantEof(want)
  <2>1. PICK want \in BOOLEAN : WantEof(want)
    BY <1>10
  <2>2. Replaces([ctx EXCEPT !.wantEof = want], stack)
    BY <1>2 DEF Replaces, Context, ctx
  <2> QED
    BY <2>1, <2>2, <1>1 DEF WantEof, Returns
<1>11. CASE PeekCh
  BY <1>11, <1>1, <1>3 DEF PeekCh, Returns
<1>12. CASE GetCh
  <2> DEFINE c == Peeked(ctx)
             taken == c.line # <<>> /\ Head(c.line).k # "lit"
             next == [c EXCEPT !.line = IF taken THEN Tail(@) ELSE @, !.tok = NONE]
  <2>1. c \in Context /\ c.line \in Seq(Units)
    BY <1>3 DEF Replaces, Context, Chunks
  <2>2. taken => Tail(c.line) \in Chunks /\ Head(c.line).t \in Tokens
    BY <2>1, HeadTailProperties, UnitToken DEF Chunks
  <2>3. Replaces(next, stack)
    <3>1. Len(stack) = 1 => ~taken
      BY <1>3 DEF Replaces
    <3> QED
      BY <3>1, <2>1, <2>2, <1>3, <1>4 DEF Replaces, Context, Chunks
  <2>4. SetContext(next) /\ pc' = pc
    BY <1>12 DEF GetCh
  <2>5. ret'.val \in Tokens \cup {"none", "blank"}
    BY <1>12, <2>2 DEF GetCh, Returns
  <2> QED
    BY <2>3, <2>4, <2>5, <1>1
<1> QED
  BY <1>5, <1>6, <1>7, <1>8, <1>9, <1>10, <1>11, <1>12

(* The first state satisfies the invariant.                                *)
LEMMA InitIInv == Init => IInv
<1> SUFFICES ASSUME Init PROVE IInv
  OBVIOUS
<1>1. uls_init_context("initial", <<>>, FALSE) \in Context
  BY EmptySeq DEF uls_init_context, Context, Chunks, Tokens, Reserved
<1>2. NONE # EOI /\ EOI \in Tokens
  BY DEF NONE, EOI, Tokens, Reserved
<1> QED
  BY <1>1, <1>2 DEF Init, IInv, Good, uls_init_context

(* Every step keeps it.                                                    *)
LEMMA NextIInv == IInv /\ [Next]_vars => IInv'
<1> SUFFICES ASSUME IInv, [Next]_vars PROVE IInv'
  OBVIOUS
<1>1. CASE UNCHANGED vars
  BY <1>1 DEF vars, IInv, Good
<1>2. CASE Next
  BY <1>2, GetTokKeeps, CallKeeps DEF Next, Call
<1> QED
  BY <1>1, <1>2

(* The inductive invariant: types, and the shape of the stack.             *)
THEOREM SpecIInv == Spec => []IInv
  BY InitIInv, NextIInv, PTL DEF Spec

(* The types of the model, for every instance of it.                       *)
THEOREM Typing == Spec => []TypeOK
<1>1. IInv => TypeOK
  BY DEF IInv, Good, TypeOK, Results
<1> QED
  BY <1>1, SpecIInv, PTL

(* EOI is reported by the initial context only, which stays at the bottom  *)
(* and empty, however deep the stack and whatever the caller does.         *)
THEOREM EoiAtBottom == Spec => []EoiAtBottomOnly
<1>1. IInv => EoiAtBottomOnly
  BY DEF IInv, Good, EoiAtBottomOnly
<1> QED
  BY <1>1, SpecIInv, PTL
-----------------------------------------------------------------------------
(* SetContext() changes the current context and no other.                  *)
LEMMA SetContextEffect ==
  ASSUME IInv, NEW c, SetContext(c)
  PROVE  /\ stack # <<>> /\ Len(stack) \in Nat \ {0}
         /\ Len(stack') = Len(stack) /\ stack'[1] = c /\ ctx' = c
         /\ \A i \in 2..Len(stack) : stack'[i] = stack[i]
<1>1. stack \in Seq(Context \cup {c}) /\ stack # <<>>
  BY SeqMonotonic DEF IInv, Good
<1>2. Len(stack) \in Nat \ {0}
  BY GoodHead DEF IInv
<1> QED
  BY <1>1, <1>2, ReplaceHead DEF SetContext, ctx

(* The current context is a context.                                       *)
LEMMA CtxType == IInv => ctx \in Context
  BY GoodHead DEF IInv, ctx

(* make_eoi_lexeme() answers with the token of the current context.        *)
LEMMA MakeEoiReturns ==
  ASSUME IInv, MakeEoi
  PROVE  ctx'.tok = ret'.val
  BY SetContextEffect, CtxType DEF MakeEoi, Returns, Context

(* Whatever uls_get_tok() popped on its way, the token it returned is the  *)
(* one that uls_tok() and uls_lexeme() report afterwards.                  *)
THEOREM ReturnedCurrent == Spec => []ReturnedIsCurrent
<1>1. Init => ReturnedIsCurrent
  BY DEF Init, ReturnedIsCurrent
<1>2. ASSUME IInv, ReturnedIsCurrent, [Next]_vars, pc' = "idle", ret'.call = "get_tok"
      PROVE  ctx'.tok = ret'.val
  <2>1. CASE UNCHANGED vars
    BY <1>2, <2>1 DEF vars, ctx, ReturnedIsCurrent
  <2>2. CASE GetTokSticky
    BY <2>2 DEF GetTokSticky, Returns, ctx
  <2>3. CASE GetTokUngot
    BY <1>2, <2>3, SetContextEffect, CtxType DEF GetTokUngot, Returns, Context
  <2>4. CASE GetTokEnter
    BY <1>2, <2>4, MakeEoiReturns DEF GetTokEnter
  <2>5. CASE ScanToken
    <3>1. PICK n \in DOMAIN ctx.line :
            LET u == ctx.line[n]
            IN /\ SetContext([ctx EXCEPT !.line = SubSeq(@, n + 1, Len(@)),
                                         !.tok = u.t, !.err = @ \/ u = Bad])
               /\ Returns("get_tok", u.t)
      BY <2>5 DEF ScanToken
    <3> DEFINE c == [ctx EXCEPT !.line = SubSeq(@, n + 1, Len(@)),
                                !.tok = ctx.line[n].t,
                                !.err = @ \/ ctx.line[n] = Bad]
    <3>2. ctx' = c
      BY <1>2, <3>1, SetContextEffect
    <3>3. c.tok = ctx.line[n].t
      BY <1>2, CtxType DEF Context
    <3> QED
      BY <3>1, <3>2, <3>3 DEF Returns
  <2>6. CASE ScanRefill
    BY <1>2, <2>6 DEF ScanRefill
  <2>7. CASE ScanFailed
    BY <1>2, <2>7, SetContextEffect DEF ScanFailed, Returns
  <2>8. CASE ScanEof
    <3>1. uls_fillbuff(ctx) \in Context
      BY <1>2, CtxType, FillKeeps
    <3>2. CASE ctx.wantEof
      BY <1>2, <2>8, <3>1, <3>2, SetContextEffect DEF ScanEof, Returns, Context
    <3>3. CASE ~ctx.wantEof
      BY <1>2, <2>8, <3>3, MakeEoiReturns DEF ScanEof
    <3> QED
      BY <3>2, <3>3
  <2>9. CASE UngetCurrent \/ Pop \/ PopAll \/ PeekCh
             \/ \E want \in BOOLEAN : WantEof(want)
    <3>1. ret'.call \in {"unget", "pop", "peek_ch", "want_eof"}
      <4>1. \A want \in BOOLEAN : WantEof(want) => ret'.call = "want_eof"
        BY DEF WantEof, Returns
      <4>2. UngetCurrent => ret'.call = "unget"
        BY DEF UngetCurrent, Returns
      <4>3. Pop \/ PopAll => ret'.call = "pop"
        BY DEF Pop, PopAll, Returns
      <4>4. PeekCh => ret'.call = "peek_ch"
        BY DEF PeekCh, Returns
      <4> QED
        BY <2>9, <4>1, <4>2, <4>3, <4>4
    <3> QED
      BY <1>2, <3>1
  <2>10. CASE Push \/ Set
    <3>1. ret'.call = "push"
      <4>1. \A below, src, want :
              PushLine(below, src, want) \/ PushStream(below, src, want)
                => ret'.call = "push"
        BY DEF PushLine, PushStream, Returns
      <4> QED
        BY <2>10, <4>1 DEF Push, Set, PushOnto
    <3> QED
      BY <1>2, <3>1
  <2>11. CASE GetCh
    <3>1. ret'.call = "get_ch"
      BY <2>11 DEF GetCh, Returns
    <3> QED
      BY <1>2, <3>1
  <2> QED
    BY <1>2, <2>1, <2>2, <2>3, <2>4, <2>5, <2>6, <2>7, <2>8, <2>9, <2>10, <2>11
       DEF Next, Call, GetTokCall, GetTokLoop
<1>3. IInv /\ ReturnedIsCurrent /\ [Next]_vars => ReturnedIsCurrent'
  BY <1>2 DEF ReturnedIsCurrent
<1> QED
  BY <1>1, <1>3, SpecIInv, PTL DEF Spec
-----------------------------------------------------------------------------
(* No step but a push replaces what a failed context has still to read.    *)
NotRead(s, t) ==
  \A d \in 0..(Len(s) - 1) :
    d < Len(t) /\ s[Len(s) - d].err => t[Len(t) - d].src = s[Len(s) - d].src

(* No source is read when the current context keeps its own,               *)
LEMMA NotReadReplace ==
  ASSUME IInv, NEW c, SetContext(c), ctx.err => c.src = ctx.src
  PROVE  NotRead(stack, stack')
<1>1. /\ Len(stack) \in Nat \ {0} /\ Len(stack') = Len(stack)
      /\ stack'[1] = c /\ \A i \in 2..Len(stack) : stack'[i] = stack[i]
  BY SetContextEffect
<1>2. ctx = stack[1]
  BY GoodHead DEF IInv, ctx
<1>3. \A d \in 0..(Len(stack) - 1) : Len(stack) - d = 1 \/ Len(stack) - d \in 2..Len(stack)
  BY <1>1
<1> QED
  BY <1>1, <1>2, <1>3 DEF NotRead

(* when it is popped,                                                      *)
LEMMA NotReadPop ==
  ASSUME NEW s, Good(s), Len(s) # 1
  PROVE  NotRead(s, Tail(s))
<1>1. /\ Len(s) \in Nat \ {0} /\ Len(Tail(s)) = Len(s) - 1
      /\ \A i \in 1..Len(Tail(s)) : Tail(s)[i] = s[i + 1]
  BY GoodHead, HeadTailProperties DEF Good
<1>2. \A d \in 0..(Len(s) - 1) : d < Len(Tail(s)) =>
        Tail(s)[Len(Tail(s)) - d] = s[Len(s) - d]
  <2> SUFFICES ASSUME NEW d \in 0..(Len(s) - 1), d < Len(Tail(s))
               PROVE  Tail(s)[Len(Tail(s)) - d] = s[Len(s) - d]
    OBVIOUS
  <2>1. Len(Tail(s)) - d \in 1..Len(Tail(s)) /\ (Len(Tail(s)) - d) + 1 = Len(s) - d
    BY <1>1
  <2> QED
    BY <1>1, <2>1
<1> QED
  BY <1>2 DEF NotRead

(* when the stack stays as it is,                                          *)
LEMMA NotReadSame ==
  ASSUME NEW s
  PROVE  NotRead(s, s)
  BY DEF NotRead

(* when uls_pop() is called                                                *)
LEMMA NotReadBelow ==
  ASSUME Good(stack)
  PROVE  NotRead(stack, Below)
  BY NotReadSame, NotReadPop DEF Below, IsInitial

(* or uls_pop_all().                                                       *)
LEMMA NotReadBottom ==
  ASSUME NEW s, Good(s)
  PROVE  NotRead(s, <<Last(s)>>)
<1>1. Len(s) \in Nat \ {0} /\ Last(s) = s[Len(s)]
  BY GoodHead DEF Last
<1>2. Len(<<Last(s)>>) = 1 /\ <<Last(s)>>[1] = Last(s)
  OBVIOUS
<1>3. \A d \in 0..(Len(s) - 1) : d < 1 => d = 0
  BY <1>1
<1> QED
  BY <1>1, <1>2, <1>3 DEF NotRead

(* A refill of a failed context leaves its source alone.                   *)
LEMMA FillKeepsFailed ==
  ASSUME NEW c \in Context, c.err
  PROVE  uls_fillbuff(c).src = c.src /\ Peeked(c).src = c.src
  BY DEF uls_fillbuff, Peeked

(* A source whose filler failed, or whose text was rejected, is never read *)
(* again: not by uls_get_tok(), not by reading by character, and not after *)
(* the sources stacked over it are gone.                                   *)
THEOREM FailedNotRead == Spec => FailedSourceNotRead
<1>1. ASSUME IInv, [Next]_vars, ~(Push \/ Set)
      PROVE  NotRead(stack, stack')
  <2> USE <1>1
  <2>0. ctx \in Context
    BY CtxType
  <2>1. CASE stack' = stack
    BY <2>1, NotReadSame
  <2>2. CASE stack' = Below
    BY <2>2, NotReadBelow DEF IInv
  <2>3. CASE PopAll
    BY <2>3, NotReadBottom DEF PopAll, IInv
  <2>4. CASE MakeEoi \/ GetTokUngot \/ UngetCurrent
             \/ \E want \in BOOLEAN : WantEof(want)
    BY <2>0, <2>4, NotReadReplace
       DEF MakeEoi, GetTokUngot, UngetCurrent, WantEof, Context
  <2>5. CASE ScanToken
    BY <2>0, <2>5, NotReadReplace DEF ScanToken, Context
  <2>6. CASE ScanRefill \/ ScanFailed
    BY <2>0, <2>6, NotReadReplace, FillKeepsFailed DEF ScanRefill, ScanFailed
  <2>7. CASE ScanEof /\ ctx.wantEof
    BY <2>0, <2>7, NotReadReplace, FillKeeps, FillKeepsFailed DEF ScanEof, Context
  <2>8. CASE PeekCh
    BY <2>0, <2>8, NotReadReplace, FillKeepsFailed DEF PeekCh
  <2>9. CASE GetCh
    <3> DEFINE c == Peeked(ctx)
               taken == c.line # <<>> /\ Head(c.line).k # "lit"
               next == [c EXCEPT !.line = IF taken THEN Tail(@) ELSE @, !.tok = NONE]
    <3>1. SetContext(next)
      BY <2>9 DEF GetCh
    <3>2. c \in Context
      BY <2>0, FillKeeps DEF Peeked
    <3>3. ctx.err => next.src = ctx.src
      BY <2>0, <3>2, FillKeepsFailed DEF Context
    <3> QED
      BY <3>1, <3>3, NotReadReplace
  <2> QED
    BY <2>1, <2>2, <2>3, <2>4, <2>5, <2>6, <2>7, <2>8, <2>9
       DEF Next, Call, GetTokCall, GetTokLoop, vars,
           GetTokSticky, GetTokEnter, ScanEof, Pop
<1>2. IInv /\ [Next]_vars => [~(Push \/ Set) => NotRead(stack, stack')]_vars
  BY <1>1
<1> QED
  BY <1>2, SpecIInv, PTL DEF Spec, FailedSourceNotRead, NotRead
-----------------------------------------------------------------------------
(* The pieces that Text(), Delivered() and Queue() join.                   *)
TextPieces(src)  == [i \in 1..Len(src) |-> IF src[i] = Fail THEN <<Bad>> ELSE src[i]]
TokenPieces(u)   == [i \in 1..Len(u) |-> IF u[i] = Blank THEN <<>> ELSE <<u[i].t>>]
QueuePieces(s, b) == [i \in 1..Len(s) |-> Pending(s[i], i > 1 \/ b)]
Tokenised(u)     == FlattenSeq(TokenPieces(u))
EofAfter(u, eof) == IF eof /\ (u = <<>> \/ Last(u) # Bad) THEN <<EOF>> ELSE <<>>

(* What a function on 1..n is as a sequence, and with an element before.   *)
LEMMA Tabled ==
  ASSUME NEW S, NEW n \in Nat, NEW f \in [1..n -> S]
  PROVE  f \in Seq(S) /\ Len(f) = n
  OBVIOUS

(* The constants of units, chunks and tokens, and how they differ.         *)
LEMMA UnitsOK ==
  /\ Bad \in Units /\ Blank \in Units /\ Bad # Blank /\ Bad.t = ERR
  /\ Fail = <<>> /\ Fail \in Chunks /\ Chunks = Seq(Units)
  /\ {EOI, EOF, ERR, NONE} \subseteq Tokens
  /\ EOI # EOF /\ EOI # ERR /\ EOF # ERR /\ NONE \notin {EOI, EOF, ERR}
  BY EmptySeq DEF Units, Bad, Blank, Fail, Chunks, Tokens, Reserved, EOI, EOF, ERR, NONE

(* A unit that is neither blank nor in error is an ordinary token.         *)
LEMMA PlainUnit ==
  ASSUME NEW u \in Units, u # Blank, u # Bad
  PROVE  u.t \in Tokens \ Reserved /\ u.t \in Chars \cup Quotes
  BY ConstantsOK DEF Units, Blank, Bad, Char, Lit, Tokens

(* The pieces of a source are sequences of units.                          *)
LEMMA TextPiecesType ==
  ASSUME NEW src \in Seq(Chunks)
  PROVE  TextPieces(src) \in Seq(Seq(Units)) /\ Len(TextPieces(src)) = Len(src)
<1>1. Len(src) \in Nat /\ \A i \in 1..Len(src) : src[i] \in Seq(Units)
  BY ElementOfSeq, LenProperties, UnitsOK
<1>2. <<Bad>> \in Seq(Units)
  BY UnitsOK
<1>3. TextPieces(src) \in [1..Len(src) -> Seq(Units)]
  BY <1>1, <1>2 DEF TextPieces
<1> QED
  BY <1>1, <1>3, Tabled

(* The pieces of a text are sequences of tokens.                           *)
LEMMA TokenPiecesType ==
  ASSUME NEW u \in Seq(Units)
  PROVE  TokenPieces(u) \in Seq(Seq(Tokens)) /\ Len(TokenPieces(u)) = Len(u)
<1>1. Len(u) \in Nat /\ \A i \in 1..Len(u) : u[i].t \in Tokens
  BY ElementOfSeq, LenProperties, UnitToken
<1>2. <<>> \in Seq(Tokens) /\ \A t \in Tokens : <<t>> \in Seq(Tokens)
  OBVIOUS
<1>3. TokenPieces(u) \in [1..Len(u) -> Seq(Tokens)]
  BY <1>1, <1>2 DEF TokenPieces
<1> QED
  BY <1>1, <1>3, Tabled

(* Text() and Delivered() without the recursion.                           *)
LEMMA TextIs ==
  ASSUME NEW c \in Context
  PROVE  Text(c) = c.line \o FlattenSeq(TextPieces(c.src))
<1> DEFINE n == Len(c.src)
           x == TextPieces(c.src)
           upto == CHOOSE r : r = [i \in 0..n |-> IF i = 0 THEN <<>>
                     ELSE r[i - 1] \o (IF c.src[i] = Fail THEN <<Bad>> ELSE c.src[i])]
<1>1. Text(c) = c.line \o upto[n]
  BY DEF Text, Joined
<1>2. c.src \in Seq(Chunks) /\ n \in Nat
  BY LenProperties DEF Context
<1>3. x \in Seq(Seq(Units)) /\ Len(x) = n
  BY <1>2, TextPiecesType
<1>4. \A i \in 1..n : x[i] = IF c.src[i] = Fail THEN <<Bad>> ELSE c.src[i]
  BY DEF TextPieces
<1> HIDE DEF x, n
<1>5. \A r : Joins(x, r) <=>
        r = [i \in 0..n |-> IF i = 0 THEN <<>>
               ELSE r[i - 1] \o (IF c.src[i] = Fail THEN <<Bad>> ELSE c.src[i])]
  <2>1. \A i \in 0..n : i # 0 => i \in 1..n
    BY <1>2
  <2> QED
    BY <1>3, <1>4, <2>1 DEF Joins
<1>6. Joins(x, upto)
  BY <1>3, <1>5, JoinExists
<1> QED
  BY <1>1, <1>3, <1>6, JoinIsFlat DEF x

(* Delivered() is the tokens up to the first error, and the EOF after them.*)
LEMMA DeliveredIs ==
  ASSUME NEW text, NEW eof, UptoError(text) \in Seq(Units)
  PROVE  Delivered(text, eof) =
           Tokenised(UptoError(text)) \o EofAfter(UptoError(text), eof)
<1> DEFINE u == UptoError(text)
           n == Len(u)
           x == TokenPieces(u)
           e == EofAfter(u, eof)
           upto == CHOOSE r : r = [i \in 0..n |-> IF i = 0 THEN <<>>
                     ELSE r[i - 1] \o (IF u[i] = Blank THEN <<>> ELSE <<u[i].t>>)]
<1>1. Delivered(text, eof) = upto[n] \o e
  BY DEF Delivered, Joined, EofAfter
<1> HIDE DEF u, e
<1>2. n \in Nat /\ u \in Seq(Units)
  BY LenProperties DEF u
<1>3. x \in Seq(Seq(Tokens)) /\ Len(x) = n
  BY <1>2, TokenPiecesType
<1>4. \A i \in 1..n : x[i] = IF u[i] = Blank THEN <<>> ELSE <<u[i].t>>
  BY DEF TokenPieces
<1>7. Tokenised(u) = FlattenSeq(x)
  BY DEF Tokenised
<1> HIDE DEF x, n
<1>5. \A r : Joins(x, r) <=>
        r = [i \in 0..n |-> IF i = 0 THEN <<>>
               ELSE r[i - 1] \o (IF u[i] = Blank THEN <<>> ELSE <<u[i].t>>)]
  <2>1. \A i \in 0..n : i # 0 => i \in 1..n
    BY <1>2
  <2> QED
    BY <1>3, <1>4, <2>1 DEF Joins
<1>6. Joins(x, upto)
  BY <1>3, <1>5, JoinExists
<1>8. upto[n] = FlattenSeq(x)
  BY <1>3, <1>6, JoinIsFlat
<1> HIDE DEF upto
<1> QED
  BY <1>1, <1>7, <1>8 DEF u, e
-----------------------------------------------------------------------------
(* Flattening, an element at a time.                                       *)
LEMMA SourceText ==
  ASSUME NEW src \in Seq(Chunks), src # <<>>
  PROVE  FlattenSeq(TextPieces(src)) =
           (IF Head(src) = Fail THEN <<Bad>> ELSE Head(src))
           \o FlattenSeq(TextPieces(Tail(src)))
<1> DEFINE h == IF Head(src) = Fail THEN <<Bad>> ELSE Head(src)
           x == TextPieces(Tail(src))
<1>1. /\ Head(src) \in Seq(Units) /\ Tail(src) \in Seq(Chunks)
      /\ Len(src) \in Nat \ {0} /\ Len(Tail(src)) = Len(src) - 1 /\ src[1] = Head(src)
      /\ \A i \in 1..Len(Tail(src)) : Tail(src)[i] = src[i + 1]
  BY HeadAndTail, UnitsOK
<1>2. h \in Seq(Units)
  BY <1>1, UnitsOK
<1>3. x \in Seq(Seq(Units)) /\ Len(x) = Len(src) - 1
  BY <1>1, TextPiecesType
<1>4. TextPieces(src) \in Seq(Seq(Units)) /\ Len(TextPieces(src)) = Len(src)
  BY TextPiecesType
<1>5. /\ TextPieces(src)[1] = h
      /\ \A i \in 1..Len(x) : TextPieces(src)[i + 1] = x[i]
  BY <1>1, <1>3 DEF TextPieces
<1> HIDE DEF h, x
<1>6. /\ <<h>> \o x \in Seq(Seq(Units)) /\ Len(<<h>> \o x) = Len(x) + 1
      /\ (<<h>> \o x)[1] = h /\ \A i \in 1..Len(x) : (<<h>> \o x)[i + 1] = x[i]
  BY <1>2, <1>3, InFront
<1>7. \A i \in 1..Len(src) : TextPieces(src)[i] = (<<h>> \o x)[i]
  <2>1. \A i \in 1..Len(src) : i = 1 \/ (i - 1 \in 1..Len(x) /\ i = (i - 1) + 1)
    BY <1>1, <1>3
  <2> QED
    BY <1>5, <1>6, <2>1
<1>8. TextPieces(src) = <<h>> \o x
  <2>1. Len(TextPieces(src)) = Len(<<h>> \o x)
    <3>1. \A m \in Nat : m - 1 + 1 = m
      OBVIOUS
    <3> QED
      BY <1>1, <1>3, <1>4, <1>6, <3>1, Zenon
  <2> QED
    BY <1>4, <1>6, <1>7, <2>1, SeqEqual
<1>9. FlattenSeq(TextPieces(src)) = h \o FlattenSeq(x)
  BY <1>2, <1>3, <1>8, FlattenCons
<1> QED
  BY <1>9 DEF h, x

(* The tokens of a text, its first unit apart.                             *)
LEMMA TokenisedCons ==
  ASSUME NEW u \in Units, NEW v \in Seq(Units)
  PROVE  Tokenised(<<u>> \o v) = (IF u = Blank THEN <<>> ELSE <<u.t>>) \o Tokenised(v)
<1> DEFINE h == IF u = Blank THEN <<>> ELSE <<u.t>>
           w == <<u>> \o v
           x == TokenPieces(v)
<1>1. /\ w \in Seq(Units) /\ Len(w) = Len(v) + 1 /\ w[1] = u
      /\ \A i \in 1..Len(v) : w[i + 1] = v[i]
  BY InFront
<1>2. h \in Seq(Tokens) /\ Len(v) \in Nat
  BY UnitToken, LenProperties
<1>3. x \in Seq(Seq(Tokens)) /\ Len(x) = Len(v)
  BY TokenPiecesType
<1>4. TokenPieces(w) \in Seq(Seq(Tokens)) /\ Len(TokenPieces(w)) = Len(w)
  BY <1>1, TokenPiecesType
<1> HIDE DEF w
<1>5. TokenPieces(w)[1] = h /\ \A i \in 1..Len(x) : TokenPieces(w)[i + 1] = x[i]
  BY <1>1, <1>2, <1>3 DEF TokenPieces
<1> HIDE DEF h, x
<1>6. /\ <<h>> \o x \in Seq(Seq(Tokens)) /\ Len(<<h>> \o x) = Len(x) + 1
      /\ (<<h>> \o x)[1] = h /\ \A i \in 1..Len(x) : (<<h>> \o x)[i + 1] = x[i]
  BY <1>2, <1>3, InFront
<1>7. \A i \in 1..Len(w) : TokenPieces(w)[i] = (<<h>> \o x)[i]
  <2>1. \A i \in 1..Len(w) : i = 1 \/ (i - 1 \in 1..Len(x) /\ i = (i - 1) + 1)
    BY <1>1, <1>2, <1>3
  <2> QED
    BY <1>5, <1>6, <2>1
<1>8. TokenPieces(w) = <<h>> \o x
  BY <1>1, <1>3, <1>4, <1>6, <1>7, SeqEqual
<1>9. FlattenSeq(TokenPieces(w)) = h \o FlattenSeq(x)
  BY <1>2, <1>3, <1>8, FlattenCons
<1> QED
  BY <1>9 DEF h, x, w, Tokenised

(* The tokens of a text are a sequence of tokens.                          *)
LEMMA TokenisedType ==
  ASSUME NEW v \in Seq(Units)
  PROVE  Tokenised(v) \in Seq(Tokens)
  BY TokenPiecesType, FlattenType DEF Tokenised

(* The empty text has none.                                                *)
LEMMA NothingTokenised == Tokenised(<<>>) = <<>>
<1>1. TokenPieces(<<>>) = <<>>
  <2>1. TokenPieces(<<>>) \in Seq(Seq(Tokens)) /\ Len(TokenPieces(<<>>)) = 0
    BY TokenPiecesType, EmptySeq
  <2> QED
    BY <2>1, EmptySeq
<1> QED
  BY <1>1, FlattenEmpty DEF Tokenised
-----------------------------------------------------------------------------
(* The text up to its first error.                                         *)
LEMMA FirstBad ==
  ASSUME NEW u \in Seq(Units), NEW k \in 1..Len(u), u[k] = Bad,
         \A j \in 1..k - 1 : u[j] # Bad
  PROVE  UptoError(u) = SubSeq(u, 1, k)
<1> DEFINE First(i) == i \in DOMAIN u /\ u[i] = Bad /\ \A j \in 1..i - 1 : u[j] # Bad
           c == CHOOSE i \in DOMAIN u : u[i] = Bad /\ \A j \in 1..i - 1 : u[j] # Bad
<1>1. DOMAIN u = 1..Len(u) /\ Len(u) \in Nat
  BY LenProperties
<1>2. First(k)
  BY <1>1
<1>3. First(c)
  BY <1>2
<1>4. c = k
  <2>1. c \in Nat /\ k \in Nat
    BY <1>1, <1>3
  <2>2. ~(c < k) /\ ~(k < c)
    <3>1. c < k => c \in 1..k - 1
      BY <1>1, <1>3
    <3>2. k < c => k \in 1..c - 1
      BY <1>1, <1>3
    <3> QED
      BY <1>2, <1>3, <3>1, <3>2
  <2> QED
    BY <2>1, <2>2
<1>5. UptoError(u) = SubSeq(u, 1, c)
  BY <1>2 DEF UptoError
<1> QED
  BY <1>4, <1>5

(* The text up to its first error, by cases.                               *)
LEMMA UptoErrorCases ==
  ASSUME NEW u \in Seq(Units)
  PROVE  \/ /\ \A i \in 1..Len(u) : u[i] # Bad
            /\ UptoError(u) = u
         \/ \E k \in 1..Len(u) : /\ u[k] = Bad /\ \A j \in 1..k - 1 : u[j] # Bad
                                 /\ UptoError(u) = SubSeq(u, 1, k)
<1> DEFINE T == {i \in 1..Len(u) : u[i] = Bad}
<1>1. DOMAIN u = 1..Len(u) /\ Len(u) \in Nat
  BY LenProperties
<1>2. CASE T = {}
  BY <1>1, <1>2 DEF UptoError
<1>3. CASE T # {}
  <2>1. T \subseteq Nat
    OBVIOUS
  <2>2. PICK k \in T : \A i \in T : k <= i
    <3> HIDE DEF T
    <3> QED
      BY <1>3, <2>1, Least
  <2>3. k \in 1..Len(u) /\ u[k] = Bad /\ \A j \in 1..k - 1 : u[j] # Bad
    <3>1. \A j \in 1..k - 1 : j \in 1..Len(u) /\ ~(k <= j)
      BY <1>1
    <3> QED
      BY <2>2, <3>1
  <2> QED
    BY <2>3, FirstBad
<1> QED
  BY <1>2, <1>3

(* It is a text.                                                           *)
LEMMA UptoErrorType ==
  ASSUME NEW u \in Seq(Units)
  PROVE  UptoError(u) \in Seq(Units)
<1>1. ASSUME NEW k \in 1..Len(u) PROVE SubSeq(u, 1, k) \in Seq(Units)
  <2>1. Len(u) \in Nat /\ \A i \in 1..k : u[i] \in Units
    BY LenProperties, ElementOfSeq
  <2> QED
    BY <2>1, SubSeqProperties
<1> QED
  BY <1>1, UptoErrorCases

(* The text up to its first error, its first unit apart.                   *)
LEMMA UptoErrorCons ==
  ASSUME NEW u \in Units, NEW v \in Seq(Units)
  PROVE  UptoError(<<u>> \o v) = IF u = Bad THEN <<Bad>> ELSE <<u>> \o UptoError(v)
<1> DEFINE w == <<u>> \o v
<1>1. /\ w \in Seq(Units) /\ Len(w) = Len(v) + 1 /\ w[1] = u /\ Len(v) \in Nat
      /\ \A i \in 1..Len(v) : w[i + 1] = v[i]
  BY InFront, LenProperties
<1>2. \A i \in 1..Len(w) : i = 1 \/ (i - 1 \in 1..Len(v) /\ i = (i - 1) + 1)
  BY <1>1
<1> HIDE DEF w
<1>3. ASSUME NEW k \in 1..Len(w)
      PROVE  /\ SubSeq(w, 1, k) \in Seq(Units) /\ Len(SubSeq(w, 1, k)) = k
             /\ \A i \in 1..k : SubSeq(w, 1, k)[i] = w[i]
  <2>1. \A i \in 1..k : w[i] \in Units
    BY <1>1, ElementOfSeq
  <2> QED
    BY <1>1, <2>1, SubSeqProperties
<1>4. CASE u = Bad
  <2>1. 1 \in 1..Len(w) /\ \A j \in 1..1 - 1 : w[j] # Bad
    BY <1>1
  <2>2. UptoError(w) = SubSeq(w, 1, 1)
    BY <1>1, <1>4, <2>1, FirstBad
  <2>3. SubSeq(w, 1, 1) = <<w[1]>>
    <3>1. <<w[1]>> \in Seq(Units) /\ Len(<<w[1]>>) = 1 /\ <<w[1]>>[1] = w[1]
      BY <1>1
    <3>2. /\ SubSeq(w, 1, 1) \in Seq(Units) /\ Len(SubSeq(w, 1, 1)) = 1
          /\ SubSeq(w, 1, 1)[1] = w[1]
      BY <1>3, <2>1
    <3>3. \A i \in 1..1 : SubSeq(w, 1, 1)[i] = <<w[1]>>[i]
      BY <3>1, <3>2
    <3> QED
      BY <3>1, <3>2, <3>3, SeqEqual
  <2> QED
    BY <1>1, <1>4, <2>2, <2>3 DEF w
<1>5. CASE u # Bad
  <2>1. CASE \A i \in 1..Len(v) : v[i] # Bad
    <3>1. ASSUME NEW i \in 1..Len(w) PROVE w[i] # Bad
      <4>1. CASE i = 1
        BY <4>1, <1>1, <1>5
      <4>2. CASE i # 1
        <5>1. PICK j \in 1..Len(v) : j = i - 1 /\ i = j + 1
          BY <4>2, <1>2
        <5>2. w[i] = v[j]
          BY <1>1, <5>1
        <5> QED
          BY <2>1, <5>2
      <4> QED
        BY <4>1, <4>2
    <3>2. UptoError(w) = w
      BY <1>1, <3>1, UptoErrorCases
    <3>3. UptoError(v) = v
      BY <2>1, UptoErrorCases
    <3> QED
      BY <1>5, <3>2, <3>3 DEF w
  <2>2. CASE ~ \A i \in 1..Len(v) : v[i] # Bad
    <3>1. PICK k \in 1..Len(v) : /\ v[k] = Bad /\ \A j \in 1..k - 1 : v[j] # Bad
                                 /\ UptoError(v) = SubSeq(v, 1, k)
      BY <2>2, UptoErrorCases
    <3>2. k + 1 \in 1..Len(w) /\ w[k + 1] = Bad
      BY <1>1, <3>1
    <3>3. \A j \in 1..(k + 1) - 1 : w[j] # Bad
      <4> SUFFICES ASSUME NEW j \in 1..(k + 1) - 1 PROVE w[j] # Bad
        OBVIOUS
      <4>1. CASE j = 1
        BY <4>1, <1>1, <1>5
      <4>2. CASE j # 1
        <5>1. j - 1 \in 1..k - 1 /\ j - 1 \in 1..Len(v) /\ (j - 1) + 1 = j
          BY <4>2, <1>1
        <5>2. PICK i \in 1..Len(v) : i = j - 1
          BY <5>1
        <5>3. w[j] = v[i]
          BY <1>1, <5>1, <5>2
        <5> QED
          BY <3>1, <5>1, <5>2, <5>3
      <4> QED
        BY <4>1, <4>2
    <3>4. UptoError(w) = SubSeq(w, 1, k + 1)
      BY <1>1, <3>2, <3>3, FirstBad
    <3>5. /\ SubSeq(v, 1, k) \in Seq(Units) /\ Len(SubSeq(v, 1, k)) = k
          /\ \A i \in 1..k : SubSeq(v, 1, k)[i] = v[i]
      <4>1. \A i \in 1..k : v[i] \in Units
        BY <1>1, ElementOfSeq
      <4> QED
        BY <1>1, <4>1, SubSeqProperties
    <3>6. /\ <<u>> \o SubSeq(v, 1, k) \in Seq(Units)
          /\ Len(<<u>> \o SubSeq(v, 1, k)) = k + 1
          /\ (<<u>> \o SubSeq(v, 1, k))[1] = u
          /\ \A i \in 1..k : (<<u>> \o SubSeq(v, 1, k))[i + 1] = SubSeq(v, 1, k)[i]
      BY <3>5, InFront
    <3>7. \A i \in 1..k + 1 : SubSeq(w, 1, k + 1)[i] = (<<u>> \o SubSeq(v, 1, k))[i]
      <4>1. \A i \in 1..k + 1 : i = 1 \/ (i - 1 \in 1..k /\ i = (i - 1) + 1 /\ i - 1 \in 1..Len(v))
        BY <1>1
      <4> QED
        BY <1>1, <1>3, <3>2, <3>5, <3>6, <4>1
    <3>8. SubSeq(w, 1, k + 1) = <<u>> \o SubSeq(v, 1, k)
      BY <1>3, <3>2, <3>6, <3>7, SeqEqual
    <3> QED
      BY <1>5, <3>1, <3>4, <3>8 DEF w
  <2> QED
    BY <2>1, <2>2
<1> QED
  BY <1>4, <1>5
-----------------------------------------------------------------------------
(* What a context delivers of its text.                                    *)
LEMMA EofAfterType ==
  ASSUME NEW u, NEW eof
  PROVE  EofAfter(u, eof) \in Seq(Tokens)
<1>1. <<>> \in Seq(Tokens) /\ <<EOF>> \in Seq(Tokens)
  BY UnitsOK
<1> QED
  BY <1>1 DEF EofAfter

(* What a text delivers is a sequence of tokens.                           *)
LEMMA DeliveredType ==
  ASSUME NEW text \in Seq(Units), NEW eof
  PROVE  Delivered(text, eof) \in Seq(Tokens)
<1>1. UptoError(text) \in Seq(Units)
  BY UptoErrorType
<1>2. /\ Tokenised(UptoError(text)) \in Seq(Tokens)
      /\ EofAfter(UptoError(text), eof) \in Seq(Tokens)
  BY <1>1, TokenisedType, EofAfterType
<1>3. \A x, y \in Seq(Tokens) : x \o y \in Seq(Tokens)
  BY ConcatProperties
<1> QED
  BY <1>1, <1>2, <1>3, DeliveredIs

(* The empty text delivers its EOF, if one is wanted.                      *)
LEMMA NothingDelivered ==
  ASSUME NEW eof
  PROVE  Delivered(<<>>, eof) = IF eof THEN <<EOF>> ELSE <<>>
<1>1. <<>> \in Seq(Units) /\ Len(<<>>) = 0
  BY EmptySeq
<1>2. UptoError(<<>>) = <<>>
  <2>1. 1..Len(<<>>) = {}
    BY <1>1
  <2> QED
    BY <1>1, <2>1, UptoErrorCases
<1>3. Delivered(<<>>, eof) = <<>> \o EofAfter(<<>>, eof)
  BY <1>1, <1>2, DeliveredIs, NothingTokenised
<1>4. Delivered(<<>>, eof) = EofAfter(<<>>, eof)
  BY <1>3, EofAfterType, ConcatEmptySeq
<1> QED
  BY <1>4 DEF EofAfter

(* The last element of a sequence with one put in front.                   *)
LEMMA LastOf ==
  ASSUME NEW u \in Units, NEW v \in Seq(Units)
  PROVE  Last(<<u>> \o v) = IF v = <<>> THEN u ELSE Last(v)
<1>1. /\ Len(<<u>> \o v) = Len(v) + 1 /\ (<<u>> \o v)[1] = u
      /\ \A i \in 1..Len(v) : (<<u>> \o v)[i + 1] = v[i]
  BY InFront
<1>2. v = <<>> => Len(v) = 0
  BY EmptySeq
<1>3. v # <<>> => Len(v) \in 1..Len(v)
  BY EmptySeq
<1>4. v # <<>> => (<<u>> \o v)[Len(v) + 1] = v[Len(v)]
  BY <1>1, <1>3
<1> QED
  BY <1>1, <1>2, <1>4 DEF Last

(* A unit in front of a text delivers its token first ...                  *)
LEMMA DeliveredCons ==
  ASSUME NEW u \in Units, u # Bad, NEW v \in Seq(Units), NEW eof
  PROVE  Delivered(<<u>> \o v, eof) =
           (IF u = Blank THEN <<>> ELSE <<u.t>>) \o Delivered(v, eof)
<1> DEFINE w == UptoError(v)
           h == IF u = Blank THEN <<>> ELSE <<u.t>>
<1>1. <<u>> \o v \in Seq(Units) /\ w \in Seq(Units)
  BY InFront, UptoErrorType
<1>2. UptoError(<<u>> \o v) = <<u>> \o w
  BY UptoErrorCons
<1>3. Delivered(v, eof) = Tokenised(w) \o EofAfter(w, eof)
  BY <1>1, DeliveredIs
<1> HIDE DEF w
<1>4. <<u>> \o w \in Seq(Units) /\ <<u>> \o w # <<>> /\ Last(<<u>> \o w) = IF w = <<>> THEN u ELSE Last(w)
  BY <1>1, InFront, LastOf
<1>5. Delivered(<<u>> \o v, eof) = Tokenised(<<u>> \o w) \o EofAfter(<<u>> \o w, eof)
  BY <1>1, <1>2, <1>4, DeliveredIs
<1>6. EofAfter(<<u>> \o w, eof) = EofAfter(w, eof)
  BY <1>4 DEF EofAfter
<1>7. Tokenised(<<u>> \o w) = h \o Tokenised(w)
  BY <1>1, TokenisedCons
<1>8. h \in Seq(Tokens) /\ Tokenised(w) \in Seq(Tokens) /\ EofAfter(w, eof) \in Seq(Tokens)
  BY <1>1, UnitToken, TokenisedType, EofAfterType
<1> HIDE DEF h
<1>9. (h \o Tokenised(w)) \o EofAfter(w, eof) = h \o (Tokenised(w) \o EofAfter(w, eof))
  BY <1>8, TokensAssociate
<1> QED
  BY <1>3, <1>5, <1>6, <1>7, <1>9 DEF h

(* ... but one in error hides the rest.                                    *)
LEMMA DeliveredBad ==
  ASSUME NEW v \in Seq(Units), NEW eof
  PROVE  Delivered(<<Bad>> \o v, eof) = <<ERR>>
<1>1. Bad \in Units /\ <<Bad>> \o v \in Seq(Units) /\ <<>> \in Seq(Units)
  BY InFront, UnitsOK
<1>2. UptoError(<<Bad>> \o v) = <<Bad>>
  BY <1>1, UptoErrorCons
<1>3. <<Bad>> = <<Bad>> \o <<>> /\ <<Bad>> \in Seq(Units) /\ Last(<<Bad>>) = Bad /\ <<Bad>> # <<>>
  BY <1>1, ConcatEmptySeq DEF Last
<1>4. Delivered(<<Bad>> \o v, eof) = Tokenised(<<Bad>>) \o EofAfter(<<Bad>>, eof)
  BY <1>2, <1>3, DeliveredIs
<1>5. EofAfter(<<Bad>>, eof) = <<>>
  BY <1>3 DEF EofAfter
<1>6. Tokenised(<<Bad>>) = <<ERR>> \o <<>>
  <2>1. Tokenised(<<Bad>> \o <<>>) = <<ERR>> \o Tokenised(<<>>)
    BY <1>1, TokenisedCons, UnitsOK
  <2> QED
    BY <1>3, <2>1, NothingTokenised
<1>7. <<ERR>> \in Seq(Tokens)
  BY UnitsOK
<1> QED
  BY <1>4, <1>5, <1>6, <1>7, ConcatEmptySeq

(* Blanks deliver nothing.                                                 *)
LEMMA SkipBlanks ==
  ASSUME NEW line \in Seq(Units), NEW w \in Seq(Units), NEW eof,
         NEW n \in 1..Len(line) + 1, \A i \in 1..n - 1 : line[i] = Blank
  PROVE  /\ SubSeq(line, n, Len(line)) \in Seq(Units)
         /\ Delivered(line \o w, eof) = Delivered(SubSeq(line, n, Len(line)) \o w, eof)
<1> DEFINE From(m) == SubSeq(line, m, Len(line))
           Holds(m) == Delivered(line \o w, eof) = Delivered(From(m) \o w, eof)
           Fails == {m \in 1..n : ~Holds(m)}
<1>1. Len(line) \in Nat /\ From(1) = line
  BY LenProperties, SubSeqFull
<1>2. \A m \in 1..Len(line) + 1 : From(m) \in Seq(Units)
  <2> TAKE m \in 1..Len(line) + 1
  <2>1. \A i \in m..Len(line) : line[i] \in Units
    BY <1>1, ElementOfSeq
  <2> QED
    BY <1>1, <2>1, SubSeqProperties
<1>3. \A m \in 1..Len(line) : From(m) = <<line[m]>> \o From(m + 1)
  <2> TAKE m \in 1..Len(line)
  <2>1. Len(line) \in m..Len(line)
    BY <1>1
  <2> QED
    BY <2>1, SubSeqRecursiveFirst
<1> HIDE DEF From
<1>4. ASSUME NEW m \in 1..n, m # n, Holds(m) PROVE Holds(m + 1)
  <2>1. m \in 1..Len(line) /\ line[m] = Blank /\ m + 1 \in 1..Len(line) + 1
    BY <1>1, <1>4
  <2>2. From(m) = <<Blank>> \o From(m + 1) /\ From(m + 1) \in Seq(Units)
    BY <1>2, <1>3, <2>1
  <2>3. <<Blank>> \in Seq(Units) /\ Blank # Bad /\ Blank \in Units
    BY UnitsOK
  <2>4. From(m) \o w = <<Blank>> \o (From(m + 1) \o w)
    BY <2>2, <2>3, TokensAssociate
  <2>5. From(m + 1) \o w \in Seq(Units)
    BY <2>2, ConcatProperties
  <2>6. Delivered(From(m) \o w, eof) = <<>> \o Delivered(From(m + 1) \o w, eof)
    <3>1. \A v \in Seq(Units) : Delivered(<<Blank>> \o v, eof) = <<>> \o Delivered(v, eof)
      BY <2>3, DeliveredCons
    <3> QED
      BY <2>4, <2>5, <3>1
  <2>7. Delivered(From(m) \o w, eof) = Delivered(From(m + 1) \o w, eof)
    BY <2>5, <2>6, DeliveredType, ConcatEmptySeq
  <2> QED
    BY <1>4, <2>7
<1>5. Holds(1)
  BY <1>1
<1>6. Holds(n)
  <2> HIDE DEF Holds
  <2> SUFFICES ASSUME Fails # {} PROVE FALSE
    OBVIOUS
  <2>1. Fails \subseteq Nat
    OBVIOUS
  <2>2. PICK m \in Fails : \A k \in Fails : m <= k
    <3> HIDE DEF Fails
    <3> QED
      BY <2>1, Least
  <2>3. m # 1 /\ m - 1 \in 1..n /\ m - 1 # n /\ (m - 1) + 1 = m /\ ~(m <= m - 1)
    BY <1>5, <2>2
  <2> QED
    BY <1>4, <2>2, <2>3
<1> QED
  BY <1>2, <1>6 DEF From
-----------------------------------------------------------------------------
(* What a context has still to deliver, and what the filler changes of it. *)
Blanks(line) == \A i \in 1..Len(line) : line[i] = Blank

(* The types of the parts of a context.                                    *)
LEMMA ContextParts ==
  ASSUME NEW c \in Context
  PROVE  /\ c.line \in Seq(Units) /\ c.src \in Seq(Chunks)
         /\ FlattenSeq(TextPieces(c.src)) \in Seq(Units)
         /\ Text(c) \in Seq(Units) /\ c.tok \in Tokens
<1>1. c.line \in Seq(Units) /\ c.src \in Seq(Chunks) /\ c.tok \in Tokens
  BY UnitsOK DEF Context
<1>2. FlattenSeq(TextPieces(c.src)) \in Seq(Units)
  BY <1>1, TextPiecesType, FlattenType
<1>3. \A x, y \in Seq(Units) : x \o y \in Seq(Units)
  BY ConcatProperties
<1> QED
  BY <1>1, <1>2, <1>3, TextIs

(* A line of blanks delivers what the rest of the source does.             *)
LEMMA BlankText ==
  ASSUME NEW c \in Context, Blanks(c.line), NEW eof
  PROVE  Delivered(Text(c), eof) = Delivered(FlattenSeq(TextPieces(c.src)), eof)
<1> DEFINE w == FlattenSeq(TextPieces(c.src))
           n == Len(c.line) + 1
<1>1. c.line \in Seq(Units) /\ w \in Seq(Units) /\ Len(c.line) \in Nat
  BY ContextParts, LenProperties
<1> HIDE DEF w
<1>2. n \in 1..Len(c.line) + 1 /\ \A i \in 1..n - 1 : c.line[i] = Blank
  BY <1>1 DEF Blanks
<1>3. SubSeq(c.line, n, Len(c.line)) = <<>>
  BY <1>1, SubSeqEmpty
<1>4. Delivered(c.line \o w, eof) = Delivered(SubSeq(c.line, n, Len(c.line)) \o w, eof)
  BY <1>1, <1>2, SkipBlanks
<1>5. Delivered(c.line \o w, eof) = Delivered(w, eof)
  BY <1>1, <1>3, <1>4, ConcatEmptySeq
<1> QED
  BY <1>5, TextIs DEF w

(* A context with nothing left delivers its EOF, if one is to come.        *)
LEMMA NoText ==
  ASSUME NEW c \in Context, Blanks(c.line), c.src = <<>>, NEW eof
  PROVE  Delivered(Text(c), eof) = IF eof THEN <<EOF>> ELSE <<>>
<1>1. TextPieces(<<>>) = <<>>
  <2>1. <<>> \in Seq(Chunks) /\ Len(<<>>) = 0
    BY EmptySeq
  <2>2. TextPieces(<<>>) \in Seq(Seq(Units)) /\ Len(TextPieces(<<>>)) = 0
    BY <2>1, TextPiecesType
  <2> QED
    BY <2>2, EmptySeq
<1> QED
  BY <1>1, BlankText, FlattenEmpty, NothingDelivered

(* An empty line counts as blank.                                          *)
LEMMA NoLine == Blanks(<<>>)
  BY EmptySeq DEF Blanks

(* A source whose next read fails delivers ERR.                            *)
LEMMA FailedText ==
  ASSUME NEW c \in Context, Blanks(c.line), c.src # <<>>, Head(c.src) = Fail, NEW eof
  PROVE  Delivered(Text(c), eof) = <<ERR>>
<1>1. c.src \in Seq(Chunks) /\ Tail(c.src) \in Seq(Chunks)
  BY ContextParts, HeadAndTail
<1>2. FlattenSeq(TextPieces(Tail(c.src))) \in Seq(Units)
  BY <1>1, TextPiecesType, FlattenType
<1>3. FlattenSeq(TextPieces(c.src)) = <<Bad>> \o FlattenSeq(TextPieces(Tail(c.src)))
  BY <1>1, SourceText
<1> QED
  BY <1>2, <1>3, BlankText, DeliveredBad

(* A successful refill changes nothing of what is delivered.               *)
LEMMA FilledText ==
  ASSUME NEW c \in Context, Blanks(c.line), ~c.err, c.src # <<>>, Head(c.src) # Fail,
         NEW eof
  PROVE  Delivered(Text(uls_fillbuff(c)), eof) = Delivered(Text(c), eof)
<1> DEFINE d == uls_fillbuff(c)
<1>1. c.src \in Seq(Chunks)
  BY ContextParts
<1>2. d \in Context /\ d.line = Head(c.src) /\ d.src = Tail(c.src)
  BY FillKeeps DEF uls_fillbuff, Context
<1>3. Text(d) = Head(c.src) \o FlattenSeq(TextPieces(Tail(c.src)))
  BY <1>2, TextIs
<1>4. FlattenSeq(TextPieces(c.src)) = Head(c.src) \o FlattenSeq(TextPieces(Tail(c.src)))
  BY <1>1, SourceText
<1> QED
  BY <1>3, <1>4, BlankText

(* What is pending is a sequence of tokens.                                *)
LEMMA PendingType ==
  ASSUME NEW c \in Context, NEW b \in BOOLEAN
  PROVE  Pending(c, b) \in Seq(Tokens)
<1>1. Delivered(Text(c), Ends(c, b)) \in Seq(Tokens)
  BY ContextParts, DeliveredType
<1>2. <<>> \in Seq(Tokens) /\ <<ERR>> \in Seq(Tokens) /\ <<c.tok>> \in Seq(Tokens)
  BY ContextParts, UnitsOK
<1>3. \A x, y \in Seq(Tokens) : x \o y \in Seq(Tokens)
  BY ConcatProperties
<1> QED
  BY <1>1, <1>2, <1>3 DEF Pending

(* A context with nothing put back.                                        *)
LEMMA PlainPending ==
  ASSUME NEW c \in Context, NEW b \in BOOLEAN, ~c.ungot \/ c.tok = EOI
  PROVE  Pending(c, b) = IF c.tok = ERR THEN <<ERR>> ELSE Delivered(Text(c), Ends(c, b))
<1>1. Delivered(Text(c), Ends(c, b)) \in Seq(Tokens)
  BY ContextParts, DeliveredType
<1>2. <<>> \o Delivered(Text(c), Ends(c, b)) = Delivered(Text(c), Ends(c, b))
  BY <1>1, ConcatEmptySeq
<1> QED
  BY <1>2 DEF Pending

(* A context that was read to its end.                                     *)
LEMMA EndedPending ==
  ASSUME NEW c \in Context, NEW b \in BOOLEAN, ~c.ungot \/ c.tok = EOI,
         c.tok \in {EOF, EOI}, c.line = <<>>, c.src = <<>>
  PROVE  Pending(c, b) = IF c.wantEof /\ b THEN <<EOF>> ELSE <<>>
<1>1. c.tok # ERR /\ (Ends(c, b) <=> c.wantEof /\ b)
  BY UnitsOK DEF Ends
<1> QED
  BY <1>1, PlainPending, NoText, NoLine
-----------------------------------------------------------------------------
(* The queue of a stack is that of its contexts, one after another.        *)
LEMMA QueuePiecesType ==
  ASSUME NEW s \in Seq(Context), NEW b \in BOOLEAN
  PROVE  QueuePieces(s, b) \in Seq(Seq(Tokens)) /\ Len(QueuePieces(s, b)) = Len(s)
<1>1. Len(s) \in Nat
  BY LenProperties
<1>2. \A i \in 1..Len(s) : Pending(s[i], i > 1 \/ b) \in Seq(Tokens)
  <2> TAKE i \in 1..Len(s)
  <2>1. s[i] \in Context /\ (i > 1 \/ b) \in BOOLEAN
    BY ElementOfSeq
  <2> QED
    BY <2>1, PendingType
<1>3. QueuePieces(s, b) \in [1..Len(s) -> Seq(Tokens)]
  BY <1>2 DEF QueuePieces
<1> QED
  BY <1>1, <1>3, Tabled

(* Queue() without the recursion.                                          *)
LEMMA QueueIs ==
  ASSUME NEW s \in Seq(Context), NEW b \in BOOLEAN
  PROVE  Queue(s, b) = FlattenSeq(QueuePieces(s, b))
<1> DEFINE n == Len(s)
           x == QueuePieces(s, b)
           upto == CHOOSE r : r = [i \in 0..n |-> IF i = 0 THEN <<>>
                     ELSE r[i - 1] \o Pending(s[i], i > 1 \/ b)]
<1>1. Queue(s, b) = upto[n]
  BY DEF Queue, Joined
<1>2. n \in Nat
  BY LenProperties
<1>3. x \in Seq(Seq(Tokens)) /\ Len(x) = n
  BY <1>2, QueuePiecesType
<1>4. \A i \in 1..n : x[i] = Pending(s[i], i > 1 \/ b)
  BY DEF QueuePieces
<1> HIDE DEF x, n
<1>5. \A r : Joins(x, r) <=>
        r = [i \in 0..n |-> IF i = 0 THEN <<>> ELSE r[i - 1] \o Pending(s[i], i > 1 \/ b)]
  <2>1. \A i \in 0..n : i # 0 => i \in 1..n
    BY <1>2
  <2> QED
    BY <1>3, <1>4, <2>1 DEF Joins
<1>6. Joins(x, upto)
  BY <1>3, <1>5, JoinExists
<1> QED
  BY <1>1, <1>3, <1>6, JoinIsFlat DEF x

(* The queue is a sequence of tokens.                                      *)
LEMMA QueueType ==
  ASSUME NEW s \in Seq(Context), NEW b \in BOOLEAN
  PROVE  Queue(s, b) \in Seq(Tokens)
  BY QueueIs, QueuePiecesType, FlattenType

(* No context, no token.                                                   *)
LEMMA NoQueue ==
  ASSUME NEW b \in BOOLEAN
  PROVE  Queue(<<>>, b) = <<>>
<1>1. <<>> \in Seq(Context) /\ Len(<<>>) = 0
  BY EmptySeq
<1>2. QueuePieces(<<>>, b) \in Seq(Seq(Tokens)) /\ Len(QueuePieces(<<>>, b)) = 0
  BY <1>1, QueuePiecesType
<1>3. QueuePieces(<<>>, b) = <<>>
  BY <1>2, EmptySeq
<1> QED
  BY <1>1, <1>3, QueueIs, FlattenEmpty

(* The tokens of the first context come first, then those of the others.   *)
LEMMA QueueCons ==
  ASSUME NEW c \in Context, NEW t \in Seq(Context), NEW b \in BOOLEAN
  PROVE  Queue(<<c>> \o t, b) = Pending(c, b) \o Queue(t, TRUE)
<1> DEFINE s == <<c>> \o t
           h == Pending(c, b)
           x == QueuePieces(t, TRUE)
           y == QueuePieces(s, b)
<1>1. /\ s \in Seq(Context) /\ Len(s) = Len(t) + 1 /\ s[1] = c
      /\ \A i \in 1..Len(t) : s[i + 1] = t[i]
  BY InFront
<1>2. h \in Seq(Tokens) /\ Len(t) \in Nat
  BY PendingType, LenProperties
<1>3. x \in Seq(Seq(Tokens)) /\ Len(x) = Len(t)
  BY QueuePiecesType
<1>4. y \in Seq(Seq(Tokens)) /\ Len(y) = Len(s)
  BY <1>1, QueuePiecesType
<1> HIDE DEF s
<1>5. y[1] = h /\ \A i \in 1..Len(x) : y[i + 1] = x[i]
  <2>1. y[1] = h
    <3>1. 1 \in 1..Len(s) /\ ((1 > 1 \/ b) <=> b)
      BY <1>1, <1>2
    <3> QED
      BY <1>1, <3>1 DEF QueuePieces
  <2>2. ASSUME NEW i \in 1..Len(x) PROVE y[i + 1] = x[i]
    <3>0. i \in 1..Len(t)
      BY <1>3, Zenon
    <3> HIDE DEF x, y
    <3>1. i + 1 \in 1..Len(s) /\ i + 1 > 1 /\ i \in 1..Len(t) /\ s[i + 1] = t[i]
      BY <1>1, <1>2, <3>0
    <3> USE DEF x, y
    <3> QED
      BY <3>1 DEF QueuePieces
  <2> QED
    BY <2>1, <2>2
<1> HIDE DEF h, x, y
<1>6. /\ <<h>> \o x \in Seq(Seq(Tokens)) /\ Len(<<h>> \o x) = Len(x) + 1
      /\ (<<h>> \o x)[1] = h /\ \A i \in 1..Len(x) : (<<h>> \o x)[i + 1] = x[i]
  BY <1>2, <1>3, InFront
<1>7. \A i \in 1..Len(y) : y[i] = (<<h>> \o x)[i]
  <2>1. \A i \in 1..Len(y) : i = 1 \/ (i - 1 \in 1..Len(x) /\ i = (i - 1) + 1)
    BY <1>1, <1>2, <1>3, <1>4
  <2> QED
    BY <1>5, <1>6, <2>1
<1>8. y = <<h>> \o x
  BY <1>1, <1>3, <1>4, <1>6, <1>7, SeqEqual
<1>9. FlattenSeq(y) = h \o FlattenSeq(x)
  BY <1>2, <1>3, <1>8, FlattenCons
<1>10. Queue(s, b) = FlattenSeq(y) /\ Queue(t, TRUE) = FlattenSeq(x)
  BY <1>1, QueueIs DEF x, y
<1> QED
  BY <1>9, <1>10 DEF h, s

(* The queue of a stack that is not empty.                                 *)
LEMMA QueueOf ==
  ASSUME NEW s \in Seq(Context), s # <<>>, NEW b \in BOOLEAN
  PROVE  Queue(s, b) = Pending(Head(s), b) \o Queue(Tail(s), TRUE)
<1>1. Head(s) \in Context /\ Tail(s) \in Seq(Context) /\ s = <<Head(s)>> \o Tail(s)
  BY HeadAndTail
<1>2. Queue(<<Head(s)>> \o Tail(s), b) = Pending(Head(s), b) \o Queue(Tail(s), TRUE)
  BY <1>1, QueueCons
<1> QED
  BY <1>1, <1>2

(* What is replaced in the current context is replaced at the front.       *)
LEMMA QueueSet ==
  ASSUME NEW s \in Seq(Context), s # <<>>, NEW c \in Context, NEW b \in BOOLEAN
  PROVE  Queue(<<c>> \o Tail(s), b) = Pending(c, b) \o Queue(Tail(s), TRUE)
  BY HeadAndTail, QueueCons

(* A stack of one context.                                                 *)
LEMMA QueueOne ==
  ASSUME NEW c \in Context, NEW b \in BOOLEAN
  PROVE  Queue(<<c>>, b) = Pending(c, b)
<1>1. <<>> \in Seq(Context) /\ <<c>> \in Seq(Context)
  OBVIOUS
<1>2. <<c>> = <<c>> \o <<>>
  BY <1>1, ConcatEmptySeq
<1>3. Queue(<<c>> \o <<>>, b) = Pending(c, b) \o Queue(<<>>, TRUE)
  BY <1>1, QueueCons
<1> QED
  BY <1>2, <1>3, NoQueue, PendingType, ConcatEmptySeq

(* The last context of a stack comes last.                                 *)
LEMMA QueueLast ==
  ASSUME NEW s \in Seq(Context), Len(s) > 1, NEW b \in BOOLEAN
  PROVE  \E w \in Seq(Tokens) : Queue(s, b) = w \o Pending(Last(s), TRUE)
<1> DEFINE x == QueuePieces(s, b)
           n == Len(s)
           y == SubSeq(x, 1, n - 1)
           h == Pending(Last(s), TRUE)
<1>1. x \in Seq(Seq(Tokens)) /\ Len(x) = n /\ n \in Nat /\ n > 1
  BY QueuePiecesType, LenProperties
<1>2. s[n] \in Context /\ Last(s) = s[n] /\ h \in Seq(Tokens)
  <2>1. n \in 1..Len(s)
    BY <1>1
  <2>2. Last(s) = s[n]
    BY DEF Last
  <2>3. s[n] \in Context
    BY <2>1, ElementOfSeq
  <2> HIDE DEF n
  <2> QED
    BY <2>2, <2>3, PendingType
<1>3. x[n] = h
  <2>1. n \in 1..Len(s) /\ n > 1
    BY <1>1
  <2> QED
    BY <1>2, <2>1 DEF QueuePieces
<1> HIDE DEF x, n, h
<1>4. /\ y \in Seq(Seq(Tokens)) /\ Len(y) = n - 1
      /\ \A i \in 1..n - 1 : y[i] = x[i]
  <2>1. \A i \in 1..n - 1 : x[i] \in Seq(Tokens)
    BY <1>1, ElementOfSeq
  <2> QED
    BY <1>1, <2>1, SubSeqProperties
<1> HIDE DEF y
<1>5. x = Append(y, h)
  <2>1. /\ Append(y, h) \in Seq(Seq(Tokens)) /\ Len(Append(y, h)) = n
        /\ Append(y, h)[n] = h /\ \A i \in 1..n - 1 : Append(y, h)[i] = y[i]
    BY <1>1, <1>2, <1>4, AppendProperties
  <2>2. \A i \in 1..Len(x) : i = n \/ i \in 1..n - 1
    BY <1>1
  <2>3. \A i \in 1..Len(x) : x[i] = Append(y, h)[i]
    BY <1>3, <1>4, <2>1, <2>2
  <2> QED
    BY <1>1, <2>1, <2>3, SeqEqual
<1>6. FlattenSeq(x) = FlattenSeq(y) \o h
  BY <1>2, <1>4, <1>5, FlattenAppend
<1>7. FlattenSeq(y) \in Seq(Tokens)
  BY <1>4, FlattenType
<1> QED
  BY <1>6, <1>7, QueueIs DEF x, h
-----------------------------------------------------------------------------
(* Suffixes.                                                               *)
LEMMA SuffixOf ==
  ASSUME NEW S, NEW w \in Seq(S), NEW x \in Seq(S)
  PROVE  IsSuffix(x, w \o x)
<1> DEFINE p == w \o x
<1>1. /\ p \in Seq(S) /\ Len(p) = Len(w) + Len(x) /\ Len(w) \in Nat /\ Len(x) \in Nat
      /\ \A i \in 1..Len(w) + Len(x) : p[i] = IF i <= Len(w) THEN w[i] ELSE x[i - Len(w)]
  BY ConcatProperties, LenProperties
<1> HIDE DEF p
<1>2. ASSUME NEW s \in Seq(S)
      PROVE  /\ Reverse(s) \in Seq(S) /\ Len(Reverse(s)) = Len(s)
             /\ \A i \in 1..Len(s) : Reverse(s)[i] = s[(Len(s) - i) + 1]
  <2>1. Len(s) \in Nat
    BY LenProperties
  <2>2. \A i \in 1..Len(s) : (Len(s) - i) + 1 \in 1..Len(s)
    BY <2>1
  <2>3. \A i \in 1..Len(s) : s[(Len(s) - i) + 1] \in S
    BY <2>2, ElementOfSeq
  <2>4. Reverse(s) \in [1..Len(s) -> S]
    BY <2>3 DEF Reverse
  <2>5. Reverse(s) \in Seq(S) /\ Len(Reverse(s)) = Len(s)
    BY <2>1, <2>4, Tabled
  <2>6. \A i \in 1..Len(s) : Reverse(s)[i] = s[(Len(s) - i) + 1]
    BY DEF Reverse
  <2> QED
    BY <2>5, <2>6
<1>3. /\ Reverse(x) \in Seq(S) /\ Len(Reverse(x)) = Len(x)
      /\ \A i \in 1..Len(x) : Reverse(x)[i] = x[(Len(x) - i) + 1]
  BY <1>2
<1>4. /\ Reverse(p) \in Seq(S) /\ Len(Reverse(p)) = Len(p)
      /\ \A i \in 1..Len(p) : Reverse(p)[i] = p[(Len(p) - i) + 1]
  BY <1>1, <1>2
<1>5. \A i \in 1..Len(x) : Reverse(p)[i] = Reverse(x)[i]
  <2> TAKE i \in 1..Len(x)
  <2>1. /\ i \in 1..Len(p) /\ (Len(p) - i) + 1 \in 1..Len(w) + Len(x)
        /\ ~((Len(p) - i) + 1 <= Len(w)) /\ ((Len(p) - i) + 1) - Len(w) = (Len(x) - i) + 1
    BY <1>1
  <2> QED
    BY <1>1, <1>3, <1>4, <2>1
<1>6. SubSeq(Reverse(x), 1, Len(Reverse(x))) = Reverse(x)
  BY <1>3, SubSeqFull
<1>7. /\ SubSeq(Reverse(p), 1, Len(x)) \in Seq(S)
      /\ Len(SubSeq(Reverse(p), 1, Len(x))) = Len(x)
      /\ \A i \in 1..Len(x) : SubSeq(Reverse(p), 1, Len(x))[i] = Reverse(p)[i]
  <2>1. \A i \in 1..Len(x) : Reverse(p)[i] \in S
    BY <1>1, <1>4, ElementOfSeq
  <2> QED
    BY <1>1, <2>1, SubSeqProperties
<1>8. SubSeq(Reverse(p), 1, Len(x)) = Reverse(x)
  BY <1>3, <1>5, <1>7, SeqEqual
<1> QED
  BY <1>1, <1>3, <1>4, <1>6, <1>8 DEF IsSuffix, IsPrefix, p

(* A sequence is a suffix of itself.                                       *)
LEMMA SuffixSelf ==
  ASSUME NEW S, NEW x \in Seq(S)
  PROVE  IsSuffix(x, x)
<1>1. <<>> \in Seq(S) /\ <<>> \o x = x
  BY EmptySeq, ConcatEmptySeq
<1> QED
  BY <1>1, SuffixOf

(* What follows the first of two sequences is the second.                  *)
LEMMA RestOf ==
  ASSUME NEW S, NEW w \in Seq(S), NEW x \in Seq(S)
  PROVE  \E n \in 0..Len(w \o x) : SubSeq(w \o x, n + 1, Len(w \o x)) = x
<1> DEFINE p == w \o x
<1>1. /\ p \in Seq(S) /\ Len(p) = Len(w) + Len(x) /\ Len(w) \in Nat /\ Len(x) \in Nat
      /\ \A i \in 1..Len(w) + Len(x) : p[i] = IF i <= Len(w) THEN w[i] ELSE x[i - Len(w)]
  BY ConcatProperties, LenProperties
<1> HIDE DEF p
<1>2. /\ SubSeq(p, Len(w) + 1, Len(p)) \in Seq(S)
      /\ Len(SubSeq(p, Len(w) + 1, Len(p))) = Len(x)
      /\ \A i \in 1..Len(x) : SubSeq(p, Len(w) + 1, Len(p))[i] = p[Len(w) + i]
  <2>1. \A i \in Len(w) + 1..Len(p) : p[i] \in S
    BY <1>1, ElementOfSeq
  <2>2. Len(w) + 1 \in Int /\ Len(p) \in Int
    BY <1>1
  <2>3. /\ SubSeq(p, Len(w) + 1, Len(p)) \in Seq(S)
        /\ Len(SubSeq(p, Len(w) + 1, Len(p))) =
             IF Len(w) + 1 <= Len(p) THEN Len(p) - (Len(w) + 1) + 1 ELSE 0
        /\ \A i \in 1..Len(p) - (Len(w) + 1) + 1 :
             SubSeq(p, Len(w) + 1, Len(p))[i] = p[(Len(w) + 1) + i - 1]
    BY <2>1, <2>2, SubSeqProperties
  <2>4. Len(p) - (Len(w) + 1) + 1 = Len(x) /\ \A i \in Nat : (Len(w) + 1) + i - 1 = Len(w) + i
    BY <1>1
  <2>5. Len(SubSeq(p, Len(w) + 1, Len(p))) = Len(x)
    BY <1>1, <2>3
  <2> QED
    BY <2>3, <2>4, <2>5
<1>3. \A i \in 1..Len(x) : p[Len(w) + i] = x[i]
  <2> TAKE i \in 1..Len(x)
  <2>1. Len(w) + i \in 1..Len(w) + Len(x) /\ ~(Len(w) + i <= Len(w)) /\ Len(w) + i - Len(w) = i
    BY <1>1
  <2> QED
    BY <1>1, <2>1
<1>4. SubSeq(p, Len(w) + 1, Len(p)) = x
  BY <1>2, <1>3, SeqEqual
<1>5. Len(w) \in 0..Len(p)
  BY <1>1
<1> QED
  BY <1>4, <1>5 DEF p

(* An element put between two sequences.                                   *)
PutIn(s, i, e) == InsertAt(s, i, e)

(* Inserting between the two puts the element between them.                *)
LEMMA InsertedAt ==
  ASSUME NEW S, NEW w \in Seq(S), NEW x \in Seq(S), NEW e \in S
  PROVE  PutIn(w \o x, Len(w) + 1, e) = w \o (<<e>> \o x)
<1> DEFINE p == w \o x
<1>1. /\ p \in Seq(S) /\ Len(p) = Len(w) + Len(x) /\ Len(w) \in Nat /\ Len(x) \in Nat
      /\ \A i \in 1..Len(w) + Len(x) : p[i] = IF i <= Len(w) THEN w[i] ELSE x[i - Len(w)]
  BY ConcatProperties, LenProperties
<1>2. SubSeq(p, Len(w) + 1, Len(p)) = x
  <2>1. PICK n \in 0..Len(p) : SubSeq(p, n + 1, Len(p)) = x
    BY RestOf
  <2> HIDE DEF p
  <2>2. Len(SubSeq(p, n + 1, Len(p))) = IF n + 1 <= Len(p) THEN Len(p) - (n + 1) + 1 ELSE 0
    <3>1. \A i \in n + 1..Len(p) : p[i] \in S
      BY <1>1, ElementOfSeq
    <3> QED
      BY <1>1, <3>1, SubSeqProperties
  <2>3. n = Len(w)
    BY <1>1, <2>1, <2>2
  <2> QED
    BY <2>1, <2>3
<1> HIDE DEF p
<1>3. SubSeq(p, 1, Len(w)) = w
  <2>1. \A i \in 1..Len(w) : p[i] = w[i]
    BY <1>1
  <2>2. /\ SubSeq(p, 1, Len(w)) \in Seq(S) /\ Len(SubSeq(p, 1, Len(w))) = Len(w)
        /\ \A i \in 1..Len(w) : SubSeq(p, 1, Len(w))[i] = p[i]
    <3>1. \A i \in 1..Len(w) : p[i] \in S
      BY <1>1, ElementOfSeq
    <3> QED
      BY <1>1, <3>1, SubSeqProperties
  <2> QED
    BY <2>1, <2>2, SeqEqual
<1>4. Len(w) + 1 \in 1..Len(p) + 1 /\ Len(w) + 1 - 1 = Len(w)
  BY <1>1
<1>5. InsertAt(p, Len(w) + 1, e) = (w \o <<e>>) \o x
  <2> DEFINE k == Len(w) + 1
  <2>1. k - 1 = Len(w) /\ SubSeq(p, k, Len(p)) = x
    BY <1>2, <1>4
  <2> HIDE DEF k
  <2>2. InsertAt(p, k, e) = SubSeq(p, 1, k - 1) \o <<e>> \o SubSeq(p, k, Len(p))
    BY DEF InsertAt
  <2>3. InsertAt(p, k, e) = (w \o <<e>>) \o x
    BY <1>3, <2>1, <2>2, Zenon
  <2> QED
    BY <2>3 DEF k
<1>6. <<e>> \in Seq(S)
  OBVIOUS
<1>7. (w \o <<e>>) \o x = w \o (<<e>> \o x)
  BY <1>6, TokensAssociate
<1> QED
  BY <1>4, <1>5, <1>7 DEF p, PutIn
-----------------------------------------------------------------------------
(* The caller of the run `order': it pushes over an EOF it got and reads   *)
(* on by character after one, but never over a token that is put back, and *)
(* it leaves a source that failed alone until it dismisses it.             *)
CarefulCaller == CallerMay \subseteq {"push_over_eof", "getch_over_eof"}

(* Then a failed context answers ERR, one that was read to its end has no  *)
(* text left, and a covered context is neither in error nor put back.      *)
Settled(c) ==
  /\ c.err => c.tok = ERR
  /\ c.tok \in {EOF, EOI} => c.line = <<>> /\ c.src = <<>>
Fresh(c) == ~c.ungot /\ c.tok # ERR
SettledStack(s) ==
  /\ \A i \in 1..Len(s) : Settled(s[i])
  /\ \A i \in 2..Len(s) : Fresh(s[i])
RInv ==
  /\ SettledStack(stack)
  /\ pc = "get_tok" => Fresh(ctx)
  /\ ReturnedIsCurrent

(* What the steps need of a state.                                         *)
LEMMA Facts ==
  ASSUME IInv, RInv
  PROVE  /\ stack \in Seq(Context) /\ stack # <<>> /\ Len(stack) \in Nat \ {0}
         /\ ctx \in Context /\ Settled(ctx) /\ ctx.tok \in Tokens
         /\ Tail(stack) \in Seq(Context) /\ Queue(Tail(stack), TRUE) \in Seq(Tokens)
         /\ ctx.tok = EOI => Len(stack) = 1
         /\ Len(stack) = 1 => /\ ctx.line = <<>> /\ ctx.src = <<>>
                              /\ Queue(Tail(stack), TRUE) = <<>>
         /\ \A b \in BOOLEAN :
              Queue(stack, b) = Pending(ctx, b) \o Queue(Tail(stack), TRUE)
<1>1. /\ stack \in Seq(Context) /\ stack # <<>> /\ Len(stack) \in Nat \ {0}
      /\ ctx \in Context /\ ctx = stack[1]
      /\ ctx.tok = EOI => Len(stack) = 1
      /\ Len(stack) = 1 => ctx.line = <<>> /\ ctx.src = <<>>
  BY GoodHead DEF IInv, Good, ctx
<1>2. Settled(ctx)
  BY <1>1 DEF RInv, SettledStack
<1>3. /\ Tail(stack) \in Seq(Context) /\ Queue(Tail(stack), TRUE) \in Seq(Tokens)
      /\ Len(Tail(stack)) = Len(stack) - 1
  BY <1>1, HeadTailProperties, QueueType
<1>4. Len(stack) = 1 => Queue(Tail(stack), TRUE) = <<>>
  <2> HAVE Len(stack) = 1
  <2>1. Len(Tail(stack)) = 0
    BY <1>3
  <2>2. Tail(stack) = <<>>
    BY <1>3, <2>1, EmptySeq
  <2> QED
    BY <2>2, NoQueue
<1>5. \A b \in BOOLEAN : Queue(stack, b) = Pending(ctx, b) \o Queue(Tail(stack), TRUE)
  BY <1>1, QueueOf DEF ctx
<1>6. ctx.tok \in Tokens
  BY <1>1, ContextParts
<1> QED
  BY <1>1, <1>2, <1>3, <1>4, <1>5, <1>6

(* The steps that change the current context only ...                      *)
LEMMA AfterSet ==
  ASSUME IInv, RInv, NEW c \in Context, SetContext(c), Settled(c), ReturnedIsCurrent',
         pc' = "get_tok" => Fresh(c)
  PROVE  /\ RInv'
         /\ \A b \in BOOLEAN :
              Queue(stack', b) = Pending(c, b) \o Queue(Tail(stack), TRUE)
<1>1. /\ stack \in Seq(Context) /\ stack # <<>>
      /\ Len(stack) \in Nat \ {0} /\ Len(stack') = Len(stack)
      /\ stack'[1] = c /\ ctx' = c
      /\ \A i \in 2..Len(stack) : stack'[i] = stack[i]
  BY Facts, SetContextEffect
<1>2. SettledStack(stack)'
  <2>1. \A i \in 1..Len(stack) : i = 1 \/ i \in 2..Len(stack)
    BY <1>1
  <2>2. \A i \in 2..Len(stack) : i \in 1..Len(stack)
    BY <1>1
  <2> QED
    BY <1>1, <2>1, <2>2 DEF RInv, SettledStack
<1>3. \A b \in BOOLEAN : Queue(stack', b) = Pending(c, b) \o Queue(Tail(stack), TRUE)
  BY <1>1, QueueSet DEF SetContext
<1> QED
  BY <1>1, <1>2, <1>3 DEF RInv

(* ... and those that take it off the stack.                               *)
LEMMA SettledTail ==
  ASSUME NEW s \in Seq(Context), Len(s) \in Nat \ {0, 1}, SettledStack(s)
  PROVE  SettledStack(Tail(s)) /\ Fresh(Head(Tail(s))) /\ Settled(Head(Tail(s)))
<1>1. s # <<>>
  BY EmptySeq
<1>2. /\ Tail(s) \in Seq(Context) /\ Len(Tail(s)) = Len(s) - 1
      /\ \A i \in 1..Len(Tail(s)) : Tail(s)[i] = s[i + 1]
  BY <1>1, HeadTailProperties
<1>3. \A i \in 1..Len(Tail(s)) : i + 1 \in 1..Len(s) /\ i + 1 \in 2..Len(s)
  BY <1>2
<1>4. \A i \in 2..Len(Tail(s)) : i \in 1..Len(Tail(s))
  BY <1>2
<1>5. 1 \in 1..Len(Tail(s)) /\ Head(Tail(s)) = Tail(s)[1]
  BY <1>2
<1> QED
  BY <1>2, <1>3, <1>4, <1>5 DEF SettledStack

(* After a pop, the context below is current, settled and fresh.           *)
LEMMA AfterPop ==
  ASSUME IInv, RInv, ~IsInitial, stack' = Below, ReturnedIsCurrent'
  PROVE  RInv' /\ stack' = Tail(stack) /\ Fresh(ctx)' /\ Settled(ctx)' /\ (ctx \in Context)'
<1>1. stack' = Tail(stack) /\ Len(stack) \in Nat \ {0, 1} /\ stack \in Seq(Context)
  BY Facts DEF IsInitial, Below
<1>2. SettledStack(stack)' /\ Fresh(ctx)' /\ Settled(ctx)'
  BY <1>1, SettledTail DEF RInv, ctx
<1>3. Good(stack')
  BY <1>1, GoodPop DEF IInv
<1> QED
  BY <1>1, <1>2, <1>3, GoodHead DEF RInv, ctx

(* The text depends on the line and the source only.                       *)
LEMMA SameText ==
  ASSUME NEW c \in Context, NEW d \in Context, c.line = d.line, c.src = d.src
  PROVE  Text(c) = Text(d)
  BY TextIs
-----------------------------------------------------------------------------
(* One step of the queue.                                                  *)
Before == Queue(stack, pc = "get_tok")
After  == Queue(stack', pc' = "get_tok")

(* Each relation of the queue before and after a step is a step of it.     *)
LEMMA Steps ==
  ASSUME \/ Promise!Get(Before, After) \/ Promise!Unget(Before, After)
         \/ Promise!GetCh(Before, After) \/ Promise!PeekCh(Before, After)
         \/ Promise!Push(Before, After) \/ Promise!Pop(Before, After)
         \/ Promise!Set(Before, After) \/ Promise!WantEof(Before, After)
  PROVE  Promise!Next
  BY DEF Promise!Next, Before, After

(* (TokenQueue has its own names for the operators of SequencesExt.)       *)
LEMMA SameOperators ==
  /\ \A x, y : IsSuffix(x, y) => Promise!IsSuffix(x, y)
  /\ \A x, i, e : Promise!InsertAt(x, i, e) = InsertAt(x, i, e)
  BY DEF Promise!IsSuffix, IsSuffix, Promise!IsPrefix, IsPrefix,
         Promise!Reverse, Reverse, Promise!InsertAt, InsertAt

(* A step that leaves queue and answer alone is none of the queue.         *)
LEMMA Stutters ==
  ASSUME After = Before, UNCHANGED ret
  PROVE  UNCHANGED Promise!vars
  BY DEF Promise!vars, Before, After

(* Returning the front token takes it off, ERR excepted.                   *)
LEMMA TakesFront ==
  ASSUME NEW t \in Tokens, NEW w \in Seq(Tokens), Returns("get_tok", t),
         Before = <<t>> \o w, After = IF t = ERR THEN <<t>> \o w ELSE w
  PROVE  Promise!Next
<1>1. <<t>> \o w # <<>> /\ Head(<<t>> \o w) = t /\ Tail(<<t>> \o w) = w
  BY InFront
<1>2. Promise!Get(Before, After)
  BY <1>1 DEF Promise!Get, Promise!Returned, Returns
<1> QED
  BY <1>2, Steps

(* Returning EOI wants an empty queue.                                     *)
LEMMA TakesNothing ==
  ASSUME Returns("get_tok", EOI), Before = <<>>, After = <<>>
  PROVE  Promise!Next
<1>1. Promise!Get(Before, After)
  BY DEF Promise!Get, Promise!Returned, Returns
<1> QED
  BY <1>1, Steps
-----------------------------------------------------------------------------
(* uls_get_tok().                                                          *)
LEMMA StickyStep ==
  ASSUME IInv, RInv, GetTokSticky
  PROVE  Promise!Next
<1>1. /\ pc = "idle" /\ pc' = pc /\ stack' = stack /\ ctx.tok \in {EOI, ERR}
      /\ Returns("get_tok", ctx.tok)
  BY DEF GetTokSticky
<1>2. Before = Pending(ctx, FALSE) \o Queue(Tail(stack), TRUE) /\ After = Before
  BY <1>1, Facts DEF Before, After
<1>3. CASE ctx.tok = ERR
  <2>1. Pending(ctx, FALSE) = <<ERR>>
    BY <1>3 DEF Pending
  <2> QED
    BY <1>1, <1>2, <1>3, <2>1, Facts, TakesFront
<1>4. CASE ctx.tok = EOI
  <2>1. Pending(ctx, FALSE) = <<>> /\ Queue(Tail(stack), TRUE) = <<>>
    BY <1>4, Facts, EndedPending
  <2>2. Before = <<>>
    BY <1>2, <2>1, Facts, ConcatEmptySeq
  <2> QED
    BY <1>1, <1>2, <1>4, <2>2, TakesNothing
<1> QED
  BY <1>1, <1>3, <1>4

(* A token that was put back is delivered first.                           *)
LEMMA UngotStep ==
  ASSUME IInv, RInv, GetTokUngot
  PROVE  Promise!Next
<1> DEFINE c == [ctx EXCEPT !.ungot = FALSE]
           d == Delivered(Text(ctx), Ends(ctx, FALSE))
           w == Queue(Tail(stack), TRUE)
<1>1. /\ pc = "idle" /\ pc' = pc /\ ctx.tok \notin {EOI, ERR} /\ ctx.ungot
      /\ SetContext(c) /\ Returns("get_tok", ctx.tok)
  BY DEF GetTokUngot
<1>2. ctx \in Context /\ w \in Seq(Tokens) /\ d \in Seq(Tokens) /\ ctx.tok \in Tokens
  BY Facts, ContextParts, DeliveredType
<1>3. c \in Context /\ ~c.ungot /\ c.tok = ctx.tok /\ Text(c) = Text(ctx)
      /\ Ends(c, FALSE) = Ends(ctx, FALSE)
  <2>1. /\ c \in Context /\ ~c.ungot /\ c.tok = ctx.tok /\ c.wantEof = ctx.wantEof
        /\ c.line = ctx.line /\ c.src = ctx.src
    BY <1>2 DEF Context
  <2> HIDE DEF c
  <2> QED
    BY <1>2, <2>1, SameText DEF Ends
<1>4. Pending(ctx, FALSE) = <<ctx.tok>> \o d
  BY <1>1 DEF Pending
<1>5. Pending(c, FALSE) = d
  <2> HIDE DEF c
  <2> QED
    BY <1>1, <1>3, PlainPending
<1>6. Queue(stack', FALSE) = Pending(c, FALSE) \o w
  BY <1>1, <1>3, Facts, QueueSet DEF SetContext
<1>7. Before = (<<ctx.tok>> \o d) \o w /\ After = d \o w
  BY <1>1, <1>4, <1>5, <1>6, Facts DEF Before, After
<1> HIDE DEF d, w
<1>8. d \o w \in Seq(Tokens) /\ (<<ctx.tok>> \o d) \o w = <<ctx.tok>> \o (d \o w)
  <2>1. <<ctx.tok>> \in Seq(Tokens)
    BY <1>2
  <2> QED
    BY <1>2, <2>1, TokensAssociate
<1> QED
  BY <1>1, <1>2, <1>7, <1>8, TakesFront

(* make_eoi_lexeme() is only called when nothing is left.                  *)
LEMMA EoiStep ==
  ASSUME IInv, RInv, MakeEoi, IsInitial, ~ctx.ungot, Before = <<>>
  PROVE  Promise!Next
<1> DEFINE c == [ctx EXCEPT !.tok = EOI]
<1>1. SetContext(c) /\ pc' = "idle" /\ Returns("get_tok", EOI)
  BY DEF MakeEoi
<1>2. /\ ctx \in Context /\ Len(stack) = 1
      /\ ctx.line = <<>> /\ ctx.src = <<>> /\ Queue(Tail(stack), TRUE) = <<>>
  BY Facts DEF IsInitial
<1>3. c \in Context /\ c.tok = EOI /\ c.line = <<>> /\ c.src = <<>>
  BY <1>2, UnitsOK DEF Context
<1>4. Queue(stack', FALSE) = Pending(c, FALSE) \o Queue(Tail(stack), TRUE)
  BY <1>1, <1>3, Facts, QueueSet DEF SetContext
<1> HIDE DEF c
<1>5. Pending(c, FALSE) = <<>>
  BY <1>3, EndedPending
<1>6. After = <<>>
  BY <1>1, <1>2, <1>4, <1>5, Facts, ConcatEmptySeq DEF After
<1> QED
  BY <1>1, <1>6, TakesNothing

(* Popping back to a context has it scanned.                               *)
LEMMA PopStep ==
  ASSUME IInv, RInv, ~IsInitial, stack' = Below, pc' = "get_tok", UNCHANGED ret,
         Pending(ctx, pc = "get_tok") = <<>>
  PROVE  UNCHANGED Promise!vars
<1>1. stack' = Tail(stack)
  BY DEF Below
<1>2. (pc = "get_tok") \in BOOLEAN
  OBVIOUS
<1>3. Before = Pending(ctx, pc = "get_tok") \o Queue(Tail(stack), TRUE)
  BY <1>2, Facts DEF Before
<1>4. Before = Queue(Tail(stack), TRUE)
  BY <1>3, Facts, ConcatEmptySeq
<1> QED
  BY <1>1, <1>4, Stutters DEF After

(* Entering the loop leaves the queue alone: EOF was delivered already.    *)
LEMMA EnterStep ==
  ASSUME IInv, RInv, GetTokEnter
  PROVE  Promise!Next \/ UNCHANGED Promise!vars
<1>1. pc = "idle" /\ ctx.tok \notin {EOI, ERR} /\ ~ctx.ungot /\ pc # "get_tok"
  BY DEF GetTokEnter
<1>2. Before = Pending(ctx, FALSE) \o Queue(Tail(stack), TRUE)
  BY <1>1, Facts DEF Before
<1>3. CASE ctx.tok = EOF
  <2>1. Pending(ctx, FALSE) = <<>>
    BY <1>1, <1>3, Facts, EndedPending DEF Settled
  <2>2. CASE IsInitial
    <3>1. Before = <<>>
      BY <1>2, <2>1, <2>2, Facts, ConcatEmptySeq DEF IsInitial
    <3> QED
      BY <1>1, <1>3, <2>2, <3>1, EoiStep DEF GetTokEnter
  <2>3. CASE ~IsInitial
    <3>1. stack' = Below /\ pc' = "get_tok" /\ UNCHANGED ret
      BY <1>3, <2>3 DEF GetTokEnter
    <3>2. Pending(ctx, pc = "get_tok") = <<>>
      BY <1>1, <2>1
    <3> QED
      BY <2>3, <3>1, <3>2, PopStep
  <2> QED
    BY <2>2, <2>3
<1>4. CASE ctx.tok # EOF
  <2>1. stack' = stack /\ pc' = "get_tok" /\ UNCHANGED ret
    BY <1>4 DEF GetTokEnter
  <2>2. Pending(ctx, FALSE) = Pending(ctx, TRUE)
    BY <1>1, <1>4 DEF Pending, Ends
  <2>3. Before = Queue(stack, TRUE)
    BY <1>2, <2>2, Facts
  <2> QED
    BY <2>1, <2>3, Stutters DEF After
<1> QED
  BY <1>3, <1>4

(* The loop, on a context with nothing put back and no error.              *)
LEMMA LoopFacts ==
  ASSUME IInv, RInv, pc = "get_tok"
  PROVE  /\ ~ctx.ungot /\ ctx.tok # ERR /\ ~ctx.err
         /\ \A b \in BOOLEAN : Pending(ctx, b) = Delivered(Text(ctx), Ends(ctx, b))
         /\ Before = Delivered(Text(ctx), Ends(ctx, TRUE)) \o Queue(Tail(stack), TRUE)
         /\ Ends(ctx, TRUE) = ctx.wantEof
         /\ ~AtText => Blanks(ctx.line)
<1>1. ~ctx.ungot /\ ctx.tok # ERR /\ ~ctx.err
  BY Facts DEF RInv, Fresh, Settled
<1>2. \A b \in BOOLEAN : Pending(ctx, b) = Delivered(Text(ctx), Ends(ctx, b))
  BY <1>1, Facts, PlainPending
<1>3. Before = Delivered(Text(ctx), Ends(ctx, TRUE)) \o Queue(Tail(stack), TRUE)
  BY <1>2, Facts DEF Before
<1>4. Ends(ctx, TRUE) = ctx.wantEof
  BY Facts DEF Ends, Context
<1>5. ~AtText => Blanks(ctx.line)
  BY Facts, ContextParts, LenProperties DEF AtText, Blanks
<1> QED
  BY <1>1, <1>2, <1>3, <1>4, <1>5

(* uls_gettok_raw() finds the first token of the line.                     *)
LEMMA TokenStep ==
  ASSUME IInv, RInv, ScanToken
  PROVE  Promise!Next
<1>1. pc = "get_tok" /\ pc' = "idle"
  BY DEF ScanToken
<1>2. PICK n \in DOMAIN ctx.line :
        LET u == ctx.line[n]
        IN /\ u # Blank /\ \A i \in 1..n-1 : ctx.line[i] = Blank
           /\ SetContext([ctx EXCEPT !.line = SubSeq(@, n + 1, Len(@)),
                                     !.tok = u.t, !.err = @ \/ u = Bad])
           /\ Returns("get_tok", u.t)
  BY DEF ScanToken
<1> DEFINE u == ctx.line[n]
           line == ctx.line
           rest == SubSeq(line, n + 1, Len(line))
           w == FlattenSeq(TextPieces(ctx.src))
           e == Ends(ctx, TRUE)
           z == Queue(Tail(stack), TRUE)
           c == [ctx EXCEPT !.line = SubSeq(@, n + 1, Len(@)),
                            !.tok = u.t, !.err = @ \/ u = Bad]
<1>3. /\ ctx \in Context /\ line \in Seq(Units) /\ w \in Seq(Units)
      /\ ctx.src \in Seq(Chunks) /\ z \in Seq(Tokens)
  BY Facts, ContextParts
<1>4. n \in 1..Len(line) /\ Len(line) \in Nat /\ u \in Units /\ u.t \in Tokens
  BY <1>2, <1>3, LenProperties, ElementOfSeq, UnitToken
<1>5. rest \in Seq(Units)
  <2>1. \A i \in n + 1..Len(line) : line[i] \in Units
    BY <1>3, <1>4, ElementOfSeq
  <2> QED
    BY <1>4, <2>1, SubSeqProperties
<1>6. /\ c \in Context /\ c.tok = u.t /\ c.line = rest /\ c.src = ctx.src
      /\ c.ungot = ctx.ungot /\ c.wantEof = ctx.wantEof
  <2> HIDE DEF rest
  <2>1. c = [ctx EXCEPT !.line = rest, !.tok = u.t, !.err = @ \/ u = Bad]
    BY <1>3 DEF rest, Context
  <2> QED
    BY <1>3, <1>4, <1>5, <2>1 DEF Context, Chunks
<1>7. /\ SetContext(c) /\ Returns("get_tok", u.t)
      /\ u # Blank /\ \A i \in 1..n-1 : line[i] = Blank
  BY <1>2
<1>8. Queue(stack', FALSE) = Pending(c, FALSE) \o z
  BY <1>6, <1>7, Facts, QueueSet DEF SetContext
<1> HIDE DEF c, w
<1>9. Text(c) = rest \o w
  BY <1>6, TextIs DEF w
<1>10. Delivered(Text(ctx), e) = Delivered(<<u>> \o (rest \o w), e)
  <2>1. n \in 1..Len(line) + 1
    BY <1>4
  <2>2. Delivered(line \o w, e) = Delivered(SubSeq(line, n, Len(line)) \o w, e)
    BY <1>3, <1>7, <2>1, SkipBlanks
  <2>3. Len(line) \in n..Len(line)
    BY <1>4
  <2>4. SubSeq(line, n, Len(line)) = <<u>> \o rest
    BY <1>3, <1>4, <2>3, SubSeqRecursiveFirst
  <2>5. Text(ctx) = line \o w
    BY <1>3, TextIs DEF w
  <2>6. <<u>> \in Seq(Units)
    BY <1>4
  <2> HIDE DEF u, rest, line, e
  <2>7. (<<u>> \o rest) \o w = <<u>> \o (rest \o w)
    BY <1>3, <1>5, <2>6, TokensAssociate
  <2> QED
    BY <2>2, <2>4, <2>5, <2>7
<1>11. rest \o w \in Seq(Units)
  BY <1>3, <1>5, ConcatProperties
<1> HIDE DEF u, rest, line
<1>12. CASE u = Bad
  <2>1. Before = <<ERR>> \o z
    BY <1>1, <1>10, <1>11, <1>12, LoopFacts, DeliveredBad
  <2>2. u.t = ERR
    BY <1>12, UnitsOK
  <2>3. Pending(c, FALSE) = <<ERR>>
    BY <1>6, <2>2 DEF Pending
  <2>4. After = <<ERR>> \o z
    BY <1>1, <1>8, <2>3 DEF After
  <2> QED
    BY <1>3, <1>4, <1>7, <2>1, <2>2, <2>4, TakesFront
<1>13. CASE u # Bad
  <2>1. u.t \in Tokens \ Reserved
    BY <1>4, <1>7, <1>13, PlainUnit
  <2>2. u.t \notin {EOI, EOF, ERR}
    BY <2>1 DEF Reserved
  <2> DEFINE d == Delivered(rest \o w, e)
  <2>3. Delivered(Text(ctx), e) = <<u.t>> \o d
    BY <1>4, <1>7, <1>10, <1>11, <1>13, DeliveredCons
  <2>4. Pending(c, FALSE) = d
    <3>1. Ends(c, FALSE) = e
      BY <1>1, <1>6, <2>2, LoopFacts DEF Ends
    <3> HIDE DEF e
    <3> QED
      BY <1>1, <1>6, <1>9, <2>2, <3>1, LoopFacts, PlainPending
  <2>5. d \in Seq(Tokens) /\ <<u.t>> \in Seq(Tokens)
    <3>1. d \in Seq(Tokens)
      BY <1>11, DeliveredType
    <3>2. <<u.t>> \in Seq(Tokens)
      BY <1>4
    <3> QED
      BY <3>1, <3>2
  <2>6. Before = (<<u.t>> \o d) \o z /\ After = d \o z
    BY <1>1, <1>8, <2>3, <2>4, LoopFacts DEF After
  <2> HIDE DEF d, z
  <2>7. (<<u.t>> \o d) \o z = <<u.t>> \o (d \o z) /\ d \o z \in Seq(Tokens)
    BY <1>3, <2>5, TokensAssociate
  <2> QED
    BY <1>4, <1>7, <2>2, <2>6, <2>7, TakesFront
<1> QED
  BY <1>12, <1>13

(* A refill in the loop is no step of the queue.                           *)
LEMMA RefillStep ==
  ASSUME IInv, RInv, ScanRefill
  PROVE  UNCHANGED Promise!vars
<1> DEFINE c == uls_fillbuff(ctx)
<1>1. /\ pc = "get_tok" /\ ~AtText /\ ~FillFails(ctx) /\ ~FillEof(ctx)
      /\ SetContext(c) /\ UNCHANGED <<pc, ret>>
  BY DEF ScanRefill
<1>2. ctx.src # <<>> /\ Head(ctx.src) # Fail /\ ~ctx.err /\ Blanks(ctx.line)
  BY <1>1, LoopFacts DEF FillFails, FillEof
<1>3. /\ c \in Context /\ c.tok = ctx.tok /\ c.ungot = ctx.ungot /\ c.wantEof = ctx.wantEof
  BY <1>2, Facts, FillKeeps DEF uls_fillbuff, Context
<1>4. Delivered(Text(c), Ends(ctx, TRUE)) = Delivered(Text(ctx), Ends(ctx, TRUE))
  BY <1>2, Facts, FilledText
<1>5. Queue(stack', TRUE) = Pending(c, TRUE) \o Queue(Tail(stack), TRUE)
  BY <1>1, <1>3, Facts, QueueSet DEF SetContext
<1> HIDE DEF c
<1>6. Ends(c, TRUE) = Ends(ctx, TRUE)
  BY <1>3 DEF Ends
<1>7. Pending(c, TRUE) = Delivered(Text(ctx), Ends(ctx, TRUE))
  BY <1>1, <1>3, <1>4, <1>6, LoopFacts, PlainPending
<1> QED
  BY <1>1, <1>5, <1>7, LoopFacts, Stutters DEF After

(* A refill that fails answers ERR, and leaves it in the queue.            *)
LEMMA FailedStep ==
  ASSUME IInv, RInv, ScanFailed
  PROVE  Promise!Next
<1> DEFINE c == uls_fillbuff(ctx)
<1>1. /\ pc = "get_tok" /\ ~AtText /\ FillFails(ctx) /\ SetContext(c)
  BY DEF ScanFailed
<1>2. ctx.src # <<>> /\ Head(ctx.src) = Fail /\ ~ctx.err /\ Blanks(ctx.line)
  BY <1>1, LoopFacts DEF FillFails
<1>3. c \in Context /\ c.tok = ERR
  BY <1>2, Facts, FillKeeps DEF uls_fillbuff, Context
<1>4. pc' = "idle" /\ Returns("get_tok", ERR)
  BY <1>3, UnitsOK DEF ScanFailed
<1>5. Queue(stack', FALSE) = Pending(c, FALSE) \o Queue(Tail(stack), TRUE)
  BY <1>1, <1>3, Facts, QueueSet DEF SetContext
<1> HIDE DEF c
<1>6. Pending(c, FALSE) = <<ERR>>
  BY <1>3 DEF Pending
<1>7. Before = <<ERR>> \o Queue(Tail(stack), TRUE)
  BY <1>1, <1>2, Facts, LoopFacts, FailedText
<1>8. After = <<ERR>> \o Queue(Tail(stack), TRUE)
  BY <1>4, <1>5, <1>6 DEF After
<1> QED
  BY <1>4, <1>7, <1>8, Facts, UnitsOK, TakesFront

(* The end of a source answers EOF when wanted, or the context is popped.  *)
LEMMA EofStep ==
  ASSUME IInv, RInv, ScanEof
  PROVE  Promise!Next \/ UNCHANGED Promise!vars
<1> DEFINE c == [uls_fillbuff(ctx) EXCEPT !.tok = EOF]
           w == Queue(Tail(stack), TRUE)
<1>1. /\ pc = "get_tok" /\ ~AtText /\ FillEof(ctx)
  BY DEF ScanEof
<1>2. ctx.src = <<>> /\ ~ctx.err /\ Blanks(ctx.line) /\ ctx \in Context
  BY <1>1, Facts, LoopFacts DEF FillEof
<1>3. Delivered(Text(ctx), Ends(ctx, TRUE)) = IF ctx.wantEof THEN <<EOF>> ELSE <<>>
  <2>1. \A e : Delivered(Text(ctx), e) = IF e THEN <<EOF>> ELSE <<>>
    BY <1>2, NoText
  <2> QED
    BY <1>1, <2>1, LoopFacts
<1>4. Before = (IF ctx.wantEof THEN <<EOF>> ELSE <<>>) \o w
  BY <1>1, <1>3, LoopFacts
<1>5. CASE ctx.wantEof
  <2>1. SetContext(c) /\ pc' = "idle" /\ Returns("get_tok", EOF)
    BY <1>5 DEF ScanEof
  <2>2. /\ c \in Context /\ c.tok = EOF /\ c.line = <<>> /\ c.src = <<>>
        /\ c.ungot = ctx.ungot
    BY <1>2, UnitsOK DEF uls_fillbuff, Context
  <2>3. Queue(stack', FALSE) = Pending(c, FALSE) \o w
    BY <2>1, <2>2, Facts, QueueSet DEF SetContext
  <2> HIDE DEF c
  <2>4. Pending(c, FALSE) = <<>>
    BY <1>1, <2>2, LoopFacts, EndedPending
  <2>5. After = w
    BY <2>1, <2>3, <2>4, Facts, ConcatEmptySeq DEF After
  <2> QED
    BY <1>4, <1>5, <2>1, <2>5, Facts, UnitsOK, TakesFront
<1>6. CASE ~ctx.wantEof /\ IsInitial
  <2>1. MakeEoi
    BY <1>6 DEF ScanEof
  <2>2. Before = <<>>
    BY <1>4, <1>6, Facts, ConcatEmptySeq DEF IsInitial
  <2> QED
    BY <1>1, <1>6, <2>1, <2>2, LoopFacts, EoiStep
<1>7. CASE ~ctx.wantEof /\ ~IsInitial
  <2>1. stack' = Below /\ UNCHANGED <<pc, ret>>
    BY <1>7 DEF ScanEof
  <2>2. Pending(ctx, pc = "get_tok") = <<>>
    <3>1. (pc = "get_tok") = TRUE
      BY <1>1
    <3>2. Pending(ctx, TRUE) = <<>>
      BY <1>1, <1>3, <1>7, LoopFacts
    <3> QED
      BY <3>1, <3>2
  <2> QED
    BY <1>1, <1>7, <2>1, <2>2, PopStep
<1> QED
  BY <1>5, <1>6, <1>7
-----------------------------------------------------------------------------
(* uls_unget_current().                                                    *)
LEMMA UngetStep ==
  ASSUME IInv, RInv, UngetCurrent
  PROVE  Promise!Next
<1> DEFINE c == [ctx EXCEPT !.ungot = TRUE]
           d == Delivered(Text(ctx), Ends(ctx, FALSE))
           w == Queue(Tail(stack), TRUE)
<1>1. /\ pc = "idle" /\ pc' = pc /\ ret.call = "get_tok" /\ ~ctx.ungot
      /\ SetContext(c) /\ Returns("unget", ctx.tok) /\ ctx.tok = ret.val
  BY DEF UngetCurrent, RInv, ReturnedIsCurrent
<1>2. ctx \in Context /\ w \in Seq(Tokens) /\ d \in Seq(Tokens) /\ ctx.tok \in Tokens
  BY Facts, ContextParts, DeliveredType
<1>3. c \in Context /\ c.ungot /\ c.tok = ctx.tok /\ Text(c) = Text(ctx)
      /\ Ends(c, FALSE) = Ends(ctx, FALSE)
  <2>1. /\ c \in Context /\ c.ungot /\ c.tok = ctx.tok /\ c.wantEof = ctx.wantEof
        /\ c.line = ctx.line /\ c.src = ctx.src
    BY <1>2 DEF Context
  <2> HIDE DEF c
  <2> QED
    BY <1>2, <2>1, SameText DEF Ends
<1>4. Queue(stack', FALSE) = Pending(c, FALSE) \o w
  BY <1>1, <1>3, Facts, QueueSet DEF SetContext
<1> HIDE DEF c
<1>5. Before = Pending(ctx, FALSE) \o w /\ After = Pending(c, FALSE) \o w
  BY <1>1, <1>4, Facts DEF Before, After
<1>6. ctx.tok \in {EOI, ERR} => Pending(c, FALSE) = Pending(ctx, FALSE)
  <2>1. ctx.tok = ERR => Pending(c, FALSE) = <<ERR>> /\ Pending(ctx, FALSE) = <<ERR>>
    BY <1>3 DEF Pending
  <2>2. ctx.tok = EOI => Pending(ctx, FALSE) = d
    BY <1>1, <1>2, UnitsOK, PlainPending
  <2>3. ctx.tok = EOI => Pending(c, FALSE) = Delivered(Text(c), Ends(c, FALSE))
    BY <1>3, UnitsOK, PlainPending
  <2>4. Delivered(Text(c), Ends(c, FALSE)) = d
    BY <1>3, Zenon
  <2> DEFINE p == Pending(c, FALSE)
             q == Pending(ctx, FALSE)
  <2>5. ctx.tok = ERR => p = q
    BY <2>1, Zenon
  <2>6. ctx.tok = EOI => p = q
    BY <2>2, <2>3, <2>4, Zenon
  <2> HIDE DEF p, q
  <2>7. ctx.tok \in {EOI, ERR} => p = q
    BY <2>5, <2>6
  <2> QED
    BY <2>7 DEF p, q
<1>7. ctx.tok \notin {EOI, ERR} =>
        Pending(ctx, FALSE) = d /\ Pending(c, FALSE) = <<ctx.tok>> \o d
  <2> HAVE ctx.tok \notin {EOI, ERR}
  <2>1. Pending(ctx, FALSE) = d
    BY <1>1, <1>2, PlainPending
  <2>2. Pending(c, FALSE) = <<ctx.tok>> \o d
    BY <1>3 DEF Pending
  <2> QED
    BY <2>1, <2>2
<1> HIDE DEF d, w
<1>8. (<<ctx.tok>> \o d) \o w = <<ctx.tok>> \o (d \o w)
  <2>1. <<ctx.tok>> \in Seq(Tokens)
    BY <1>2
  <2> QED
    BY <1>2, <2>1, TokensAssociate
<1>9. After = IF ret.val \in {EOI, ERR} THEN Before ELSE <<ret.val>> \o Before
  BY <1>1, <1>5, <1>6, <1>7, <1>8
<1>10. Promise!Unget(Before, After)
  BY <1>1, <1>9 DEF Promise!Unget, Promise!Returned, Returns
<1> QED
  BY <1>10, Steps
-----------------------------------------------------------------------------
(* uls_push_*(), uls_set_*(), uls_pop() and uls_pop_all().  A context that *)
(* is covered, or was, may have its EOF to deliver (again); one that is    *)
(* current may not: that is all that differs.                              *)
LEMMA CoveredPending ==
  ASSUME NEW c \in Context, Settled(c), ~c.ungot
  PROVE  \E w \in Seq(Tokens) : Pending(c, TRUE) = w \o Pending(c, FALSE)
<1>1. CASE c.tok \in {EOF, EOI}
  <2>1. Pending(c, FALSE) = <<>>
    BY <1>1, EndedPending DEF Settled
  <2>2. Pending(c, TRUE) \in Seq(Tokens)
    BY PendingType
  <2>3. Pending(c, TRUE) = Pending(c, TRUE) \o <<>>
    BY <2>2, ConcatEmptySeq
  <2> QED
    BY <2>1, <2>2, <2>3
<1>2. CASE c.tok \notin {EOF, EOI}
  <2>1. Pending(c, TRUE) = Pending(c, FALSE)
    BY <1>2 DEF Pending, Ends
  <2>2. Pending(c, FALSE) \in Seq(Tokens) /\ <<>> \in Seq(Tokens)
    BY PendingType, EmptySeq
  <2>3. Pending(c, FALSE) = <<>> \o Pending(c, FALSE)
    BY <2>2, ConcatEmptySeq
  <2> QED
    BY <2>1, <2>2, <2>3
<1> QED
  BY <1>1, <1>2

(* The same of a stack: only the EOF of its first context may come again.  *)
LEMMA CoveredQueue ==
  ASSUME NEW s \in Seq(Context), s # <<>>, Settled(Head(s)), ~Head(s).ungot
  PROVE  \E w \in Seq(Tokens) : Queue(s, TRUE) = w \o Queue(s, FALSE)
<1> DEFINE c == Head(s)
           z == Queue(Tail(s), TRUE)
<1>1. c \in Context /\ Tail(s) \in Seq(Context) /\ z \in Seq(Tokens)
  BY HeadAndTail, QueueType
<1>2. Queue(s, TRUE) = Pending(c, TRUE) \o z /\ Queue(s, FALSE) = Pending(c, FALSE) \o z
  BY QueueOf
<1>3. PICK w \in Seq(Tokens) : Pending(c, TRUE) = w \o Pending(c, FALSE)
  BY <1>1, CoveredPending
<1> DEFINE y == Pending(c, FALSE)
<1>4. y \in Seq(Tokens)
  BY <1>1, PendingType
<1>5. Queue(s, TRUE) = (w \o y) \o z /\ Queue(s, FALSE) = y \o z
  BY <1>2, <1>3
<1> HIDE DEF y, z
<1>6. (w \o y) \o z = w \o (y \o z)
  BY <1>1, <1>4, TokensAssociate
<1> QED
  BY <1>5, <1>6

(* Dismissing the current context drops the tokens it had in front.        *)
LEMMA BelowQueue ==
  ASSUME IInv, RInv, pc = "idle"
  PROVE  /\ Below \in Seq(Context) /\ Below # <<>> /\ SettledStack(Below)
         /\ Head(Below) \in Context /\ Settled(Head(Below))
         /\ \E w \in Seq(Tokens) : Before = w \o Queue(Below, FALSE)
<1>1. Before = Queue(stack, FALSE) /\ Before \in Seq(Tokens)
  BY Facts, QueueType DEF Before
<1>2. CASE IsInitial
  <2>1. <<>> \in Seq(Tokens) /\ Before = <<>> \o Before
    BY <1>1, ConcatEmptySeq, EmptySeq
  <2>2. Below = stack
    BY <1>2 DEF Below
  <2>3. SettledStack(stack) /\ Head(stack) \in Context /\ Settled(Head(stack))
    BY Facts DEF RInv, ctx
  <2> QED
    BY <1>1, <2>1, <2>2, <2>3, Facts
<1>3. CASE ~IsInitial
  <2>1. Below = Tail(stack) /\ Len(stack) \in Nat \ {0, 1}
    BY <1>3, Facts DEF Below, IsInitial
  <2>2. /\ SettledStack(Tail(stack)) /\ Fresh(Head(Tail(stack)))
        /\ Settled(Head(Tail(stack)))
    BY <2>1, Facts, SettledTail DEF RInv
  <2>3. Tail(stack) \in Seq(Context) /\ Tail(stack) # <<>>
    BY <2>1, GoodPop DEF IInv, Good
  <2>4. PICK w \in Seq(Tokens) : Queue(Tail(stack), TRUE) = w \o Queue(Tail(stack), FALSE)
    BY <2>2, <2>3, CoveredQueue DEF Fresh
  <2> DEFINE x == Pending(ctx, FALSE)
             y == Queue(Tail(stack), FALSE)
  <2>5. x \in Seq(Tokens) /\ y \in Seq(Tokens)
    BY <2>3, Facts, PendingType, QueueType
  <2>6. Before = x \o (w \o y)
    BY <1>1, <2>4, Facts
  <2>7. Head(Tail(stack)) \in Context
    BY <2>3, HeadAndTail
  <2> HIDE DEF x
  <2>8. Before = (x \o w) \o y /\ x \o w \in Seq(Tokens)
    <3> HIDE DEF y
    <3> QED
      BY <2>5, <2>6, TokensAssociate
  <2> QED
    BY <2>1, <2>2, <2>3, <2>7, <2>8
<1> QED
  BY <1>2, <1>3

(* A context that was just pushed is settled.                              *)
LEMMA FilledSettled ==
  ASSUME NEW src \in Sources, NEW want \in BOOLEAN
  PROVE  Filled(src, want) \in Context /\ Settled(Filled(src, want))
<1> DEFINE c == uls_init_context("source", src, want)
<1>1. /\ c \in Context /\ c.tok = NONE /\ c.err = FALSE
  BY ConstantsOK, EmptySeq DEF uls_init_context, Context, Chunks, Tokens, Reserved
<1>2. uls_fillbuff(c).tok \in {NONE, ERR} /\ (uls_fillbuff(c).err => uls_fillbuff(c).tok = ERR)
  BY <1>1 DEF uls_fillbuff, Context
<1> QED
  BY <1>2, FilledIsSource, UnitsOK DEF Settled, Filled

(* Pushing a settled context over a fresh one keeps the stack settled.     *)
LEMMA SettledPush ==
  ASSUME NEW s \in Seq(Context), s # <<>>, SettledStack(s), Fresh(Head(s)),
         NEW c \in Context, Settled(c)
  PROVE  SettledStack(<<c>> \o s)
<1>1. /\ Len(<<c>> \o s) = Len(s) + 1 /\ (<<c>> \o s)[1] = c
      /\ \A i \in 1..Len(s) : (<<c>> \o s)[i + 1] = s[i]
      /\ Len(s) \in Nat \ {0} /\ s[1] = Head(s)
  BY InFront, HeadAndTail
<1>2. \A i \in 1..Len(s) + 1 : i = 1 \/ (i - 1 \in 1..Len(s) /\ i = (i - 1) + 1)
  BY <1>1
<1>3. \A i \in 2..Len(s) + 1 :
        /\ i - 1 \in 1..Len(s) /\ i = (i - 1) + 1
        /\ i - 1 = 1 \/ i - 1 \in 2..Len(s)
  BY <1>1
<1>4. \A i \in 1..Len(s) + 1 : Settled((<<c>> \o s)[i])
  BY <1>1, <1>2 DEF SettledStack
<1>5. \A i \in 2..Len(s) + 1 : Fresh((<<c>> \o s)[i])
  BY <1>1, <1>3 DEF SettledStack
<1> QED
  BY <1>1, <1>4, <1>5 DEF SettledStack

(* A push onto a stack: what was to come from it comes last.               *)
LEMMA OntoStep ==
  ASSUME CarefulCaller, NEW below \in Seq(Context), below # <<>>, SettledStack(below),
         Head(below) \in Context, Settled(Head(below)),
         NEW src \in Sources, PushOnto(below, src)
  PROVE  /\ SettledStack(stack)' /\ pc' = "idle" /\ pc = "idle" /\ ret'.call = "push"
         /\ \E w \in Seq(Tokens) : After = w \o Queue(below, FALSE)
<1> DEFINE x == Queue(below, FALSE)
<1>1. ~Head(below).ungot /\ Head(below).tok # ERR
  BY DEF PushOnto, MayPushOver, CarefulCaller
<1>2. PICK w \in Seq(Tokens) : Queue(below, TRUE) = w \o x
  BY <1>1, CoveredQueue
<1>3. pc = "idle" /\ pc' = "idle"
  BY DEF PushOnto
<1>4. x \in Seq(Tokens)
  BY QueueType
<1>5. ASSUME NEW want \in BOOLEAN, stack' = <<Filled(src, want)>> \o below
      PROVE  SettledStack(stack)' /\ \E v \in Seq(Tokens) : After = v \o x
  <2> DEFINE c == Filled(src, want)
             y == Pending(c, FALSE)
  <2>1. c \in Context /\ Settled(c)
    BY FilledSettled
  <2>2. SettledStack(stack)'
    BY <1>1, <1>5, <2>1, SettledPush DEF Fresh, SettledStack
  <2>3. After = y \o Queue(below, TRUE) /\ y \in Seq(Tokens)
    BY <1>3, <1>5, <2>1, QueueCons, PendingType DEF After
  <2>4. After = y \o (w \o x)
    BY <1>2, <2>3
  <2> HIDE DEF x, y
  <2>5. (y \o w) \o x = y \o (w \o x)
    BY <1>4, <2>3, TokensAssociate
  <2>6. y \o w \in Seq(Tokens)
    BY <2>3, ConcatProperties
  <2> QED
    BY <2>2, <2>4, <2>5, <2>6
<1>6. ASSUME stack' = below
      PROVE  SettledStack(stack)' /\ \E v \in Seq(Tokens) : After = v \o x
  <2>1. After = x
    BY <1>3, <1>6 DEF After
  <2>2. <<>> \in Seq(Tokens) /\ After = <<>> \o x
    BY <1>4, <2>1, ConcatEmptySeq, EmptySeq
  <2>3. SettledStack(stack)'
    BY <1>6 DEF SettledStack
  <2> QED
    BY <2>2, <2>3
<1>7. Head(below).wantEof \in BOOLEAN
  BY DEF Context
<1>8. \E want \in BOOLEAN : PushLine(below, src, want) \/ PushStream(below, src, want)
  BY <1>7 DEF PushOnto
<1>9. PICK want \in BOOLEAN : PushLine(below, src, want) \/ PushStream(below, src, want)
  BY <1>8
<1>10. stack' = below \/ stack' = <<Filled(src, want)>> \o below
  BY <1>9 DEF PushLine, PushStream
<1>11. ret'.call = "push"
  BY <1>9 DEF PushLine, PushStream, Returns
<1> QED
  BY <1>3, <1>5, <1>6, <1>10, <1>11

(* uls_push_*() puts tokens before all that were pending.                  *)
LEMMA PushStep ==
  ASSUME CarefulCaller, IInv, RInv, Push
  PROVE  Promise!Next /\ SettledStack(stack)' /\ pc' = "idle"
<1>1. PICK src \in Sources : PushOnto(stack, src)
  BY DEF Push
<1>2. SettledStack(stack) /\ Head(stack) \in Context /\ Settled(Head(stack))
  BY Facts DEF RInv, ctx
<1>3. /\ SettledStack(stack)' /\ pc = "idle" /\ pc' = "idle" /\ ret'.call = "push"
      /\ \E w \in Seq(Tokens) : After = w \o Queue(stack, FALSE)
  BY <1>1, <1>2, Facts, OntoStep
<1>4. Before = Queue(stack, FALSE) /\ Before \in Seq(Tokens)
  BY <1>3, Facts, QueueType DEF Before
<1>5. IsSuffix(Before, After)
  BY <1>3, <1>4, SuffixOf
<1>6. Promise!Push(Before, After)
  BY <1>3, <1>5, SameOperators DEF Promise!Push
<1> QED
  BY <1>3, <1>6, Steps

(* uls_set_*() drops those of the current source first.                    *)
LEMMA SetStep ==
  ASSUME CarefulCaller, IInv, RInv, Set
  PROVE  Promise!Next /\ SettledStack(stack)' /\ pc' = "idle"
<1>1. PICK src \in Sources : PushOnto(Below, src)
  BY DEF Set
<1>2. pc = "idle"
  BY <1>1 DEF PushOnto
<1>3. /\ Below \in Seq(Context) /\ Below # <<>> /\ SettledStack(Below)
      /\ Head(Below) \in Context /\ Settled(Head(Below))
      /\ \E w \in Seq(Tokens) : Before = w \o Queue(Below, FALSE)
  BY <1>2, BelowQueue
<1>4. /\ SettledStack(stack)' /\ pc' = "idle" /\ ret'.call = "push"
      /\ \E w \in Seq(Tokens) : After = w \o Queue(Below, FALSE)
  BY <1>1, <1>3, OntoStep
<1>5. Queue(Below, FALSE) \in Seq(Tokens)
  BY <1>3, QueueType
<1>6. IsSuffix(Queue(Below, FALSE), After)
  BY <1>4, <1>5, SuffixOf
<1>7. \E n \in 0..Len(Before) : SubSeq(Before, n + 1, Len(Before)) = Queue(Below, FALSE)
  BY <1>3, <1>5, RestOf
<1>8. Promise!Set(Before, After)
  BY <1>4, <1>6, <1>7, SameOperators DEF Promise!Set
<1> QED
  BY <1>4, <1>8, Steps

(* uls_pop() drops them only.                                              *)
LEMMA PopStepDone ==
  ASSUME IInv, RInv, Pop
  PROVE  Promise!Next
<1>1. pc = "idle" /\ pc' = pc /\ ~IsInitial /\ stack' = Below /\ Returns("pop", "ok")
  BY DEF Pop
<1>2. Below \in Seq(Context) /\ \E w \in Seq(Tokens) : Before = w \o Queue(Below, FALSE)
  BY <1>1, BelowQueue
<1>3. After = Queue(Below, FALSE) /\ After \in Seq(Tokens)
  BY <1>1, <1>2, QueueType DEF After
<1>4. IsSuffix(After, Before)
  BY <1>2, <1>3, SuffixOf
<1>5. Promise!Pop(Before, After)
  BY <1>1, <1>4, SameOperators DEF Promise!Pop, Promise!Returned, Returns
<1> QED
  BY <1>5, Steps

(* uls_pop_all() leaves those of the initial context.                      *)
LEMMA PopAllStep ==
  ASSUME IInv, RInv, PopAll
  PROVE  Promise!Next /\ SettledStack(stack)' /\ pc' = "idle"
<1> DEFINE c == Last(stack)
<1>1. pc = "idle" /\ pc' = pc /\ ~IsInitial /\ stack' = <<c>> /\ Returns("pop", "ok")
  BY DEF PopAll
<1>2. /\ Len(stack) \in Nat /\ Len(stack) > 1
      /\ Len(stack) \in 1..Len(stack) /\ Len(stack) \in 2..Len(stack)
  BY <1>1, Facts DEF IsInitial
<1>3. c \in Context /\ c = stack[Len(stack)]
  BY <1>2, Facts, ElementOfSeq DEF Last
<1>4. Settled(c) /\ Fresh(c)
  BY <1>2, <1>3 DEF RInv, SettledStack
<1>5. PICK v \in Seq(Tokens) : Before = v \o Pending(c, TRUE)
  BY <1>1, <1>2, Facts, QueueLast DEF Before
<1> HIDE DEF c
<1>6. PICK w \in Seq(Tokens) : Pending(c, TRUE) = w \o Pending(c, FALSE)
  BY <1>3, <1>4, CoveredPending DEF Fresh
<1> DEFINE x == Pending(c, FALSE)
<1>7. After = x /\ x \in Seq(Tokens)
  BY <1>1, <1>3, QueueOne, PendingType DEF After
<1>8. Before = v \o (w \o x)
  BY <1>5, <1>6
<1> HIDE DEF x
<1>9. v \o (w \o x) = (v \o w) \o x /\ v \o w \in Seq(Tokens)
  <2>1. v \in Seq(Tokens) /\ w \in Seq(Tokens) /\ x \in Seq(Tokens)
    BY <1>7
  <2> QED
    BY ONLY <2>1, TokensAssociate
<1>10. IsSuffix(After, Before)
  BY <1>7, <1>8, <1>9, SuffixOf
<1>11. Promise!Pop(Before, After)
  BY <1>1, <1>10, SameOperators DEF Promise!Pop, Promise!Returned, Returns
<1>12. SettledStack(stack)'
  <2>1. Len(<<c>>) = 1 /\ <<c>>[1] = c
    OBVIOUS
  <2> QED
    BY <1>1, <1>4, <2>1 DEF SettledStack
<1> QED
  BY <1>1, <1>11, <1>12, Steps

-----------------------------------------------------------------------------
(* uls_want_eof(), uls_unwant_eof(): all they change of what a context     *)
(* delivers is the EOF after its text.                                     *)
LEMMA EofOrNot ==
  ASSUME NEW text \in Seq(Units), NEW a, NEW b
  PROVE  \/ Delivered(text, b) = Delivered(text, a)
         \/ Delivered(text, b) = Delivered(text, a) \o <<EOF>>
         \/ Delivered(text, a) = Delivered(text, b) \o <<EOF>>
<1> DEFINE u == UptoError(text)
           v == Tokenised(u)
<1>1. u \in Seq(Units)
  BY UptoErrorType
<1>2. v \in Seq(Tokens) /\ v \o <<>> = v
  BY <1>1, TokenisedType, ConcatEmptySeq
<1>3. \A e : Delivered(text, e) = v \o EofAfter(u, e)
  BY <1>1, DeliveredIs
<1>4. \A e : EofAfter(u, e) \in {<<>>, <<EOF>>}
  BY DEF EofAfter
<1> HIDE DEF u, v
<1>5. ASSUME NEW e PROVE Delivered(text, e) = v \/ Delivered(text, e) = v \o <<EOF>>
  <2>1. CASE EofAfter(u, e) = <<>>
    BY <1>2, <1>3, <2>1, Zenon
  <2>2. CASE EofAfter(u, e) = <<EOF>>
    BY <1>3, <2>2, Zenon
  <2> QED
    BY <1>4, <2>1, <2>2
<1>6. Delivered(text, a) = v \/ Delivered(text, a) = v \o <<EOF>>
  BY <1>5
<1>7. Delivered(text, b) = v \/ Delivered(text, b) = v \o <<EOF>>
  BY <1>5
<1> QED
  BY <1>6, <1>7

(* An EOF after the text of a context is one inserted in the queue.        *)
LEMMA InsertedEof ==
  ASSUME NEW first \in Seq(Tokens), NEW text \in Seq(Tokens), NEW rest \in Seq(Tokens)
  PROVE  /\ Len(first \o text) + 1 \in 1..Len((first \o text) \o rest) + 1
         /\ InsertAt((first \o text) \o rest, Len(first \o text) + 1, EOF) =
              (first \o (text \o <<EOF>>)) \o rest
<1> DEFINE g == first \o text
           f == <<EOF>>
<1>1. g \in Seq(Tokens) /\ EOF \in Tokens
  BY ConcatProperties, UnitsOK
<1>2. f \in Seq(Tokens)
  BY <1>1
<1>3. PutIn(g \o rest, Len(g) + 1, EOF) = g \o (<<EOF>> \o rest)
  <2>1. g \in Seq(Tokens) /\ EOF \in Tokens
    BY <1>1
  <2> HIDE DEF f, g
  <2> QED
    BY <2>1, InsertedAt
<1>4. (first \o text) \o f = first \o (text \o f)
  <2> HIDE DEF f
  <2> QED
    BY <1>2, TokensAssociate
<1>5. (g \o f) \o rest = g \o (f \o rest)
  <2>1. g \in Seq(Tokens)
    BY <1>1
  <2> HIDE DEF f, g
  <2> QED
    BY <1>2, <2>1, TokensAssociate
<1>6. Len(g) + 1 \in 1..Len(g \o rest) + 1
  <2>1. g \in Seq(Tokens)
    BY <1>1
  <2>2. Len(g \o rest) = Len(g) + Len(rest) /\ Len(g) \in Nat /\ Len(rest) \in Nat
    BY <2>1, ConcatProperties, LenProperties
  <2> QED
    BY <2>2
<1> QED
  BY <1>3, <1>4, <1>5, <1>6, Zenon DEF PutIn

(* Asking for EOF, or renouncing it, adds or takes one EOF at most.        *)
LEMMA WantEofStep ==
  ASSUME IInv, RInv, NEW want \in BOOLEAN, WantEof(want), ReturnedIsCurrent'
  PROVE  Promise!Next /\ RInv'
<1> DEFINE c == [ctx EXCEPT !.wantEof = want]
           w == Queue(Tail(stack), TRUE)
           h == IF ctx.ungot /\ ctx.tok # EOI THEN <<ctx.tok>> ELSE <<>>
           D(e) == Delivered(Text(ctx), e)
<1>1. pc = "idle" /\ pc' = pc /\ SetContext(c) /\ Returns("want_eof", "ok")
  BY DEF WantEof
<1>2. /\ ctx \in Context /\ w \in Seq(Tokens) /\ ctx.tok \in Tokens
      /\ \A e : D(e) \in Seq(Tokens)
  BY Facts, ContextParts, DeliveredType
<1>3. /\ c \in Context /\ c.ungot = ctx.ungot /\ c.tok = ctx.tok /\ c.err = ctx.err
      /\ c.line = ctx.line /\ c.src = ctx.src
  BY <1>2 DEF Context
<1> HIDE DEF c
<1>4. Text(c) = Text(ctx) /\ Settled(c)
  BY <1>2, <1>3, Facts, SameText DEF Settled
<1>5. RInv' /\ \A b \in BOOLEAN : Queue(stack', b) = Pending(c, b) \o w
  BY <1>1, <1>3, <1>4, AfterSet
<1>6. Before = Pending(ctx, FALSE) \o w /\ After = Pending(c, FALSE) \o w
  BY <1>1, <1>5, Facts DEF Before, After
<1>7. ret'.call = "want_eof" /\ Promise!Returned("want_eof", "ok")
  BY <1>1 DEF Returns, Promise!Returned
<1>8. CASE ctx.tok = ERR
  <2>1. After = Before
    BY <1>3, <1>6, <1>8 DEF Pending
  <2>2. Promise!WantEof(Before, After)
    BY <1>7, <2>1 DEF Promise!WantEof
  <2> QED
    BY <1>5, <2>2, Steps
<1>9. CASE ctx.tok # ERR
  <2> DEFINE x == D(Ends(ctx, FALSE))
             y == D(Ends(c, FALSE))
  <2>1. Pending(ctx, FALSE) = h \o x
    BY <1>9 DEF Pending
  <2>2. Pending(c, FALSE) = h \o y
    BY <1>3, <1>4, <1>9 DEF Pending
  <2>3. y = x \/ y = x \o <<EOF>> \/ x = y \o <<EOF>>
    BY <1>2, ContextParts, EofOrNot
  <2>4. h \in Seq(Tokens) /\ x \in Seq(Tokens) /\ y \in Seq(Tokens)
    <3>1. <<>> \in Seq(Tokens) /\ <<ctx.tok>> \in Seq(Tokens)
      BY <1>2
    <3>2. h \in Seq(Tokens)
      BY <3>1
    <3> QED
      BY <1>2, <3>2
  <2>10. w \in Seq(Tokens)
    BY <1>2
  <2> HIDE DEF h, x, y, w
  <2>5. Before = (h \o x) \o w /\ After = (h \o y) \o w
    BY <1>6, <2>1, <2>2
  <2>6. y = x => After = Before
    BY <2>5
  <2>7. y = x \o <<EOF>> => \E i \in 1..Len(Before) + 1 : After = InsertAt(Before, i, EOF)
    <3>1. /\ Len(h \o x) + 1 \in 1..Len((h \o x) \o w) + 1
          /\ InsertAt((h \o x) \o w, Len(h \o x) + 1, EOF) = (h \o (x \o <<EOF>>)) \o w
      BY <2>4, <2>10, InsertedEof
    <3> QED
      BY <2>5, <3>1, Zenon
  <2>8. x = y \o <<EOF>> => \E i \in 1..Len(After) + 1 : Before = InsertAt(After, i, EOF)
    <3>1. /\ Len(h \o y) + 1 \in 1..Len((h \o y) \o w) + 1
          /\ InsertAt((h \o y) \o w, Len(h \o y) + 1, EOF) = (h \o (y \o <<EOF>>)) \o w
      BY <2>4, <2>10, InsertedEof
    <3> QED
      BY <2>5, <3>1, Zenon
  <2>9. Promise!WantEof(Before, After)
    BY <1>7, <2>3, <2>6, <2>7, <2>8, SameOperators DEF Promise!WantEof
  <2> QED
    BY <1>5, <2>9, Steps
<1> QED
  BY <1>8, <1>9
-----------------------------------------------------------------------------
(* uls_peek_ch() and uls_get_ch().  A refill of an empty line delivers     *)
(* what the source had to deliver.                                         *)
LEMMA PeekedPending ==
  ASSUME NEW c \in Context, Settled(c), ~c.ungot, NEW b \in BOOLEAN
  PROVE  /\ Peeked(c) \in Context /\ Settled(Peeked(c)) /\ ~Peeked(c).ungot
         /\ Peeked(c).wantEof = c.wantEof
         /\ Peeked(c).tok = c.tok \/ Peeked(c).err
         /\ Pending(Peeked(c), b) = Pending(c, b)
<1> DEFINE d == uls_fillbuff(c)
<1>1. c.src \in Seq(Chunks) /\ c.line \in Seq(Units)
  BY ContextParts
<1>2. CASE c.line # <<>> \/ c.err
  <2>1. Peeked(c) = c
    BY <1>2 DEF Peeked, uls_fillbuff
  <2> QED
    BY <2>1
<1>3. CASE c.line = <<>> /\ ~c.err /\ c.src = <<>>
  <2>1. Peeked(c) = d
    BY <1>3 DEF Peeked
  <2>2. /\ d \in Context /\ d.line = c.line /\ d.src = c.src /\ d.tok = c.tok
        /\ d.ungot = c.ungot /\ d.wantEof = c.wantEof /\ d.err = c.err
    BY <1>3, FillKeeps DEF uls_fillbuff, Context
  <2> HIDE DEF d
  <2>3. Text(d) = Text(c)
    BY <2>2, SameText
  <2>4. Pending(d, b) = Pending(c, b)
    BY <2>2, <2>3 DEF Pending, Ends
  <2> QED
    BY <2>1, <2>2, <2>4 DEF Settled
<1>4. CASE c.line = <<>> /\ ~c.err /\ c.src # <<>> /\ Head(c.src) = Fail
  <2>1. Peeked(c) = d
    BY <1>4 DEF Peeked
  <2>2. /\ d \in Context /\ d.tok = ERR /\ d.ungot = c.ungot
        /\ d.wantEof = c.wantEof /\ d.err
    BY <1>4, FillKeeps DEF uls_fillbuff, Context
  <2> HIDE DEF d
  <2>3. Pending(d, b) = <<ERR>>
    BY <2>2 DEF Pending
  <2>4. Delivered(Text(c), Ends(c, b)) = <<ERR>>
    BY <1>4, NoLine, FailedText
  <2>5. Pending(c, b) = <<ERR>>
    BY <2>4, PlainPending
  <2>6. Settled(d)
    BY <2>2, UnitsOK DEF Settled
  <2> QED
    BY <2>1, <2>2, <2>3, <2>5, <2>6
<1>5. CASE c.line = <<>> /\ ~c.err /\ c.src # <<>> /\ Head(c.src) # Fail
  <2>1. Peeked(c) = d
    BY <1>5 DEF Peeked
  <2>2. /\ d \in Context /\ d.tok = c.tok /\ d.ungot = c.ungot
        /\ d.wantEof = c.wantEof /\ d.err = c.err
    BY <1>5, FillKeeps DEF uls_fillbuff, Context
  <2>3. Delivered(Text(d), Ends(c, b)) = Delivered(Text(c), Ends(c, b))
    BY <1>5, NoLine, FilledText
  <2> HIDE DEF d
  <2>4. Ends(d, b) = Ends(c, b)
    BY <2>2 DEF Ends
  <2>5. Pending(d, b) = Pending(c, b)
    BY <2>2, <2>3, <2>4, PlainPending
  <2>6. Settled(d)
    BY <1>5, <2>2 DEF Settled
  <2> QED
    BY <2>1, <2>2, <2>5, <2>6
<1> QED
  BY <1>2, <1>3, <1>4, <1>5

(* uls_peek_ch() leaves the queue alone.                                   *)
LEMMA PeekChStep ==
  ASSUME IInv, RInv, PeekCh, ReturnedIsCurrent'
  PROVE  Promise!Next /\ RInv'
<1> DEFINE c == Peeked(ctx)
           w == Queue(Tail(stack), TRUE)
<1>1. /\ pc = "idle" /\ pc' = pc /\ ~ctx.ungot
      /\ SetContext(c) /\ Returns("peek_ch", "ok")
  BY DEF PeekCh
<1>2. c \in Context /\ Settled(c) /\ Pending(c, FALSE) = Pending(ctx, FALSE)
  BY <1>1, Facts, PeekedPending
<1> HIDE DEF c
<1>3. RInv' /\ \A b \in BOOLEAN : Queue(stack', b) = Pending(c, b) \o w
  BY <1>1, <1>2, AfterSet
<1>4. After = Before
  BY <1>1, <1>2, <1>3, Facts DEF Before, After
<1>5. Promise!PeekCh(Before, After)
  BY <1>1, <1>4 DEF Promise!PeekCh, Promise!Returned, Returns
<1> QED
  BY <1>3, <1>5, Steps

(* uls_get_ch() takes the character it returns, or has EOF come again.     *)
LEMMA GetChStep ==
  ASSUME CarefulCaller, IInv, RInv, GetCh, ReturnedIsCurrent'
  PROVE  Promise!Next /\ RInv'
<1> DEFINE c == Peeked(ctx)
           u == Head(c.line)
           taken == c.line # <<>> /\ u.k # "lit"
           e == [c EXCEPT !.line = IF taken THEN Tail(@) ELSE @, !.tok = NONE]
           w == Queue(Tail(stack), TRUE)
<1>1. /\ pc = "idle" /\ pc' = pc /\ ~ctx.ungot /\ SetContext(e)
      /\ Returns("get_ch", IF ~taken THEN "none"
                           ELSE IF u \in {Blank, Bad} THEN "blank" ELSE u.t)
  BY DEF GetCh
<1>2. ctx.tok # ERR /\ ~c.err /\ ~(taken /\ u = Bad)
  BY DEF GetCh, CarefulCaller
<1>3. /\ c \in Context /\ Settled(c) /\ ~c.ungot /\ c.tok = ctx.tok
      /\ Pending(c, FALSE) = Pending(ctx, FALSE)
  BY <1>1, <1>2, Facts, PeekedPending
<1>4. c.line \in Seq(Units) /\ c.src \in Seq(Chunks) /\ w \in Seq(Tokens)
  BY <1>3, Facts, ContextParts
<1> HIDE DEF c, w
<1>5. taken => u \in Units /\ Tail(c.line) \in Seq(Units) /\ c.line = <<u>> \o Tail(c.line)
  BY <1>4, HeadAndTail
<1>6. (IF taken THEN Tail(c.line) ELSE c.line) \in Seq(Units)
  BY <1>4, <1>5
<1>7. /\ e \in Context /\ e.tok = NONE /\ ~e.ungot /\ ~e.err
      /\ e.wantEof = c.wantEof /\ e.src = c.src
      /\ e.line = IF taken THEN Tail(c.line) ELSE c.line
  BY <1>2, <1>3, <1>6, UnitsOK DEF Context
<1> HIDE DEF e
<1>8. Settled(e)
  BY <1>7, UnitsOK DEF Settled
<1>9. RInv' /\ \A b \in BOOLEAN : Queue(stack', b) = Pending(e, b) \o w
  BY <1>1, <1>7, <1>8, AfterSet, UnitsOK DEF w
<1>10. Before = Pending(c, FALSE) \o w /\ After = Pending(e, FALSE) \o w
  BY <1>1, <1>3, <1>9, Facts DEF Before, After, w
<1>11. /\ Pending(c, FALSE) = Delivered(Text(c), Ends(c, FALSE))
       /\ Pending(e, FALSE) = Delivered(Text(e), c.wantEof)
  <2>1. Ends(e, FALSE) = c.wantEof
    BY <1>3, <1>7, UnitsOK DEF Ends, Context
  <2> QED
    BY <1>2, <1>3, <1>7, <2>1, UnitsOK, PlainPending
<1>12. CASE EofDelivered(c)
  <2>1. c.wantEof /\ c.line = <<>> /\ c.src = <<>> /\ c.tok \in {EOF, EOI}
    BY <1>3, <1>12 DEF EofDelivered, Settled
  <2>2. Pending(c, FALSE) = <<>>
    BY <1>3, <2>1, EndedPending
  <2>3. Pending(e, FALSE) = <<EOF>>
    BY <1>7, <1>11, <2>1, NoLine, NoText
  <2>4. After = <<EOF>> \o Before
    BY <1>4, <1>10, <2>2, <2>3, ConcatEmptySeq
  <2>5. ret'.call = "get_ch" /\ ret'.val = "none"
    BY <1>1, <2>1 DEF Returns
  <2>6. Promise!GetCh(Before, After)
    BY <2>4, <2>5 DEF Promise!GetCh
  <2> QED
    BY <1>9, <2>6, Steps
<1>13. CASE ~EofDelivered(c)
  <2> DEFINE d == Delivered(Text(e), c.wantEof)
             h == IF taken /\ u # Blank THEN <<u.t>> ELSE <<>>
  <2>1. Ends(c, FALSE) = c.wantEof
    BY <1>3, <1>13 DEF EofDelivered, Ends, Context
  <2>2. d \in Seq(Tokens) /\ d \o w \in Seq(Tokens)
    BY <1>4, <1>7, ContextParts, DeliveredType, ConcatProperties
  <2>3. Delivered(Text(c), c.wantEof) = h \o d
    <3>1. CASE taken
      <4> DEFINE y == FlattenSeq(TextPieces(c.src))
                 t == Tail(c.line)
      <4>1. y \in Seq(Units) /\ t \in Seq(Units) /\ <<u>> \in Seq(Units)
        BY <1>3, <1>5, <3>1, ContextParts
      <4>2. Text(c) = (<<u>> \o t) \o y /\ Text(e) = t \o y
        BY <1>3, <1>5, <1>7, <3>1, TextIs
      <4> HIDE DEF y, t
      <4>3. (<<u>> \o t) \o y = <<u>> \o (t \o y) /\ t \o y \in Seq(Units)
        <5> DEFINE x == <<u>>
        <5>1. x \in Seq(Units)
          BY <4>1
        <5> HIDE DEF x
        <5>2. (x \o t) \o y = x \o (t \o y)
          BY <4>1, <5>1, TokensAssociate
        <5> QED
          BY <4>1, <5>2, ConcatProperties DEF x
      <4> DEFINE v == t \o y
      <4>4. Text(c) = <<u>> \o v /\ Text(e) = v /\ v \in Seq(Units)
        BY <4>2, <4>3
      <4> HIDE DEF v
      <4>5. Delivered(<<u>> \o v, c.wantEof) =
              (IF u = Blank THEN <<>> ELSE <<u.t>>) \o Delivered(v, c.wantEof)
        BY <1>2, <1>5, <3>1, <4>4, DeliveredCons
      <4> QED
        BY <3>1, <4>4, <4>5
    <3>2. CASE ~taken
      <4>1. Text(e) = Text(c)
        BY <1>3, <1>7, <3>2, SameText
      <4>2. <<>> \o d = d
        BY <2>2, ConcatEmptySeq
      <4> QED
        BY <3>2, <4>1, <4>2
    <3> QED
      BY <3>1, <3>2
  <2>4. h \in Seq(Tokens)
    <3>1. taken /\ u # Blank => u.t \in Tokens
      BY <1>5, UnitToken
    <3>2. <<>> \in Seq(Tokens)
      BY EmptySeq
    <3> QED
      BY <3>1, <3>2
  <2>5. /\ ret'.call = "get_ch"
        /\ h = IF ret'.val \in {"blank", "none"} THEN <<>> ELSE <<ret'.val>>
    <3>1. CASE taken /\ u # Blank
      <4>1. u.t \in Chars \cup Quotes
        BY <1>2, <1>5, <3>1, PlainUnit
      <4>2. u.t \notin {"blank", "none"}
        BY <4>1, ConstantsOK DEF Results
      <4>3. ret'.call = "get_ch" /\ ret'.val = u.t
        BY <1>1, <1>2, <3>1 DEF Returns
      <4> QED
        BY <3>1, <4>2, <4>3
    <3>2. CASE ~(taken /\ u # Blank)
      <4>1. ret'.call = "get_ch" /\ ret'.val \in {"blank", "none"}
        BY <1>1, <3>2 DEF Returns
      <4> QED
        BY <3>2, <4>1
    <3> QED
      BY <3>1, <3>2
  <2>6. Before = (h \o d) \o w /\ After = d \o w
    BY <1>10, <1>11, <2>1, <2>3
  <2> HIDE DEF d, h
  <2>7. (h \o d) \o w = h \o (d \o w)
    <3>1. d \in Seq(Tokens)
      BY <2>2
    <3>2. w \in Seq(Tokens)
      BY <1>4
    <3> QED
      BY <2>4, <3>1, <3>2, TokensAssociate
  <2>8. Before = h \o After
    BY <2>6, <2>7
  <2>9. Promise!GetCh(Before, After)
    BY <2>5, <2>8 DEF Promise!GetCh
  <2> QED
    BY <1>9, <2>9, Steps
<1> QED
  BY <1>12, <1>13

-----------------------------------------------------------------------------
(* The invariant is kept.  What a context may have when it is made current *)
(* again, or left, follows action by action.                               *)
LEMMA EoiSettled ==
  ASSUME IInv, RInv, MakeEoi, IsInitial, ctx.tok # ERR, ReturnedIsCurrent'
  PROVE  RInv'
<1> DEFINE c == [ctx EXCEPT !.tok = EOI]
<1>1. SetContext(c) /\ pc' = "idle"
  BY DEF MakeEoi
<1>2. ctx \in Context /\ ctx.line = <<>> /\ ctx.src = <<>> /\ ~ctx.err
  BY Facts DEF IsInitial, Settled
<1>3. c \in Context /\ c.tok = EOI /\ c.line = <<>> /\ c.src = <<>> /\ ~c.err
  BY <1>2, UnitsOK DEF Context
<1> HIDE DEF c
<1>4. Settled(c)
  BY <1>3 DEF Settled
<1> QED
  BY <1>1, <1>3, <1>4, AfterSet

(* The calls that return at once, or enter the loop, keep RInv.            *)
LEMMA GetTokSettled ==
  ASSUME IInv, RInv, GetTokCall, ReturnedIsCurrent'
  PROVE  RInv'
<1>1. CASE GetTokSticky
  BY <1>1 DEF GetTokSticky, RInv, SettledStack
<1>2. CASE GetTokUngot
  <2> DEFINE c == [ctx EXCEPT !.ungot = FALSE]
  <2>1. SetContext(c) /\ pc' = "idle"
    BY <1>2 DEF GetTokUngot
  <2>2. c \in Context /\ c.tok = ctx.tok /\ c.line = ctx.line /\ c.src = ctx.src
        /\ c.err = ctx.err
    BY Facts DEF Context
  <2> HIDE DEF c
  <2>3. Settled(c)
    BY <2>2, Facts DEF Settled
  <2> QED
    BY <2>1, <2>2, <2>3, AfterSet
<1>3. CASE GetTokEnter
  <2>1. ctx.tok \notin {EOI, ERR} /\ ~ctx.ungot
    BY <1>3 DEF GetTokEnter
  <2>2. CASE ctx.tok = EOF /\ IsInitial
    BY <1>3, <2>1, <2>2, EoiSettled DEF GetTokEnter
  <2>3. CASE ctx.tok = EOF /\ ~IsInitial
    BY <1>3, <2>3, AfterPop DEF GetTokEnter
  <2>4. CASE ctx.tok # EOF
    <3>1. stack' = stack
      BY <1>3, <2>4 DEF GetTokEnter
    <3> QED
      BY <2>1, <3>1 DEF RInv, SettledStack, Fresh, ctx
  <2> QED
    BY <2>2, <2>3, <2>4
<1> QED
  BY <1>1, <1>2, <1>3 DEF GetTokCall

(* So do the rounds of the loop ...                                        *)
LEMMA LoopSettled ==
  ASSUME IInv, RInv, GetTokLoop, ReturnedIsCurrent'
  PROVE  RInv'
<1>0. pc = "get_tok"
  BY DEF GetTokLoop, ScanToken, ScanRefill, ScanFailed, ScanEof
<1>1. ctx \in Context /\ ~ctx.ungot /\ ctx.tok # ERR /\ ~ctx.err /\ Settled(ctx)
  BY <1>0, Facts, LoopFacts
<1>2. CASE ScanToken
  <2>1. PICK n \in DOMAIN ctx.line :
          /\ ctx.line[n] # Blank
          /\ SetContext([ctx EXCEPT !.line = SubSeq(@, n + 1, Len(@)),
                            !.tok = ctx.line[n].t, !.err = @ \/ ctx.line[n] = Bad])
    BY <1>2 DEF ScanToken
  <2> DEFINE u == ctx.line[n]
             v == SubSeq(ctx.line, n + 1, Len(ctx.line))
             c == [ctx EXCEPT !.line = SubSeq(@, n + 1, Len(@)),
                              !.tok = u.t, !.err = @ \/ u = Bad]
  <2>2. /\ ctx.line \in Seq(Units) /\ Len(ctx.line) \in Nat
        /\ n \in 1..Len(ctx.line)
    BY <1>1, ContextParts, LenProperties
  <2>3. u \in Units /\ u.t \in Tokens
    BY <2>2, ElementOfSeq, UnitToken
  <2>4. v \in Chunks
    <3>1. \A i \in n + 1..Len(ctx.line) : ctx.line[i] \in Units
      BY <2>2, ElementOfSeq
    <3> QED
      BY <2>2, <3>1, SubSeqProperties, UnitsOK
  <2>5. c \in Context /\ c.tok = u.t /\ (c.err <=> u = Bad)
    BY <1>1, <2>3, <2>4 DEF Context
  <2>6. SetContext(c) /\ pc' = "idle" /\ u # Blank
    BY <1>2, <2>1 DEF ScanToken
  <2> HIDE DEF c, u
  <2>7. u # Bad => u.t \notin {EOI, EOF, ERR}
    BY <2>3, <2>6, PlainUnit DEF Reserved
  <2>8. Settled(c)
    BY <2>5, <2>7, UnitsOK DEF Settled
  <2> QED
    BY <2>5, <2>6, <2>8, AfterSet
<1>3. CASE ScanRefill
  <2> DEFINE c == uls_fillbuff(ctx)
  <2>1. ctx.src # <<>> /\ Head(ctx.src) # Fail /\ SetContext(c)
    BY <1>3 DEF ScanRefill, FillFails, FillEof
  <2>2. c \in Context /\ c.tok = ctx.tok /\ c.ungot = ctx.ungot /\ c.err = ctx.err
    BY <1>1, <2>1, FillKeeps DEF uls_fillbuff, Context
  <2> HIDE DEF c
  <2>3. Settled(c) /\ Fresh(c)
    BY <1>1, <2>1, <2>2 DEF Settled, Fresh
  <2> QED
    BY <2>1, <2>2, <2>3, AfterSet
<1>4. CASE ScanFailed
  <2> DEFINE c == uls_fillbuff(ctx)
  <2>1. SetContext(c) /\ ctx.src # <<>> /\ Head(ctx.src) = Fail
    BY <1>1, <1>4 DEF ScanFailed, FillFails
  <2>2. c \in Context /\ c.tok = ERR
    BY <1>1, <2>1, FillKeeps DEF uls_fillbuff, Context
  <2>3. pc' = "idle"
    BY <1>4, <2>2, UnitsOK DEF ScanFailed
  <2> HIDE DEF c
  <2>4. Settled(c)
    BY <2>2, UnitsOK DEF Settled
  <2> QED
    BY <2>1, <2>2, <2>3, <2>4, AfterSet
<1>5. CASE ScanEof
  <2>1. FillEof(ctx) /\ ctx.src = <<>>
    BY <1>5 DEF ScanEof, FillEof
  <2>2. CASE ctx.wantEof
    <3> DEFINE c == [uls_fillbuff(ctx) EXCEPT !.tok = EOF]
    <3>1. SetContext(c) /\ pc' = "idle"
      BY <1>5, <2>2 DEF ScanEof
    <3>2. c \in Context /\ c.tok = EOF /\ ~c.err /\ c.line = <<>> /\ c.src = <<>>
      BY <1>1, <2>1, UnitsOK DEF uls_fillbuff, Context
    <3> HIDE DEF c
    <3>3. Settled(c)
      BY <3>2 DEF Settled
    <3> QED
      BY <3>1, <3>2, <3>3, AfterSet
  <2>3. CASE ~ctx.wantEof /\ IsInitial
    BY <1>1, <1>5, <2>3, EoiSettled DEF ScanEof
  <2>4. CASE ~ctx.wantEof /\ ~IsInitial
    BY <1>5, <2>4, AfterPop DEF ScanEof
  <2> QED
    BY <2>2, <2>3, <2>4
<1> QED
  BY <1>2, <1>3, <1>4, <1>5 DEF GetTokLoop

(* ... and putting a token back.                                           *)
LEMMA UngetSettled ==
  ASSUME IInv, RInv, UngetCurrent, ReturnedIsCurrent'
  PROVE  RInv'
<1> DEFINE c == [ctx EXCEPT !.ungot = TRUE]
<1>1. SetContext(c) /\ pc' = "idle"
  BY DEF UngetCurrent
<1>2. c \in Context /\ c.tok = ctx.tok /\ c.line = ctx.line /\ c.src = ctx.src
      /\ c.err = ctx.err
  BY Facts DEF Context
<1> HIDE DEF c
<1>3. Settled(c)
  BY <1>2, Facts DEF Settled
<1> QED
  BY <1>1, <1>2, <1>3, AfterSet

(* A call of uls_get_tok(), whole or a round of its loop, and any other    *)
(* call, is a step of the queue or leaves it alone, and keeps RInv.        *)
LEMMA NextStep ==
  ASSUME CarefulCaller, IInv, RInv, [Next]_vars, ReturnedIsCurrent'
  PROVE  RInv' /\ (Promise!Next \/ UNCHANGED Promise!vars)
<1>1. CASE UNCHANGED vars
  <2>1. stack' = stack /\ pc' = pc /\ ret' = ret
    BY <1>1 DEF vars
  <2>2. RInv'
    BY <2>1 DEF RInv, SettledStack, ctx
  <2> QED
    BY <2>1, <2>2, Stutters DEF Before, After
<1>2. CASE GetTokLoop
  BY <1>2, LoopSettled, TokenStep, RefillStep, FailedStep, EofStep DEF GetTokLoop
<1>3. CASE GetTokCall
  BY <1>3, GetTokSettled, StickyStep, UngotStep, EnterStep DEF GetTokCall
<1>4. CASE UngetCurrent
  BY <1>4, UngetSettled, UngetStep
<1>5. CASE Push
  BY <1>5, PushStep DEF RInv
<1>6. CASE Set
  BY <1>6, SetStep DEF RInv
<1>7. CASE Pop
  BY <1>7, PopStepDone, AfterPop DEF Pop
<1>8. CASE PopAll
  BY <1>8, PopAllStep DEF RInv
<1>9. CASE \E want \in BOOLEAN : WantEof(want)
  BY <1>9, WantEofStep
<1>10. CASE PeekCh
  BY <1>10, PeekChStep
<1>11. CASE GetCh
  BY <1>11, GetChStep
<1> QED
  BY <1>1, <1>2, <1>3, <1>4, <1>5, <1>6, <1>7, <1>8, <1>9, <1>10, <1>11 DEF Next, Call

(* An analyser that has been given no source answers EOI.                  *)
LEMMA InitStep ==
  ASSUME Init
  PROVE  RInv /\ Promise!Init
<1> DEFINE c == uls_init_context("initial", <<>>, FALSE)
<1>1. stack = <<c>> /\ pc = "idle" /\ ret = [call |-> "none", val |-> EOI]
  BY DEF Init
<1>2. /\ c \in Context /\ c.tok = NONE /\ ~c.err /\ ~c.ungot /\ c.wantEof = FALSE
      /\ c.line = <<>> /\ c.src = <<>>
  BY UnitsOK, EmptySeq DEF uls_init_context, Context
<1> HIDE DEF c
<1>3. Len(<<c>>) = 1 /\ <<c>>[1] = c
  OBVIOUS
<1>4. Settled(c)
  BY <1>2, UnitsOK DEF Settled
<1>5. RInv
  BY <1>1, <1>3, <1>4 DEF RInv, SettledStack, ReturnedIsCurrent
<1>6. Queue(<<c>>, FALSE) = Pending(c, FALSE)
  BY <1>2, QueueOne
<1>7. Pending(c, FALSE) = <<>>
  <2>1. Ends(c, FALSE) = FALSE
    BY <1>2 DEF Ends
  <2> QED
    BY <1>2, <2>1, UnitsOK, PlainPending, NoText, NoLine
<1> QED
  BY <1>1, <1>5, <1>6, <1>7 DEF Promise!Init

(* uls_get_tok() and the calls around it implement the queue of tokens for *)
(* a caller that pushes nothing over a token it put back or over a source  *)
(* in error, and does not read on by character there: whatever it stacks,  *)
(* puts back, dismisses or reads by character, every pending token comes   *)
(* once and in order.                                                      *)
THEOREM QueueRefined == CarefulCaller => (Spec => DeliversInOrder)
<1> SUFFICES ASSUME CarefulCaller
             PROVE  Spec => DeliversInOrder
  OBVIOUS
<1>1. Init => RInv /\ Promise!Init
  BY InitStep
<1>2. IInv /\ RInv /\ [Next]_vars /\ ReturnedIsCurrent' =>
        RInv' /\ [Promise!Next]_Promise!vars
  BY NextStep
<1> QED
  BY <1>1, <1>2, SpecIInv, ReturnedCurrent, PTL DEF Spec, DeliversInOrder, Promise!Spec
=============================================================================
