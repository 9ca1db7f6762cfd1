------------------------------ MODULE Ownership ------------------------------
(***************************************************************************)
(* Who holds whom: analysers (uls_lex_t), input streams, output streams    *)
(* and the contexts on the stacks of the analysers.                        *)
(*                                                                         *)
(* Analysers and streams count references.  A stream refers to the         *)
(* analyser it is bound to, a context to the stream it reads, and a        *)
(* destruction that takes the last reference destroys what it refers to.   *)
(* These destructions call each other (uls_pop() the one of the stream,    *)
(* that the one of an analyser, that uls_pop_all()), so a call is modelled *)
(* as the steps still to do, the innermost first: todo is the C stack.     *)
(* The caller acts when it is empty.  An object is made once, so that a    *)
(* step that touches a freed one shows: touched.                           *)
(*                                                                         *)
(* Not here: contexts over lines own nothing; logs, which hold an analyser *)
(* as an output stream does; descriptors that ULS_DO_DUP duplicates.       *)
(***************************************************************************)
EXTENDS Integers, Sequences, FiniteSets, SequencesExt

CONSTANTS
  Lexes,      \* analysers
  Streams,    \* input streams
  OStreams,   \* output streams
  NONE,       \* no analyser
  Line,       \* the source of a context that owns nothing
  MaxDepth,   \* bound: contexts over the initial one
  CallerMay   \* unusual behaviour of the caller, see Habits

(* After a failed push the caller destroys the stream; or it pushes a      *)
(* stream on the analyser that only this stream holds.                     *)
Habits == {"destroys_failed", "borrows_analyser"}

Objects == Lexes \cup Streams \cup OStreams

ASSUME OwnershipConstants ==
  /\ IsFiniteSet(Objects) /\ NONE \notin Objects /\ Line \notin Objects
  /\ Lexes \cap Streams = {} /\ Lexes \cap OStreams = {} /\ Streams \cap OStreams = {}
  /\ MaxDepth \in Nat \ {0} /\ CallerMay \subseteq Habits

VARIABLES
  st,       \* of each object: "none", "live" or "freed"
  refs,     \* ref_cnt of each object
  uls,      \* the analyser each stream is bound to
  ctxs,     \* the sources on the stack of each analyser, the current one first
  mine,     \* the objects that the caller holds a reference to
  lost,     \* objects whose last reference nobody knows any more
  fds,      \* streams whose descriptor is open and theirs to close
  todo,     \* the rest of the call in progress
  touched   \* a freed object was touched

vars == <<st, refs, uls, ctxs, mine, lost, fds, todo, touched>>

Bound == Streams \cup OStreams
Live(x) == st[x] = "live"
Do(op, x) == [op |-> op, x |-> x, y |-> NONE]
Do2(op, x, y) == [op |-> op, x |-> x, y |-> y]

Init ==
  /\ st = [x \in Objects |-> "none"] /\ refs = [x \in Objects |-> 0]
  /\ uls = [s \in Bound |-> NONE] /\ ctxs = [u \in Lexes |-> <<>>]
  /\ mine = {} /\ lost = {} /\ fds = {} /\ todo = <<>> /\ touched = FALSE
-----------------------------------------------------------------------------
(* The calls.  Each has the object it was called for in its first step.    *)
Idle == todo = <<>>
Call(steps) == todo' = steps

(* A caller uses the analysers it holds, itself or through a stream.       *)
UsableBut(u, S) == u \in mine \/ \E s \in (mine \cap Bound) \ S : uls[s] = u
Usable(u) == UsableBut(u, {})

Create(u) ==                           \* uls_create()
  /\ Idle /\ st[u] = "none"
  /\ st' = [st EXCEPT ![u] = "live"] /\ refs' = [refs EXCEPT ![u] = 1]
  /\ mine' = mine \cup {u} /\ UNCHANGED <<uls, ctxs, lost, fds, todo, touched>>

(* uls_open_istream() and what is opened over it.  A stream of tokens gets *)
(* an analyser of its own, if its specification is found; the descriptor   *)
(* is the stream's to close when a file was opened by name.                *)
Opened(s, own, closes) ==
  /\ st[s] = "none"
  /\ own # NONE => st[own] = "none"
  /\ st' = [x \in Objects |-> IF x \in {s, own} THEN "live" ELSE st[x]]
  /\ refs' = [x \in Objects |-> IF x \in {s, own} THEN 1 ELSE refs[x]]
  /\ uls' = [uls EXCEPT ![s] = own]
  /\ fds' = IF closes THEN fds \cup {s} ELSE fds

OpenIstream(s) == \E own \in Lexes \cup {NONE}, closes \in BOOLEAN :
  /\ Idle /\ Opened(s, own, closes)
  /\ mine' = mine \cup {s} /\ UNCHANGED <<ctxs, lost, todo, touched>>

MayPush(u, S) == /\ Idle /\ Len(ctxs[u]) < MaxDepth
                 /\ UsableBut(u, IF "borrows_analyser" \in CallerMay THEN {} ELSE S)

PushLine(u) ==                         \* uls_push_line()
  /\ MayPush(u, {}) /\ ctxs' = [ctxs EXCEPT ![u] = <<Line>> \o @]
  /\ UNCHANGED <<st, refs, uls, mine, lost, fds, todo, touched>>

PushIstream(u, s) ==                   \* uls_push_istream()
  /\ MayPush(u, {s}) /\ s \in mine /\ Call(<<Do2("push", s, u)>>)
  /\ UNCHANGED <<st, refs, uls, ctxs, mine, lost, fds, touched>>

SetIstream(u, s) ==                    \* uls_set_istream()
  /\ MayPush(u, {s}) /\ s \in mine /\ Call(<<Do("pop", u), Do2("push", s, u)>>)
  /\ UNCHANGED <<st, refs, uls, ctxs, mine, lost, fds, touched>>

(* uls_push_file(), uls_push_fp() and uls_push_fd(), which open a stream   *)
(* and let go the reference of the call; the uls_set_ forms pop first.     *)
PushFile(u, s) ==
  /\ MayPush(u, {}) /\ \E own \in (Lexes \cup {NONE}) \ {u}, closes \in BOOLEAN : Opened(s, own, closes)
  /\ \E first \in {<<>>, <<Do("pop", u)>>} : Call(first \o <<Do2("push", s, u), Do("unistr", s)>>)
  /\ UNCHANGED <<ctxs, mine, lost, touched>>

Pop(u) ==                              \* uls_pop(), or uls_get_tok() at an EOF
  /\ Idle /\ Usable(u) /\ Call(<<Do("pop", u)>>)
  /\ UNCHANGED <<st, refs, uls, ctxs, mine, lost, fds, touched>>

PopAll(u) ==                           \* uls_pop_all(), uls_reset()
  /\ Idle /\ Usable(u) /\ Call(<<Do("popall", u)>>)
  /\ UNCHANGED <<st, refs, uls, ctxs, mine, lost, fds, touched>>

(* uls_bind_istream(): the new analyser is grabbed before the old one is   *)
(* let go (or nothing, NONE); an incompatible stream is left as it is.     *)
BindSteps(s, u) == (IF uls[s] = NONE THEN <<>> ELSE <<Do("unlex", uls[s])>>)
                   \o <<Do2("bind", s, u)>>
BindIstream(s, u) ==
  /\ Idle /\ s \in mine /\ uls[s] # u /\ (u = NONE \/ Usable(u))
  /\ refs' = IF u = NONE THEN refs ELSE [refs EXCEPT ![u] = @ + 1]
  /\ Call(BindSteps(s, u))
  /\ UNCHANGED <<st, uls, ctxs, mine, lost, fds, touched>>

(* uls_create_ostream(): bound before the header is written, let go when   *)
(* that fails.                                                             *)
CreateOstream(o, u) ==
  /\ Idle /\ st[o] = "none" /\ Usable(u)
  /\ st' = [st EXCEPT ![o] = "live"] /\ refs' = [refs EXCEPT ![u] = @ + 1, ![o] = 1]
  /\ uls' = [uls EXCEPT ![o] = u]
  /\ \/ mine' = mine \cup {o} /\ fds' = fds \cup {o} /\ UNCHANGED todo
     \/ Call(<<Do("unlex", u), Do("free", o)>>) /\ UNCHANGED <<mine, fds>>
  /\ UNCHANGED <<ctxs, lost, touched>>

(* The caller gives a reference back: uls_destroy(), uls_destroy_istream() *)
(* or uls_destroy_ostream().                                               *)
Destroy(x) ==
  /\ Idle /\ x \in mine
  /\ Call(<<Do(IF x \in Lexes THEN "unlex" ELSE IF x \in Streams THEN "unistr" ELSE "unostr", x)>>)
  /\ mine' = mine \ {x} /\ UNCHANGED <<st, refs, uls, ctxs, lost, fds, touched>>
-----------------------------------------------------------------------------
(* The steps of a call.                                                    *)
Now(op) == todo # <<>> /\ Head(todo).op = op
X == Head(todo).x
Y == Head(todo).y
Go(steps) == todo' = steps \o Tail(todo)
Touch(S) == touched' = (touched \/ \E x \in S : ~Live(x))

(* uls_pop(): the source is let go first, then the context is freed.       *)
PopStep_Keeps ==                       \* mutant: the source is not let go
  /\ Now("pop") /\ Touch({X})
  /\ Go(IF ctxs[X] = <<>> THEN <<>> ELSE <<Do2("freectx", X, Len(ctxs[X]))>>)
  /\ UNCHANGED <<st, refs, uls, ctxs, mine, lost, fds>>
PopStep ==
  /\ Now("pop") /\ Touch({X})
  /\ IF ctxs[X] = <<>> THEN Go(<<>>)
     ELSE Go((IF Head(ctxs[X]) \in Streams THEN <<Do("unistr", Head(ctxs[X]))>> ELSE <<>>)
             \o <<Do2("freectx", X, Len(ctxs[X]))>>)
  /\ UNCHANGED <<st, refs, uls, ctxs, mine, lost, fds>>

FreeContext ==                         \* of the depth the call saw first
  /\ Now("freectx") /\ touched' = (touched \/ ~Live(X) \/ Len(ctxs[X]) # Y)
  /\ ctxs' = IF Len(ctxs[X]) = Y THEN [ctxs EXCEPT ![X] = Tail(@)] ELSE ctxs
  /\ Go(<<>>) /\ UNCHANGED <<st, refs, uls, mine, lost, fds>>

PopAllStep ==                          \* uls_pop_all()
  /\ Now("popall") /\ Touch({X})
  /\ Go(IF ctxs[X] = <<>> THEN <<>> ELSE <<Do("pop", X), Do("popall", X)>>)
  /\ UNCHANGED <<st, refs, uls, ctxs, mine, lost, fds>>

(* Every destroy call: refused when the count is 0, else counted down.     *)
LastReference(more) ==
  /\ Touch({X})
  /\ IF refs[X] <= 0 THEN UNCHANGED refs /\ Go(<<>>)
     ELSE refs' = [refs EXCEPT ![X] = @ - 1] /\ Go(IF refs[X] = 1 THEN more ELSE <<>>)

UnrefLex ==                            \* uls_destroy(), also uls_ungrab()
  /\ Now("unlex") /\ LastReference(<<Do("popall", X), Do("free", X)>>)
  /\ UNCHANGED <<st, uls, ctxs, mine, lost, fds>>

UnrefIstream ==                        \* uls_destroy_istream()
  /\ Now("unistr")
  /\ LastReference((IF uls[X] = NONE THEN <<>> ELSE <<Do("unlex", uls[X])>>)
                   \o <<Do("close", X), Do("free", X)>>)
  /\ UNCHANGED <<st, uls, ctxs, mine, lost, fds>>

(* uls_destroy_ostream(): when its last print fails, nothing is released.  *)
UnrefOstream ==
  /\ Now("unostr")
  /\ \/ LastReference(<<Do("close", X), Do("unlex", uls[X]), Do("free", X)>>) /\ UNCHANGED lost
     \/ refs[X] = 1 /\ LastReference(<<>>) /\ lost' = lost \cup {X}
  /\ UNCHANGED <<st, uls, ctxs, mine, fds>>

Close ==
  /\ Now("close") /\ Touch({X}) /\ fds' = fds \ {X} /\ Go(<<>>)
  /\ UNCHANGED <<st, refs, uls, ctxs, mine, lost>>
Free ==
  /\ Now("free") /\ Touch({X}) /\ st' = [st EXCEPT ![X] = "freed"]
  /\ uls' = [s \in Bound |-> IF s = X THEN NONE ELSE uls[s]]
  /\ Go(<<>>) /\ UNCHANGED <<refs, ctxs, mine, lost, fds>>
Bind ==
  /\ Now("bind") /\ Touch({X, Y} \ {NONE}) /\ uls' = [uls EXCEPT ![X] = Y] /\ Go(<<>>)
  /\ UNCHANGED <<st, refs, ctxs, mine, lost, fds>>

(* uls_push_istream() of the stream X on the analyser Y: an unknown type   *)
(* is refused before anything else; a stream that is not compatible, or    *)
(* whose first fill fails, is let go with the context.                     *)
IsFile == Len(todo) > 1                \* uls_push_file() goes on after it
PushRefused ==
  /\ Now("push") /\ Touch({X, Y})
  /\ IF IsFile THEN todo' = <<>> /\ lost' = lost \cup {X} /\ UNCHANGED mine
     ELSE IF "destroys_failed" \in CallerMay
       THEN Go(<<Do("unistr", X)>>) /\ mine' = mine \ {X} /\ UNCHANGED lost
     ELSE Go(<<>>) /\ UNCHANGED <<mine, lost>>
  /\ UNCHANGED <<st, refs, uls, ctxs, fds>>

PushOn ==
  /\ Now("push") /\ Touch({X, Y})
  /\ ctxs' = [ctxs EXCEPT ![Y] = <<X>> \o @]
  /\ IF uls[X] = Y THEN Go(<<Do2("fill", X, Y)>>) /\ UNCHANGED refs
     ELSE \/ Go(<<Do2("undo", X, Y)>>) /\ UNCHANGED refs
          \/ /\ refs' = [refs EXCEPT ![Y] = @ + 1]
             /\ Go(BindSteps(X, Y) \o <<Do2("fill", X, Y)>>)
  /\ UNCHANGED <<st, uls, mine, lost, fds>>

PushUndone ==
  /\ Now("fill") \/ Now("undo")
  /\ Touch({X, Y})
  /\ todo' = <<Do("pop", Y)>> \o (IF ~IsFile /\ "destroys_failed" \in CallerMay
                                  THEN <<Do("unistr", X)>> ELSE <<>>)
  /\ mine' = IF IsFile THEN mine ELSE mine \ {X}
  /\ UNCHANGED <<st, refs, uls, ctxs, lost, fds>>

PushDone_NoGrab ==                     \* mutant: the context is not counted
  /\ Now("fill") /\ Touch({X, Y}) /\ Go(<<>>)
  /\ UNCHANGED <<st, refs, uls, ctxs, mine, lost, fds>>
PushDone ==                            \* uls_istr_grab()
  /\ Now("fill") /\ Touch({X, Y})
  /\ refs' = [refs EXCEPT ![X] = @ + 1] /\ Go(<<>>)
  /\ UNCHANGED <<st, uls, ctxs, mine, lost, fds>>
-----------------------------------------------------------------------------
Calls == \/ \E u \in Lexes : Create(u) \/ PushLine(u) \/ Pop(u) \/ PopAll(u)
         \/ \E s \in Streams : OpenIstream(s)
         \/ \E u \in Lexes, s \in Streams :
              PushIstream(u, s) \/ SetIstream(u, s) \/ PushFile(u, s)
         \/ \E s \in Streams, u \in Lexes \cup {NONE} : BindIstream(s, u)
         \/ \E u \in Lexes, o \in OStreams : CreateOstream(o, u)
         \/ \E x \in Objects : Destroy(x)

Steps == \/ PopStep \/ FreeContext \/ PopAllStep \/ UnrefLex \/ UnrefIstream \/ UnrefOstream
         \/ Close \/ Free \/ Bind \/ PushRefused \/ PushOn \/ PushUndone \/ PushDone

Next == Calls \/ Steps

Spec == Init /\ [][Next]_vars
-----------------------------------------------------------------------------
(* However calls nest, none touches an object or a context that is freed,  *)
(* and an open descriptor belongs to a stream that exists.                 *)
NotTouchedFreed == ~touched /\ \A s \in fds : Live(s)

(* Between calls every count is the number of those who hold the object:   *)
(* the caller, the contexts over a stream, the streams over an analyser.   *)
Has(S) == Cardinality(S)
CountsHolders == Idle =>
  /\ \A u \in Lexes : Live(u) =>
       refs[u] = Has({u} \cap mine) + Has({s \in Bound : Live(s) /\ uls[s] = u})
  /\ \A s \in Streams : Live(s) =>
       refs[s] = Has({s} \cap (mine \cup lost))
                 + Has(UNION {{<<u, k>> : k \in {k \in DOMAIN ctxs[u] : ctxs[u][k] = s}}
                              : u \in {u \in Lexes : Live(u)}})

(* When the caller has given all references back, an object or an open     *)
(* descriptor is left over only for a cause: a context that was not popped *)
(* keeps its stream and that its analyser, or an output stream could not   *)
(* print its end, or uls_push_file() opened a stream it could not push.    *)
LeftOverHasCause ==
  (Idle /\ mine = {}) => \/ \A x \in Objects : ~Live(x)
                         \/ lost # {} \/ \E u \in Lexes : Live(u) /\ ToSet(ctxs[u]) \cap Streams # {}

(* An object is there as long as one holds it, and no longer.              *)
HeldWhileUsed == NotTouchedFreed /\ CountsHolders
=============================================================================
