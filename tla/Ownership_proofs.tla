-------------------------- MODULE Ownership_proofs --------------------------
(***************************************************************************)
(* Proofs about Ownership: for any numbers of analysers, streams and       *)
(* output streams, no call of a careful caller touches what is freed,      *)
(* every count is the number of holders between calls, and nothing is      *)
(* left over without a cause.                                              *)
(*                                                                         *)
(* Between calls a count is easy to state; it must be stated in the middle *)
(* of a call too, where destructions call each other and references are    *)
(* on their way.  The invariant IInv therefore counts, beside the caller,  *)
(* the bound streams and the contexts, every step that waits and will give *)
(* its reference back (Givers); it says which steps may wait below which   *)
(* (Order: what frees an object waits below all that still uses it) and    *)
(* what the outermost steps of a call are (Root: they keep alive what a    *)
(* push works on).  Each step of a call is a lemma that IInv is kept.      *)
(***************************************************************************)
EXTENDS Ownership, FiniteSetTheorems, SequenceTheorems, TLAPS

(* A caller without the unusual habits: with them the properties fail, as  *)
(* a check of the same model shows.                                        *)
CarefulCaller == CallerMay = {}
-----------------------------------------------------------------------------
(* The steps still to do, numbered from the outermost: a step keeps its    *)
(* number as long as it waits, whatever is put on top of it.               *)
Depth == Len(todo)
Stack == [k \in 1..Depth |-> todo[Depth + 1 - k]]

Popping == {"pop", "popall", "freectx"}
Pushing == {"push", "fill", "undo"}
Ops     == Popping \cup Pushing \cup {"unlex", "unistr", "unostr", "close", "free", "bind"}
Entries == [op : Ops, x : Objects, y : Objects \cup {NONE} \cup Nat]

StepOK(e) ==
  /\ e.op \in Popping \cup {"unlex"} => e.x \in Lexes
  /\ e.op \in Pushing \cup {"unistr", "bind"} => e.x \in Streams
  /\ e.op = "unostr" => e.x \in OStreams
  /\ e.op = "close" => e.x \in Bound
  /\ e.op = "freectx" => e.y \in Nat
  /\ e.op \in Pushing => e.y \in Lexes
  /\ e.op = "bind" => e.y \in Lexes \cup {NONE}

Typed ==
  /\ st \in [Objects -> {"none", "live", "freed"}] /\ refs \in [Objects -> Nat]
  /\ uls \in [Bound -> Lexes \cup {NONE}] /\ ctxs \in [Lexes -> Seq(Streams \cup {Line})]
  /\ mine \subseteq Objects /\ lost \subseteq Bound /\ fds \subseteq Bound
  /\ todo \in Seq(Entries) /\ \A k \in 1..Depth : StepOK(Stack[k])

(* Objects to be freed, streams whose descriptor is to be closed, those to *)
(* be bound, analysers whose contexts are all to be popped, and those with *)
(* a context on top that does not count (yet, or any more).                *)
At(op)    == {x \in Objects : \E k \in 1..Depth : Stack[k].op = op /\ Stack[k].x = x}
Doomed    == At("free")
Closing   == At("close")
Rebinding == At("bind")
Clearing  == At("popall")
Topping   == {u \in Lexes : \E k \in 1..Depth : \/ Stack[k].op = "freectx" /\ Stack[k].x = u
                                                \/ Stack[k].op \in {"fill", "undo"} /\ Stack[k].y = u}

(* Who holds an object: the streams bound to an analyser, the contexts     *)
(* over a stream (numbered from the oldest), and the steps that will give  *)
(* a reference back or hand it on.                                         *)
Binders(u) == {s \in Bound : uls[s] = u /\ s \notin Doomed \cup Rebinding}
Gives(e, x) == \/ e.op \in {"unlex", "unistr"} /\ e.x = x
               \/ e.op = "bind" /\ e.y = x
Givers(x)  == {k \in 1..Depth : Gives(Stack[k], x)}
Places     == {p \in Lexes \X Nat : p[2] \in 1..Len(ctxs[p[1]])}
Source(p)  == ctxs[p[1]][Len(ctxs[p[1]]) + 1 - p[2]]
Covers(s)  == {p \in Places : Source(p) = s /\ ~(p[1] \in Topping /\ p[2] = Len(ctxs[p[1]]))}

One(b) == IF b THEN 1 ELSE 0
LexCount(u) ==
  /\ IsFiniteSet(Binders(u)) /\ IsFiniteSet(Givers(u))
  /\ refs[u] = One(u \in mine) + Has(Binders(u)) + Has(Givers(u))
StreamCount(s) ==
  /\ IsFiniteSet(Covers(s)) /\ IsFiniteSet(Givers(s))
  /\ refs[s] = One(s \in mine \cup lost) + Has(Covers(s)) + Has(Givers(s))
Counted == /\ \A u \in Lexes : LexCount(u)
           /\ \A s \in Streams : StreamCount(s)

(* An object is live exactly as long as it is counted or to be freed.      *)
LiveLexes == \A x \in Lexes \cup Streams :
  /\ refs[x] > 0 => Live(x)
  /\ Live(x) => refs[x] > 0 \/ x \in Doomed
LiveOuts == \A o \in OStreams :
  /\ o \in mine => Live(o) /\ refs[o] = 1
  /\ o \in lost => Live(o)
  /\ Live(o) => /\ uls[o] \in Lexes
                /\ \/ o \in mine \cup lost \cup Doomed
                   \/ \E k \in 1..Depth : Stack[k].op = "unostr" /\ Stack[k].x = o
LiveParts ==
  /\ mine \cap lost = {}
  /\ \A s \in Bound : uls[s] # NONE => Live(s)
  /\ \A u \in Lexes : ~Live(u) => ctxs[u] = <<>>
  /\ \A s \in fds : Live(s) /\ (s \in Doomed => s \in Closing)
DoomedHeld ==
  /\ \A x \in Doomed : Live(x) /\ x \notin mine \cup lost /\ (x \notin OStreams => refs[x] = 0)
  /\ \A u \in Lexes \cap Doomed : ctxs[u] # <<>> => u \in Clearing

(* What waits below a step.                                                *)
FreedBelow(k) == \E j \in 1..k-1 : Stack[j].op = "free" /\ Stack[j].x = Stack[k].x
Steady == \A k \in 1..Depth : Stack[k].op \notin {"bind", "fill", "undo"}
OrderFree  == \A j, k \in 1..Depth :
  Stack[j].op = "free" /\ Stack[k].op = "free" /\ Stack[j].x = Stack[k].x => j = k
OrderClose == \A k \in 1..Depth : Stack[k].op = "close" => FreedBelow(k)
OrderPop   == \A k \in 1..Depth : Stack[k].op \in Popping =>
  (Steady /\ Usable(Stack[k].x)) \/ FreedBelow(k)
OrderOnce  == \A j, k \in 1..Depth :
  Stack[j].op \in {"pop", "freectx"} /\ Stack[k].op \in {"pop", "freectx"}
    /\ Stack[j].x = Stack[k].x => j = k
OrderAll   == \A j, k \in 1..Depth :
  Stack[j].op = "popall" /\ Stack[k].op \in Popping /\ Stack[j].x = Stack[k].x => j <= k
OrderTop   == \A k \in 1..Depth : Stack[k].op = "freectx" =>
  Stack[k].y = Len(ctxs[Stack[k].x]) /\ Stack[k].y > 0
Order == OrderFree /\ OrderClose /\ OrderPop /\ OrderOnce /\ OrderAll /\ OrderTop

(* What the outermost steps of a call are.                                 *)
RootPush == \A k \in 1..Depth : Stack[k].op \in Pushing =>
  /\ UsableBut(Stack[k].y, {Stack[k].x})
  /\ \/ k = 1 /\ Stack[k].x \in mine
     \/ /\ k = 2 /\ Stack[1].op = "unistr" /\ Stack[1].x = Stack[k].x
        /\ Stack[k].x \notin mine \cup lost
  /\ Stack[k].op # "push" =>
       ctxs[Stack[k].y] # <<>> /\ Head(ctxs[Stack[k].y]) = Stack[k].x
RootOut  == \A k \in 1..Depth : Stack[k].op = "unostr" =>
  Depth = 1 /\ Live(Stack[k].x) /\ refs[Stack[k].x] = 1 /\ Stack[k].x \notin mine \cup lost
RootBind == \A k \in 1..Depth : Stack[k].op = "bind" =>
  \/ k = 1 /\ Stack[k].x \in mine
  \/ k > 1 /\ Stack[k-1].op = "fill" /\ Stack[k-1].x = Stack[k].x /\ Stack[k-1].y = Stack[k].y
Root == RootPush /\ RootOut /\ RootBind

Holding == Counted /\ LiveLexes /\ LiveOuts /\ LiveParts /\ DoomedHeld
IInv == Typed /\ touched = FALSE /\ Holding /\ Order /\ Root
-----------------------------------------------------------------------------
(* The first step of todo is the innermost one of Stack.                   *)
LEMMA TopStep ==
  ASSUME todo \in Seq(Entries), todo # <<>>
  PROVE  /\ Depth \in Nat /\ Depth >= 1 /\ Head(todo) = Stack[Depth]
         /\ Head(todo) \in Entries
BY DEF Depth, Stack

(* The steps that wait are steps of the model.                             *)
LEMMA StackIn ==
  ASSUME todo \in Seq(Entries)
  PROVE  Depth \in Nat /\ \A k \in 1..Depth : Stack[k] \in Entries
BY DEF Depth, Stack

(* A step that goes on with others leaves what waits below it as it is.    *)
Onward ==
  /\ todo \in Seq(Entries) /\ todo # <<>> /\ todo' \in Seq(Entries)
  /\ Depth \in Nat \ {0} /\ Depth' \in Nat /\ Depth' >= Depth - 1
  /\ \A k \in 1..Depth-1 : Stack'[k] = Stack[k]

(* Where the steps that replace the innermost one are found.               *)
LEMMA GoSteps ==
  ASSUME todo \in Seq(Entries), todo # <<>>, NEW n \in Seq(Entries),
         todo' = n \o Tail(todo)
  PROVE  /\ Onward /\ Depth' = Depth - 1 + Len(n)
         /\ \A k \in Depth..Depth' : Stack'[k] = n[Len(n) + Depth - k]
<1>1. Tail(todo) \in Seq(Entries) /\ Len(Tail(todo)) = Len(todo) - 1 /\ Len(todo) \in Nat \ {0}
      /\ \A i \in 1..Len(todo)-1 : Tail(todo)[i] = todo[i + 1]
  OBVIOUS
<1>2. todo' \in Seq(Entries) /\ Len(todo') = Len(n) + Len(todo) - 1 /\ Len(n) \in Nat
      /\ \A i \in 1..Len(todo') : todo'[i] = IF i <= Len(n) THEN n[i] ELSE todo[i - Len(n) + 1]
  BY <1>1
<1>3. Depth' = Depth - 1 + Len(n)
  BY <1>1, <1>2 DEF Depth
<1>4. ASSUME NEW k \in 1..Depth-1 PROVE Stack'[k] = Stack[k]
  BY <1>1, <1>2 DEF Depth, Stack
<1>5. ASSUME NEW k \in Depth..Depth' PROVE Stack'[k] = n[Len(n) + Depth - k]
  BY <1>1, <1>2 DEF Depth, Stack
<1>6. Depth \in Nat \ {0} /\ Depth' \in Nat /\ Depth' >= Depth - 1
  BY <1>1, <1>2, <1>3 DEF Depth
<1> QED BY <1>2, <1>3, <1>4, <1>5, <1>6 DEF Onward

(* A step that ends.                                                       *)
LEMMA GoNone ==
  ASSUME todo \in Seq(Entries), todo # <<>>, Go(<<>>)
  PROVE  Onward /\ Depth' = Depth - 1
<1> DEFINE n == <<>>
<1>1. n \in Seq(Entries) /\ Len(n) = 0  OBVIOUS
<1>2. Depth \in Nat  BY TopStep
<1>3. todo' = n \o Tail(todo)  BY DEF Go
<1> HIDE DEF n
<1>4. /\ Onward /\ Depth' = Depth - 1 + Len(n)
  BY <1>1, <1>3, GoSteps
<1> QED BY <1>1, <1>2, <1>4

(* A step that goes on with one step.                                      *)
LEMMA GoOne ==
  ASSUME todo \in Seq(Entries), todo # <<>>, NEW a \in Entries, Go(<<a>>)
  PROVE  Onward /\ Depth' = Depth /\ Stack'[Depth] = a
<1> DEFINE n == <<a>>
<1>1. n \in Seq(Entries) /\ Len(n) = 1 /\ n[1] = a  OBVIOUS
<1>2. Depth \in Nat  BY TopStep
<1>3. todo' = n \o Tail(todo)  BY DEF Go
<1> HIDE DEF n
<1>4. /\ Onward /\ Depth' = Depth - 1 + Len(n)
      /\ \A k \in Depth..Depth' : Stack'[k] = n[Len(n) + Depth - k]
  BY <1>1, <1>3, GoSteps
<1> QED BY <1>1, <1>2, <1>4

(* A step that goes on with two steps.                                     *)
LEMMA GoTwo ==
  ASSUME todo \in Seq(Entries), todo # <<>>, NEW a \in Entries, NEW b \in Entries, Go(<<b, a>>)
  PROVE  Onward /\ Depth' = Depth + 1 /\ Stack'[Depth] = a /\ Stack'[Depth + 1] = b
<1> DEFINE n == <<b, a>>
<1>1. n \in Seq(Entries) /\ Len(n) = 2 /\ n[1] = b /\ n[2] = a  OBVIOUS
<1>2. Depth \in Nat  BY TopStep
<1>3. todo' = n \o Tail(todo)  BY DEF Go
<1> HIDE DEF n
<1>4. /\ Onward /\ Depth' = Depth - 1 + Len(n)
      /\ \A k \in Depth..Depth' : Stack'[k] = n[Len(n) + Depth - k]
  BY <1>1, <1>3, GoSteps
<1> QED BY <1>1, <1>2, <1>4

(* A step that goes on with three steps.                                   *)
LEMMA GoThree ==
  ASSUME todo \in Seq(Entries), todo # <<>>,
         NEW a \in Entries, NEW b \in Entries, NEW c \in Entries, Go(<<c, b, a>>)
  PROVE  /\ Onward /\ Depth' = Depth + 2
         /\ Stack'[Depth] = a /\ Stack'[Depth + 1] = b /\ Stack'[Depth + 2] = c
<1> DEFINE n == <<c, b, a>>
<1>1. n \in Seq(Entries) /\ Len(n) = 3 /\ n[1] = c /\ n[2] = b /\ n[3] = a  OBVIOUS
<1>2. Depth \in Nat  BY TopStep
<1>3. todo' = n \o Tail(todo)  BY DEF Go
<1> HIDE DEF n
<1>4. /\ Onward /\ Depth' = Depth - 1 + Len(n)
      /\ \A k \in Depth..Depth' : Stack'[k] = n[Len(n) + Depth - k]
  BY <1>1, <1>3, GoSteps
<1> QED BY <1>1, <1>2, <1>4

(* Steps put one after another are the sequence of both.                   *)
LEMMA Joins ==
  ASSUME NEW a \in Entries, NEW b \in Entries
  PROVE  <<>> \o <<a>> = <<a>> /\ <<b>> \o <<a>> = <<b, a>>
<1>1. <<>> \o <<a>> = <<a>>  OBVIOUS
<1>2. <<b>> \o <<a>> = <<b, a>>
  <2> DEFINE s == <<b>>
             t == <<a>>
             n == s \o t
             m == <<b, a>>
  <2>1. s \in Seq(Entries) /\ t \in Seq(Entries) /\ Len(s) = 1 /\ Len(t) = 1 /\ s[1] = b /\ t[1] = a
    OBVIOUS
  <2>2. m \in Seq(Entries) /\ Len(m) = 2 /\ m[1] = b /\ m[2] = a
    OBVIOUS
  <2> HIDE DEF s, t, m
  <2>3. n \in Seq(Entries) /\ Len(n) = 2 /\ \A i \in 1..2 : n[i] = IF i = 1 THEN b ELSE a
    BY <2>1, ConcatProperties
  <2> HIDE DEF n
  <2>4. n = m
    BY <2>2, <2>3, SeqEqual
  <2> QED BY <2>4 DEF s, t, n, m
<1> QED BY <1>1, <1>2

(* A step before two others.                                               *)
LEMMA JoinsTwo ==
  ASSUME NEW a \in Entries, NEW b \in Entries, NEW c \in Entries
  PROVE  <<c>> \o <<b, a>> = <<c, b, a>>
<1> DEFINE s == <<c>>
           t == <<b, a>>
           n == s \o t
           m == <<c, b, a>>
<1>1. s \in Seq(Entries) /\ Len(s) = 1 /\ s[1] = c
  OBVIOUS
<1>2. t \in Seq(Entries) /\ Len(t) = 2 /\ t[1] = b /\ t[2] = a
  OBVIOUS
<1>3. m \in Seq(Entries) /\ Len(m) = 3 /\ m[1] = c /\ m[2] = b /\ m[3] = a
  OBVIOUS
<1> HIDE DEF s, t, m
<1>4. n \in Seq(Entries) /\ Len(n) = 3 /\ \A i \in 1..3 : n[i] = IF i = 1 THEN c ELSE t[i - 1]
  <2>1. n \in Seq(Entries) /\ Len(n) = Len(s) + Len(t)
        /\ \A i \in 1..Len(s)+Len(t) : n[i] = IF i <= Len(s) THEN s[i] ELSE t[i - Len(s)]
    BY <1>1, <1>2, ConcatProperties
  <2> HIDE DEF n
  <2> QED BY <1>1, <1>2, <2>1
<1> HIDE DEF n
<1>5. \A i \in 1..3 : n[i] = m[i]
  BY <1>2, <1>3, <1>4
<1>6. n = m
  BY <1>3, <1>4, <1>5, SeqEqual
<1> QED BY <1>6 DEF s, t, n, m

(* A call that begins, or that gives up all that waits.                    *)
LEMMA StartNone ==
  ASSUME todo' = <<>>
  PROVE  todo' \in Seq(Entries) /\ Depth' = 0
BY DEF Depth

(* A call of one step.                                                     *)
LEMMA StartOne ==
  ASSUME NEW a \in Entries, todo' = <<a>>
  PROVE  todo' \in Seq(Entries) /\ Depth' = 1 /\ Stack'[1] = a
BY DEF Depth, Stack

(* A call of two steps.                                                    *)
LEMMA StartTwo ==
  ASSUME NEW a \in Entries, NEW b \in Entries, todo' = <<b, a>>
  PROVE  todo' \in Seq(Entries) /\ Depth' = 2 /\ Stack'[1] = a /\ Stack'[2] = b
BY DEF Depth, Stack

(* A call of three steps.                                                  *)
LEMMA StartThree ==
  ASSUME NEW a \in Entries, NEW b \in Entries, NEW c \in Entries, todo' = <<c, b, a>>
  PROVE  /\ todo' \in Seq(Entries) /\ Depth' = 3
         /\ Stack'[1] = a /\ Stack'[2] = b /\ Stack'[3] = c
<1> DEFINE n == <<c, b, a>>
<1>1. n \in Seq(Entries) /\ Len(n) = 3 /\ n[1] = c /\ n[2] = b /\ n[3] = a  OBVIOUS
<1>2. todo' = n  OBVIOUS
<1> HIDE DEF n
<1> QED BY <1>1, <1>2 DEF Depth, Stack

(* What a step leaves as it is for it neither ends such a step nor starts  *)
(* one.                                                                    *)
LEMMA AtKept ==
  ASSUME Onward, NEW op, Stack[Depth].op # op, \A k \in Depth..Depth' : Stack'[k].op # op
  PROVE  At(op)' = At(op)
<1>1. \A k \in 1..Depth : Stack[k].op = op => k \in 1..Depth' /\ Stack'[k] = Stack[k]
  BY DEF Onward
<1>2. \A k \in 1..Depth' : Stack'[k].op = op => k \in 1..Depth /\ Stack'[k] = Stack[k]
  BY DEF Onward
<1> QED BY <1>1, <1>2 DEF At

(* A step that goes on with one such step adds its object.                 *)
LEMMA AtGained ==
  ASSUME Onward, NEW op, NEW i \in Depth..Depth', Stack[Depth].op # op, Stack'[i].op = op,
         Stack'[i].x \in Objects,
         \A k \in Depth..Depth' : k # i => Stack'[k].op # op
  PROVE  At(op)' = At(op) \cup {Stack'[i].x}
<1>1. \A k \in 1..Depth : Stack[k].op = op => k \in 1..Depth' /\ Stack'[k] = Stack[k]
  BY DEF Onward
<1>2. \A k \in 1..Depth' : Stack'[k].op = op => k = i \/ (k \in 1..Depth /\ Stack'[k] = Stack[k])
  BY DEF Onward
<1>3. i \in 1..Depth'
  BY DEF Onward
<1> QED BY <1>1, <1>2, <1>3 DEF At

(* The steps that give an object back, when none comes or goes.            *)
LEMMA GiversKept ==
  ASSUME Onward, NEW x, ~Gives(Stack[Depth], x), \A k \in Depth..Depth' : ~Gives(Stack'[k], x)
  PROVE  Givers(x)' = Givers(x)
<1>1. \A k \in 1..Depth : Gives(Stack[k], x) => k \in 1..Depth' /\ Gives(Stack'[k], x)
  BY DEF Onward
<1>2. \A k \in 1..Depth' : Gives(Stack'[k], x) => k \in 1..Depth /\ Gives(Stack[k], x)
  BY DEF Onward
<1>3. Givers(x)' = {k \in 1..Depth' : Gives(Stack'[k], x)}
  BY DEF Givers, Gives
<1> QED BY <1>1, <1>2, <1>3 DEF Givers

(* One step more that will give an object back.                            *)
LEMMA GiversGained ==
  ASSUME Onward, NEW x, NEW i \in Depth..Depth', ~Gives(Stack[Depth], x), Gives(Stack'[i], x),
         \A k \in Depth..Depth' : k # i => ~Gives(Stack'[k], x)
  PROVE  i \notin Givers(x) /\ Givers(x)' = Givers(x) \cup {i}
<1>1. \A k \in 1..Depth : Gives(Stack[k], x) => k \in 1..Depth' /\ Gives(Stack'[k], x)
  BY DEF Onward
<1>2. \A k \in 1..Depth' : Gives(Stack'[k], x) => k = i \/ (k \in 1..Depth /\ Gives(Stack[k], x))
  BY DEF Onward
<1>3. Givers(x)' = {k \in 1..Depth' : Gives(Stack'[k], x)}
  BY DEF Givers, Gives
<1>4. i \in 1..Depth' /\ (i \in 1..Depth => i = Depth)
  BY DEF Onward
<1> QED BY <1>1, <1>2, <1>3, <1>4 DEF Givers

(* One step less that will give an object back.                            *)
LEMMA GiversLost ==
  ASSUME Onward, NEW x, Gives(Stack[Depth], x), \A k \in Depth..Depth' : ~Gives(Stack'[k], x)
  PROVE  Depth \in Givers(x) /\ Givers(x)' = Givers(x) \ {Depth}
<1>1. \A k \in 1..Depth : Gives(Stack[k], x) => k = Depth \/ (k \in 1..Depth' /\ Gives(Stack'[k], x))
  BY DEF Onward
<1>2. \A k \in 1..Depth' : Gives(Stack'[k], x) => k \in 1..Depth-1 /\ Gives(Stack[k], x)
  BY DEF Onward
<1>3. Givers(x)' = {k \in 1..Depth' : Gives(Stack'[k], x)}
  BY DEF Givers, Gives
<1>4. Depth \in 1..Depth /\ \A k \in 1..Depth-1 : k \in 1..Depth /\ k # Depth
  BY DEF Onward
<1> QED BY <1>1, <1>2, <1>3, <1>4 DEF Givers

(* The steps that wait stay well formed.                                   *)
LEMMA StepsTyped ==
  ASSUME Onward, \A k \in 1..Depth : StepOK(Stack[k]), \A k \in Depth..Depth' : StepOK(Stack'[k])
  PROVE  \A k \in 1..Depth' : StepOK(Stack'[k])
<1>1. \A k \in 1..Depth' : k \in Depth..Depth' \/ (k \in 1..Depth /\ Stack'[k] = Stack[k])
  BY DEF Onward
<1> QED BY <1>1

(* No object is freed twice.                                               *)
LEMMA OrderFreeKept ==
  ASSUME Onward, OrderFree, \A k \in 1..Depth : StepOK(Stack[k]),
         \A k \in Depth..Depth' : Stack'[k].op = "free" => k = Depth /\ Stack'[k].x \in Objects \ Doomed
  PROVE  OrderFree'
<1>1. \A k \in 1..Depth' : Stack'[k].op = "free" => k = Depth \/ (k \in 1..Depth /\ Stack'[k] = Stack[k])
  BY DEF Onward
<1>2. \A k \in 1..Depth-1 : k \in 1..Depth /\ Stack'[k] = Stack[k]
  BY DEF Onward
<1> QED BY <1>1, <1>2 DEF OrderFree, Doomed, At, Onward

(* What frees an object stays below the steps that use it.                 *)
LEMMA FreedBelowKept ==
  ASSUME Onward, NEW k \in 1..Depth, FreedBelow(k)
  PROVE  \E j \in 1..k-1 : Stack'[j].op = "free" /\ Stack'[j].x = Stack[k].x
BY DEF Onward, FreedBelow

(* A descriptor is closed before its stream is freed.                      *)
LEMMA OrderCloseKept ==
  ASSUME Onward, OrderClose,
         \A k \in Depth..Depth' : Stack'[k].op = "close" =>
            \E j \in 1..k-1 : Stack'[j].op = "free" /\ Stack'[j].x = Stack'[k].x
  PROVE  OrderClose'
BY DEF Onward, OrderClose, FreedBelow

(* Who pops has an analyser that is used, or freed by a step below.        *)
LEMMA OrderPopKept ==
  ASSUME Onward, OrderPop, UNCHANGED mine, \A s \in mine \cap Bound : uls'[s] = uls[s],
         \A k \in Depth..Depth' : Stack'[k].op \notin {"bind", "fill", "undo"},
         \A k \in Depth..Depth' : Stack'[k].op \in Popping =>
            \/ Steady /\ Usable(Stack'[k].x)
            \/ \E j \in 1..k-1 : Stack'[j].op = "free" /\ Stack'[j].x = Stack'[k].x
  PROVE  OrderPop'
<1>1. Steady => Steady'
  BY DEF Onward, Steady
<1>2. \A u : Usable(u)' <=> Usable(u)
  BY DEF Usable, UsableBut
<1>3. ASSUME NEW k \in 1..Depth', Stack'[k].op \in Popping
      PROVE  (Steady' /\ Usable(Stack'[k].x)) \/ \E j \in 1..k-1 : Stack'[j].op = "free" /\ Stack'[j].x = Stack'[k].x
  <2>1. CASE k \in Depth..Depth'
    BY <1>1, <1>3, <2>1
  <2>2. CASE k \in 1..Depth /\ Stack'[k] = Stack[k]
    BY <1>1, <1>3, <2>2, FreedBelowKept DEF OrderPop
  <2> QED BY <2>1, <2>2 DEF Onward
<1> QED BY <1>2, <1>3 DEF OrderPop, FreedBelow, Usable, UsableBut

(* No step to pop comes when a step ends.                                  *)
LEMMA OrderEnds ==
  ASSUME Onward, OrderOnce, OrderAll, Depth' = Depth - 1
  PROVE  OrderOnce' /\ OrderAll'
<1>1. \A k \in 1..Depth' : k \in 1..Depth /\ Stack'[k] = Stack[k]
  BY DEF Onward
<1>2. OrderOnce'
  BY <1>1 DEF OrderOnce
<1>3. OrderAll'
  BY <1>1 DEF OrderAll
<1> QED BY <1>2, <1>3

(* The context to be freed stays the one on top.                           *)
LEMMA OrderTopKept ==
  ASSUME Onward, OrderTop, UNCHANGED ctxs, \A k \in Depth..Depth' : Stack'[k].op # "freectx"
  PROVE  OrderTop'
<1>1. \A k \in 1..Depth' : Stack'[k].op = "freectx" => k \in 1..Depth /\ Stack'[k] = Stack[k]
  BY DEF Onward
<1> QED BY <1>1 DEF OrderTop

(* A step inside a call leaves its outermost steps as they are.            *)
LEMMA RootKept ==
  ASSUME Onward, Root, UNCHANGED <<ctxs, mine, lost>>,
         \A s \in mine \cap Bound : uls'[s] = uls[s],
         \A k \in Depth..Depth' : Stack'[k].op \notin Pushing \cup {"unostr", "bind"}
  PROVE  Root'
<1>1. \A k \in 1..Depth' : Stack'[k].op \in Pushing \cup {"unostr", "bind"} =>
         k \in 1..Depth-1 /\ k \in 1..Depth /\ Stack'[k] = Stack[k]
  BY DEF Onward
<1>2. RootPush'
  <2>1. Depth > 1 => Stack'[1] = Stack[1]
    BY DEF Onward
  <2> QED BY <1>1, <2>1 DEF Onward, Root, RootPush, UsableBut
<1>3. RootOut'
  BY <1>1 DEF Onward, Root, RootOut
<1>4. RootBind'
  <2> SUFFICES ASSUME NEW k \in 1..Depth', Stack'[k].op = "bind"
               PROVE  \/ k = 1 /\ Stack'[k].x \in mine
                      \/ /\ k > 1 /\ Stack'[k-1].op = "fill"
                         /\ Stack'[k-1].x = Stack'[k].x /\ Stack'[k-1].y = Stack'[k].y
    BY DEF RootBind
  <2>1. k \in 1..Depth-1 /\ Stack'[k] = Stack[k] /\ k \in 1..Depth
    BY <1>1
  <2>2. k > 1 => Stack'[k-1] = Stack[k-1]
    BY <2>1 DEF Onward
  <2> QED BY <2>1, <2>2 DEF Root, RootBind
<1> QED BY <1>2, <1>3, <1>4 DEF Root

(* A set that gains or loses an element.                                   *)
LEMMA Gains ==
  ASSUME NEW S, IsFiniteSet(S), NEW e, e \notin S, NEW T, T = S \cup {e}
  PROVE  IsFiniteSet(T) /\ Has(T) = Has(S) + 1 /\ Has(S) \in Nat /\ Has(T) \in Nat
BY FS_AddElement, FS_CardinalityType DEF Has

(* A set that loses an element.                                            *)
LEMMA Loses ==
  ASSUME NEW S, IsFiniteSet(S), NEW e \in S, NEW T, T = S \ {e}
  PROVE  IsFiniteSet(T) /\ Has(T) = Has(S) - 1 /\ Has(S) \in Nat /\ Has(T) \in Nat
BY FS_RemoveElement, FS_CardinalityType DEF Has

(* The size of a finite set.                                               *)
LEMMA HasNat ==
  ASSUME NEW S, IsFiniteSet(S)
  PROVE  Has(S) \in Nat /\ (Has(S) = 0 <=> S = {}) /\ (\A e \in S : Has(S) >= 1)
BY FS_CardinalityType, FS_EmptySet DEF Has

(* Two different elements count for two.                                   *)
LEMMA HasTwo ==
  ASSUME NEW S, IsFiniteSet(S), NEW a \in S, NEW b \in S, a # b
  PROVE  Has(S) >= 2
<1>1. Has(S) = Has(S \ {a}) + 1 /\ IsFiniteSet(S \ {a}) /\ Has(S \ {a}) \in Nat
  BY Loses
<1>2. Has(S \ {a}) >= 1
  BY <1>1, HasNat
<1> QED BY <1>1, <1>2
-----------------------------------------------------------------------------
(* What the invariant says of a state.                                     *)
LEMMA DepthNat == ASSUME Typed PROVE Depth \in Nat
BY StackIn DEF Typed

(* The numbers of holders are numbers.                                     *)
LEMMA CountedNat ==
  ASSUME Typed, Counted
  PROVE  /\ \A u \in Lexes : Has(Binders(u)) \in Nat /\ Has(Givers(u)) \in Nat
         /\ \A s \in Streams : Has(Covers(s)) \in Nat /\ Has(Givers(s)) \in Nat
BY HasNat DEF Counted, LexCount, StreamCount

(* An object that the caller holds is live, and not to be freed.           *)
LEMMA MineLive ==
  ASSUME IInv, NEW x \in mine, x \in Lexes \cup Streams
  PROVE  refs[x] > 0 /\ Live(x) /\ x \notin Doomed
<1>1. refs[x] > 0
  <2>1. CASE x \in Lexes
    BY <2>1, CountedNat DEF IInv, Holding, Counted, LexCount, One
  <2>2. CASE x \in Streams
    BY <2>2, CountedNat DEF IInv, Holding, Counted, StreamCount, One
  <2> QED BY <2>1, <2>2
<1> QED BY <1>1 DEF IInv, Holding, LiveLexes, DoomedHeld

(* So is one that a step will give back; its count is more than one when   *)
(* another holds it too.                                                   *)
LEMMA GiverLive ==
  ASSUME IInv, NEW x \in Lexes \cup Streams, NEW k \in Givers(x)
  PROVE  /\ refs[x] > 0 /\ Live(x) /\ x \notin Doomed
         /\ refs[x] = 1 => /\ x \notin mine \cup lost /\ Givers(x) = {k}
                           /\ x \in Lexes => Binders(x) = {}
<1>1. IsFiniteSet(Givers(x)) /\ Has(Givers(x)) >= 1 /\ Has(Givers(x)) \in Nat
  BY HasNat DEF IInv, Holding, Counted, LexCount, StreamCount
<1>2. \A j \in Givers(x) : j # k => Has(Givers(x)) >= 2
  BY <1>1, HasTwo
<1>3. CASE x \in Lexes
  <2>1. IsFiniteSet(Binders(x)) /\ Has(Binders(x)) \in Nat
        /\ refs[x] = One(x \in mine) + Has(Binders(x)) + Has(Givers(x))
    BY <1>3, CountedNat DEF IInv, Holding, Counted, LexCount
  <2>2. x \notin lost
    BY <1>3, OwnershipConstants DEF IInv, Typed, Bound
  <2>3. Has(Binders(x)) = 0 => Binders(x) = {}
    BY <2>1, HasNat
  <2>4. refs[x] > 0 /\ (refs[x] = 1 => x \notin mine /\ Binders(x) = {} /\ Has(Givers(x)) = 1)
    BY <1>1, <2>1, <2>3 DEF One
  <2> QED BY <1>1, <1>2, <1>3, <2>2, <2>4, OwnershipConstants
             DEF IInv, Holding, LiveLexes, DoomedHeld
<1>4. CASE x \in Streams
  <2>1. IsFiniteSet(Covers(x)) /\ Has(Covers(x)) \in Nat
        /\ refs[x] = One(x \in mine \cup lost) + Has(Covers(x)) + Has(Givers(x))
    BY <1>4, CountedNat DEF IInv, Holding, Counted, StreamCount
  <2>2. x \notin Lexes
    BY <1>4, OwnershipConstants
  <2>3. refs[x] > 0 /\ (refs[x] = 1 => x \notin mine \cup lost /\ Has(Givers(x)) = 1)
    BY <1>1, <2>1 DEF One
  <2> QED BY <1>1, <1>2, <1>4, <2>2, <2>3, OwnershipConstants
             DEF IInv, Holding, LiveLexes, DoomedHeld
<1> QED BY <1>3, <1>4

(* An analyser to which a stream is bound is live.                         *)
LEMMA BinderLive ==
  ASSUME IInv, NEW u \in Lexes, NEW s \in Binders(u)
  PROVE  refs[u] > 0 /\ Live(u) /\ u \notin Doomed
<1>1. Has(Binders(u)) >= 1 /\ Has(Binders(u)) \in Nat /\ Has(Givers(u)) \in Nat
  BY HasNat DEF IInv, Holding, Counted, LexCount
<1>2. refs[u] > 0
  BY <1>1 DEF IInv, Holding, Counted, LexCount, One
<1> QED BY <1>2, OwnershipConstants DEF IInv, Holding, LiveLexes, DoomedHeld

(* An analyser is live that the caller can use without a stream that is    *)
(* just being bound.                                                       *)
LEMMA UsableLive ==
  ASSUME IInv, NEW u \in Lexes, NEW S, UsableBut(u, S), Rebinding \subseteq S
  PROVE  refs[u] > 0 /\ Live(u) /\ u \notin Doomed
<1>1. CASE u \in mine
  BY <1>1, MineLive
<1>2. CASE \E s \in (mine \cap Bound) \ S : uls[s] = u
  <2>1. PICK s \in (mine \cap Bound) \ S : uls[s] = u
    BY <1>2
  <2>2. s \in Binders(u)
    BY <2>1 DEF IInv, Holding, DoomedHeld, Binders
  <2> QED BY <2>2, BinderLive
<1> QED BY <1>1, <1>2 DEF UsableBut

(* Only one stream is being pushed, by one of the two outermost steps; and *)
(* only it is being bound then.                                            *)
LEMMA PushAlone ==
  ASSUME Typed, Root, NEW k \in 1..Depth, Stack[k].op \in Pushing
  PROVE  /\ \A j \in 1..Depth : Stack[j].op \in Pushing => j = k
         /\ \A j \in 1..Depth : Stack[j].op = "bind" => j = k + 1
         /\ Rebinding \subseteq {Stack[k].x} /\ Stack[k].y \in Lexes /\ Stack[k].x \in Streams
<1>1. Depth \in Nat  BY DepthNat
<1>2. \A j \in 1..Depth : Stack[j].op \in Pushing => j = k
  BY <1>1 DEF Root, RootPush, Pushing
<1>3. ASSUME NEW j \in 1..Depth, Stack[j].op = "bind"
      PROVE  j = k + 1 /\ Stack[j].x = Stack[k].x
  <2>1. CASE j = 1
    BY <1>1, <1>3, <2>1 DEF Root, RootPush, Pushing
  <2>2. CASE j # 1
    <3>1. Stack[j-1].op = "fill" /\ Stack[j-1].x = Stack[j].x /\ j-1 \in 1..Depth
      BY <1>1, <1>3, <2>2 DEF Root, RootBind
    <3> QED BY <1>1, <1>2, <3>1 DEF Pushing
  <2> QED BY <2>1, <2>2
<1> QED BY <1>2, <1>3 DEF Rebinding, At, Typed, StepOK

(* One stream is being bound at a time, inside its push or by itself.      *)
LEMMA BindAlone ==
  ASSUME Typed, Root, NEW k \in 1..Depth, Stack[k].op = "bind"
  PROVE  /\ \A j \in 1..Depth : Stack[j].op = "bind" => j = k
         /\ \A j \in 1..Depth : Stack[j].op \in Pushing => j = k - 1
<1>1. Depth \in Nat  BY DepthNat
<1>2. ASSUME NEW j \in 1..Depth, Stack[j].op \in Pushing PROVE j = k - 1
  BY <1>1, <1>2, PushAlone
<1>3. ASSUME NEW j \in 1..Depth, Stack[j].op = "bind" PROVE j = k
  <2>1. j > 1 => j - 1 \in 1..Depth /\ Stack[j-1].op = "fill"
    BY <1>1, <1>3 DEF Root, RootBind
  <2>2. k > 1 => k - 1 \in 1..Depth /\ Stack[k-1].op = "fill"
    BY <1>1 DEF Root, RootBind
  <2>3. k > 1 => k = j
    BY <1>1, <1>3, <2>2, PushAlone DEF Pushing
  <2>4. j > 1 => k = j
    BY <1>1, <1>3, <2>1, PushAlone DEF Pushing
  <2> QED BY <1>1, <2>3, <2>4
<1> QED BY <1>2, <1>3

(* A stream that is being pushed, and its analyser, are live.              *)
LEMMA PushLive ==
  ASSUME IInv, NEW k \in 1..Depth, Stack[k].op \in Pushing
  PROVE  /\ refs[Stack[k].x] > 0 /\ Live(Stack[k].x) /\ Stack[k].x \notin Doomed
         /\ refs[Stack[k].y] > 0 /\ Live(Stack[k].y) /\ Stack[k].y \notin Doomed
<1>1. /\ UsableBut(Stack[k].y, {Stack[k].x}) /\ Rebinding \subseteq {Stack[k].x}
      /\ Stack[k].y \in Lexes /\ Stack[k].x \in Streams
  BY PushAlone DEF IInv, Root, RootPush
<1>2. CASE Stack[k].x \in mine
  BY <1>1, <1>2, UsableLive, MineLive
<1>3. CASE k = 2 /\ Stack[1].op = "unistr" /\ Stack[1].x = Stack[k].x
  <2>1. 1 \in Givers(Stack[k].x)
    BY <1>3, DepthNat DEF Givers, Gives, IInv
  <2> QED BY <1>1, <2>1, UsableLive, GiverLive
<1> QED BY <1>2, <1>3 DEF IInv, Root, RootPush

(* An analyser that is being popped is live.                               *)
LEMMA PopLive ==
  ASSUME IInv, NEW k \in 1..Depth, Stack[k].op \in Popping
  PROVE  /\ Stack[k].x \in Lexes /\ Live(Stack[k].x)
         /\ ~FreedBelow(k) => Steady /\ refs[Stack[k].x] > 0 /\ Stack[k].x \notin Doomed
<1>1. Stack[k].x \in Lexes
  BY DEF IInv, Typed, StepOK
<1>2. CASE Steady /\ Usable(Stack[k].x)
  <2>1. Rebinding = {}
    BY <1>2 DEF Steady, Rebinding, At
  <2> QED BY <1>1, <1>2, <2>1, UsableLive DEF Usable
<1>3. CASE FreedBelow(k)
  <2>1. PICK j \in 1..k-1 : Stack[j].op = "free" /\ Stack[j].x = Stack[k].x
    BY <1>3 DEF FreedBelow
  <2>2. j \in 1..Depth /\ Stack[k].x \in Objects
    BY <1>1, DepthNat DEF IInv, Objects
  <2>3. Stack[k].x \in Doomed
    BY <2>1, <2>2 DEF Doomed, At
  <2> QED BY <1>1, <1>3, <2>3 DEF IInv, Holding, DoomedHeld
<1> QED BY <1>2, <1>3 DEF IInv, Order, OrderPop

(* While a context is popped, none of its analyser is just being pushed,   *)
(* and it is the only one popped.                                          *)
LEMMA PopTopping ==
  ASSUME IInv, NEW k \in 1..Depth, Stack[k].op \in {"pop", "freectx"}
  PROVE  /\ \A j \in 1..Depth : Stack[j].op \in {"fill", "undo"} => Stack[j].y # Stack[k].x
         /\ \A j \in 1..Depth : Stack[j].op = "freectx" /\ Stack[j].x = Stack[k].x => j = k
<1>1. ASSUME NEW j \in 1..Depth, Stack[j].op \in {"fill", "undo"}, Stack[j].y = Stack[k].x
      PROVE  FALSE
  <2>1. Stack[k].x \notin Doomed
    BY <1>1, PushLive DEF Pushing
  <2>2. ~FreedBelow(k)
    <3> SUFFICES ASSUME NEW i \in 1..k-1, Stack[i].op = "free", Stack[i].x = Stack[k].x
                 PROVE  FALSE
      BY DEF FreedBelow
    <3>1. i \in 1..Depth /\ Stack[k].x \in Objects
      BY DepthNat DEF IInv, Typed, StepOK, Objects, Popping
    <3> QED BY <2>1, <3>1 DEF Doomed, At
  <2> QED BY <1>1, <2>2, PopLive DEF Steady, Popping
<1> QED BY <1>1 DEF IInv, Order, OrderOnce
-----------------------------------------------------------------------------
(* What a step leaves as it is, from what it leaves alone.                 *)
LEMMA BindersKept ==
  ASSUME UNCHANGED <<uls, Doomed, Rebinding>>, NEW u
  PROVE  Binders(u)' = Binders(u)
BY DEF Binders

(* The contexts that count for a stream.                                   *)
LEMMA CoversKept ==
  ASSUME UNCHANGED <<ctxs, Topping>>, NEW s
  PROVE  Covers(s)' = Covers(s)
BY DEF Covers, Places, Source

(* A step that ends, and changes nothing else: the pop of an empty stack,  *)
(* or a push that is refused.                                              *)
LEMMA EndKeeps ==
  ASSUME IInv, todo # <<>>, Go(<<>>), Stack[Depth].op \in {"pop", "popall", "push"},
         Stack[Depth].op = "popall" => ctxs[Stack[Depth].x] = <<>>,
         UNCHANGED <<st, refs, uls, ctxs, mine, lost, fds, touched>>
  PROVE  IInv'
<1> DEFINE D == Depth
<1>1. Onward /\ Depth' = D - 1 /\ D \in 1..D
  <2>1. Onward /\ Depth' = Depth - 1
    BY GoNone DEF IInv, Typed
  <2> QED BY <2>1 DEF Onward
<1>2. Stack[D].op \in {"pop", "popall", "push"}
      /\ (Stack[D].op = "popall" => ctxs[Stack[D].x] = <<>>)
  OBVIOUS
<1>3. UNCHANGED <<st, refs, uls, ctxs, mine, lost, fds, touched>>
  OBVIOUS
<1> HIDE DEF D
<1>4. \A k \in D..Depth' : FALSE
  BY <1>1 DEF Onward, D
<1>5. Typed'
  <2>1. \A k \in 1..Depth' : StepOK(Stack'[k])
    BY <1>1, <1>4, StepsTyped DEF IInv, Typed, D
  <2> QED BY <1>1, <1>3, <2>1 DEF IInv, Typed, Onward, StepOK
<1>6. /\ Doomed' = Doomed /\ Closing' = Closing /\ Rebinding' = Rebinding
      /\ Stack[D].op # "popall" => Clearing' = Clearing
  BY <1>1, <1>2, <1>4, AtKept DEF Doomed, Closing, Rebinding, Clearing, D
<1>7. \A x : Givers(x)' = Givers(x)
  BY <1>1, <1>2, <1>4, GiversKept DEF Gives, D
<1>8. Topping' = Topping /\ (\A u \in Clearing : u \in Clearing' \/ ctxs[u] = <<>>)
  BY <1>1, <1>2 DEF Topping, Clearing, At, Onward, D
<1>9. Counted'
  BY <1>3, <1>6, <1>7, <1>8, BindersKept, CoversKept
     DEF IInv, Holding, Counted, LexCount, StreamCount
<1>10. LiveLexes' /\ LiveParts' /\ DoomedHeld'
  BY <1>3, <1>6, <1>8 DEF IInv, Holding, LiveLexes, LiveParts, DoomedHeld, Live
<1>11. LiveOuts'
  BY <1>1, <1>2, <1>3, <1>6 DEF IInv, Holding, LiveOuts, Live, D, Onward
<1>12. OrderFree' /\ OrderClose' /\ OrderPop'
  BY <1>1, <1>3, <1>4, OrderFreeKept, OrderCloseKept, OrderPopKept
     DEF IInv, Typed, Order, D
<1>13. OrderOnce' /\ OrderAll' /\ OrderTop'
  BY <1>1, <1>3, <1>4, OrderEnds, OrderTopKept DEF IInv, Order, D
<1>14. Root'
  BY <1>1, <1>3, <1>4, RootKept DEF IInv, D
<1> QED
  BY <1>3, <1>5, <1>9, <1>10, <1>11, <1>12, <1>13, <1>14 DEF IInv, Holding, Order
(* uls_pop(): the context on top does not count from then on, and what it  *)
(* read is given back by a step.                                           *)
LEMMA PopKeeps ==
  ASSUME IInv, PopStep
  PROVE  IInv'
<1> DEFINE D == Depth
<1>1. /\ todo \in Seq(Entries) /\ todo # <<>> /\ D \in Nat /\ D >= 1 /\ D \in 1..D
      /\ Head(todo) = Stack[D] /\ Stack[D].op = "pop" /\ X = Stack[D].x
  BY TopStep DEF PopStep, Now, X, IInv, Typed
<1>2. X \in Lexes /\ Live(X) /\ ctxs[X] \in Seq(Streams \cup {Line})
  BY <1>1, PopLive DEF Popping, IInv, Typed
<1>3. UNCHANGED <<st, refs, uls, ctxs, mine, lost, fds, touched>>
  BY <1>2 DEF PopStep, Touch, IInv, Typed
<1>4. CASE ctxs[X] = <<>>
  BY <1>1, <1>3, <1>4, EndKeeps DEF PopStep
<1>5. CASE ctxs[X] # <<>>
  <2> DEFINE h == Head(ctxs[X])
             L == Len(ctxs[X])
             a == Do2("freectx", X, L)
             b == Do("unistr", h)
  <2>1. h \in Streams \cup {Line} /\ L \in Nat /\ L > 0 /\ h = ctxs[X][1] /\ L = Len(ctxs[X])
    BY <1>2, <1>5
  <2>2. a \in Entries /\ a.op = "freectx" /\ a.x = X /\ a.y = L
    BY <1>2, <2>1 DEF Entries, Ops, Popping, Objects, Do2
  <2>3. h \in Streams => b \in Entries /\ b.op = "unistr" /\ b.x = h
    BY DEF Entries, Ops, Popping, Objects, Do
  <2>4. /\ Onward /\ Depth' \in D..D+1 /\ Stack'[D] = a
        /\ IF h \in Streams THEN Depth' = D + 1 /\ Stack'[D + 1] = b ELSE Depth' = D
    <3>1. CASE h \in Streams
      <4>1. Go(<<b>> \o <<a>>)
        BY <1>5, <3>1 DEF PopStep
      <4>2. Go(<<b, a>>)
        BY <4>1, Joins DEF Go
      <4> HIDE DEF a, b
      <4> QED BY <1>1, <2>2, <2>3, <3>1, <4>2, GoTwo
    <3>2. CASE h \notin Streams
      <4>1. Go(<<a>>)
        BY <1>5, <3>2 DEF PopStep
      <4> HIDE DEF a
      <4> QED BY <1>1, <2>2, <3>2, <4>1, GoOne
    <3> QED BY <3>1, <3>2
  <2> HIDE DEF D, a, b, h, L
  <2>5. /\ D \in D..Depth'
        /\ \A k \in D..Depth' : \/ k = D /\ Stack'[k] = a
                                \/ k = D + 1 /\ Stack'[k] = b /\ h \in Streams
    BY <1>1, <2>4
  <2>6. Typed'
    <3>1. StepOK(a) /\ (h \in Streams => StepOK(b))
      BY <1>2, <2>1, <2>2, <2>3 DEF StepOK, Popping, Pushing
    <3>2. \A k \in 1..Depth' : StepOK(Stack'[k])
      BY <2>4, <2>5, <3>1, StepsTyped DEF IInv, Typed, D
    <3> QED BY <1>3, <2>4, <3>2 DEF IInv, Typed, Onward, StepOK
  <2>7. Doomed' = Doomed /\ Closing' = Closing /\ Rebinding' = Rebinding /\ Clearing' = Clearing
    BY <1>1, <2>2, <2>3, <2>4, <2>5, AtKept DEF Doomed, Closing, Rebinding, Clearing, D
  <2>8. X \notin Topping /\ Topping' = Topping \cup {X}
    <3>1. X \notin Topping
      BY <1>1, PopTopping DEF Topping, D
    <3>2. \A u \in Topping : u \in Topping'
      BY <1>1, <2>4 DEF Topping, D, Onward
    <3>3. \A u \in Topping' : u \in Topping \cup {X}
      BY <1>1, <2>2, <2>3, <2>4, <2>5 DEF Topping, D, Onward
    <3> QED BY <1>1, <1>2, <2>2, <2>4, <2>5, <3>1, <3>2, <3>3 DEF Topping, Onward, D
  <2>9. Counted'
    <3>1. ASSUME NEW x, x # h \/ h \notin Streams PROVE Givers(x)' = Givers(x)
      BY <1>1, <2>2, <2>3, <2>4, <2>5, <3>1, GiversKept DEF Gives, D
    <3>2. ASSUME NEW s \in Streams, s = h
          PROVE  D + 1 \notin Givers(s) /\ Givers(s)' = Givers(s) \cup {D + 1}
      <4>1. D + 1 \in D..Depth' /\ ~Gives(Stack[D], s) /\ ~Gives(a, s) /\ Gives(b, s)
        BY <1>1, <2>2, <2>3, <2>4, <3>2 DEF Gives
      <4>2. Gives(Stack'[D + 1], s) /\ \A k \in D..Depth' : k # D + 1 => ~Gives(Stack'[k], s)
        BY <2>4, <2>5, <3>2, <4>1
      <4> QED BY <2>4, <4>1, <4>2, GiversGained DEF D
    <3>3. ASSUME NEW u \in Lexes PROVE LexCount(u)'
      <4>1. u # h \/ h \notin Streams
        BY OwnershipConstants
      <4> QED BY <1>3, <2>7, <3>1, <4>1, BindersKept
                 DEF IInv, Holding, Counted, LexCount
    <3>4. ASSUME NEW s \in Streams, s # h PROVE StreamCount(s)'
      <4>1. \A p \in Places : p[1] = X /\ p[2] = L => Source(p) # s
        BY <2>1, <3>4 DEF Places, Source
      <4>2. Places' = Places /\ \A p \in Places : Source(p)' = Source(p)
        BY <1>3 DEF Places, Source
      <4>3. Covers(s)' = Covers(s)
        BY <1>3, <2>1, <2>8, <4>1, <4>2 DEF Covers
      <4> QED BY <1>3, <3>1, <3>4, <4>3 DEF IInv, Holding, Counted, StreamCount
    <3>5. ASSUME NEW s \in Streams, s = h PROVE StreamCount(s)'
      <4>1. <<X, L>> \in Places /\ Source(<<X, L>>) = s
        BY <1>2, <2>1, <3>5 DEF Places, Source
      <4>2. Places' = Places /\ \A p \in Places : Source(p)' = Source(p)
        BY <1>3 DEF Places, Source
      <4>3. \A p \in Places : p[1] = X /\ p[2] = L <=> p = <<X, L>>
        BY DEF Places
      <4>4. <<X, L>> \in Covers(s)
        BY <2>8, <4>1 DEF Covers
      <4>5. \A p \in Places : p \in Covers(s)' <=> p \in Covers(s) /\ p # <<X, L>>
        BY <1>3, <2>1, <2>8, <4>2, <4>3 DEF Covers
      <4>6. Covers(s)' = Covers(s) \ {<<X, L>>}
        BY <4>2, <4>5 DEF Covers
      <4>7. StreamCount(s)
        BY DEF IInv, Holding, Counted
      <4>8. IsFiniteSet(Covers(s)') /\ Has(Covers(s)') = Has(Covers(s)) - 1 /\ Has(Covers(s)) \in Nat
        BY <4>4, <4>6, <4>7, Loses DEF StreamCount
      <4>9. IsFiniteSet(Givers(s)') /\ Has(Givers(s)') = Has(Givers(s)) + 1 /\ Has(Givers(s)) \in Nat
        BY <3>2, <3>5, <4>7, Gains DEF StreamCount
      <4> QED BY <1>3, <4>7, <4>8, <4>9 DEF StreamCount, One, Has
    <3> QED BY <3>3, <3>4, <3>5 DEF Counted
  <2>10. LiveLexes' /\ LiveParts' /\ DoomedHeld'
    BY <1>3, <2>7 DEF IInv, Holding, LiveLexes, LiveParts, DoomedHeld, Live
  <2>11. LiveOuts'
    BY <1>1, <1>3, <2>4, <2>7 DEF IInv, Holding, LiveOuts, Live, D, Onward
  <2>12. OrderFree' /\ OrderClose'
    BY <2>2, <2>3, <2>4, <2>5, OrderFreeKept, OrderCloseKept DEF IInv, Typed, Order, D
  <2>13. OrderPop'
    <3>1. (Steady /\ Usable(X)) \/ \E j \in 1..D-1 : Stack'[j].op = "free" /\ Stack'[j].x = X
      BY <1>1, <2>4, FreedBelowKept DEF IInv, Order, OrderPop, Popping, D
    <3> QED BY <1>3, <2>2, <2>3, <2>4, <2>5, <3>1, OrderPopKept
               DEF IInv, Order, Popping, D
  <2>14. \A k \in 1..Depth' : Stack'[k].op \in Popping =>
           /\ k \in 1..D /\ Stack'[k].x = Stack[k].x /\ Stack[k].op \in Popping
           /\ (Stack'[k].op = "popall" <=> Stack[k].op = "popall")
           /\ Stack'[k].op = "freectx" => k = D \/ Stack'[k] = Stack[k]
    BY <1>1, <2>2, <2>3, <2>4, <2>5 DEF Onward, Popping, D
  <2>15. OrderOnce' /\ OrderAll'
    BY <2>14 DEF IInv, Order, OrderOnce, OrderAll, Popping, D
  <2>16. OrderTop'
    BY <1>3, <2>1, <2>2, <2>4, <2>14 DEF IInv, Order, OrderTop, Popping, D
  <2>17. Root'
    BY <1>3, <2>2, <2>3, <2>4, <2>5, RootKept DEF IInv, Pushing, D
  <2> QED
    BY <1>3, <2>6, <2>9, <2>10, <2>11, <2>12, <2>13, <2>15, <2>16, <2>17
       DEF IInv, Holding, Order
<1> QED BY <1>4, <1>5

(* The freed context did not count any more.                               *)
LEMMA FreeContextKeeps ==
  ASSUME IInv, FreeContext
  PROVE  IInv'
<1> DEFINE D == Depth
           L == Len(ctxs[X])
<1>1. /\ todo \in Seq(Entries) /\ todo # <<>> /\ D \in Nat /\ D >= 1 /\ D \in 1..D
      /\ Stack[D].op = "freectx" /\ X = Stack[D].x /\ Y = Stack[D].y
  BY TopStep DEF FreeContext, Now, X, Y, IInv, Typed
<1>2. X \in Lexes /\ Live(X) /\ ctxs[X] \in Seq(Streams \cup {Line}) /\ Y = L /\ L > 0 /\ L \in Nat
  <2>1. X \in Lexes /\ Live(X)
    BY <1>1, PopLive DEF Popping
  <2>2. ctxs[X] \in Seq(Streams \cup {Line})
    BY <2>1 DEF IInv, Typed
  <2>3. Y = L /\ L > 0
    BY <1>1 DEF IInv, Order, OrderTop
  <2> QED BY <2>1, <2>2, <2>3
<1>3. UNCHANGED <<st, refs, uls, mine, lost, fds, touched>> /\ Go(<<>>)
  BY <1>2 DEF FreeContext, IInv
<1>4. /\ ctxs' \in [Lexes -> Seq(Streams \cup {Line})] /\ ctxs'[X] = Tail(ctxs[X])
      /\ \A u \in Lexes : u # X => ctxs'[u] = ctxs[u]
  BY <1>2 DEF FreeContext, IInv, Typed
<1>5. /\ Onward /\ Depth' = D - 1 /\ \A k \in D..Depth' : FALSE
  <2>1. Onward /\ Depth' = Depth - 1
    BY <1>1, <1>3, GoNone
  <2> QED BY <2>1 DEF Onward
<1>6. X \in Topping /\ Topping' = Topping \ {X}
  <2>1. \A j \in 1..D : /\ Stack[j].op \in {"fill", "undo"} => Stack[j].y # X
                        /\ Stack[j].op = "freectx" /\ Stack[j].x = X => j = D
    BY <1>1, PopTopping
  <2>2. X \notin Topping'
    BY <1>5, <2>1 DEF Topping, Onward
  <2>3. \A u \in Topping : u # X => u \in Topping'
    BY <1>1, <1>5 DEF Topping, Onward
  <2>4. \A u \in Topping' : u \in Topping
    BY <1>5 DEF Topping, Onward
  <2> QED BY <1>1, <1>2, <2>2, <2>3, <2>4 DEF Topping
<1>7. Len(ctxs'[X]) = L - 1 /\ \A i \in 1..L-1 : ctxs'[X][i] = ctxs[X][i + 1]
  BY <1>2, <1>4
<1> HIDE DEF D, L
<1>8. ASSUME NEW s PROVE Covers(s)' = Covers(s)
  <2>1. \A p \in Places : p \in Places' \/ (p[1] = X /\ p[2] = L)
    BY <1>2, <1>4, <1>7 DEF Places, L
  <2>2. \A p \in Places' : p \in Places /\ p[1] \in Lexes /\ p[2] \in Nat /\ (p[1] = X => p[2] \in 1..L-1)
    BY <1>2, <1>4, <1>7 DEF Places, L
  <2>3. \A p \in Places' : Source(p)' = Source(p)
    <3> SUFFICES ASSUME NEW p \in Places' PROVE Source(p)' = Source(p)
      OBVIOUS
    <3>1. CASE p[1] = X
      <4> DEFINE i == L - p[2]
      <4>1. p[2] \in 1..L-1 /\ i \in 1..L-1 /\ Len(ctxs'[X]) + 1 - p[2] = i /\ L + 1 - p[2] = i + 1
        <5>1. p[2] \in 1..L-1 /\ L \in Nat /\ Len(ctxs'[X]) = L - 1
          BY <1>2, <1>7, <2>2, <3>1
        <5> QED BY <5>1
      <4>2. Source(p) = ctxs[X][i + 1] /\ Source(p)' = ctxs'[X][i]
        <5> HIDE DEF i
        <5>1. Source(p)' = ctxs'[X][Len(ctxs'[X]) + 1 - p[2]]
          BY <3>1 DEF Source
        <5>2. Source(p) = ctxs[X][L + 1 - p[2]]
          BY <3>1 DEF Source, L
        <5> QED BY <4>1, <5>1, <5>2
      <4> QED BY <1>7, <4>1, <4>2
    <3>2. CASE p[1] # X
      BY <1>4, <2>2, <3>2 DEF Source
    <3> QED BY <3>1, <3>2
  <2>4. \A p \in Places' : p[1] = X \/ Len(ctxs'[p[1]]) = Len(ctxs[p[1]])
    BY <1>4, <2>2
  <2>5. \A p \in Places' : p \in Covers(s)' <=> p \in Covers(s)
    BY <1>2, <1>6, <1>7, <2>2, <2>3, <2>4 DEF Covers, L
  <2>6. \A p \in Covers(s) : p \in Places'
    BY <1>6, <2>1 DEF Covers, L
  <2> QED BY <2>5, <2>6 DEF Covers
<1>9. Typed'
  <2>1. \A k \in 1..Depth' : StepOK(Stack'[k])
    BY <1>5, StepsTyped DEF IInv, Typed, D
  <2> QED BY <1>3, <1>4, <1>5, <2>1 DEF IInv, Typed, Onward, StepOK
<1>10. Doomed' = Doomed /\ Closing' = Closing /\ Rebinding' = Rebinding /\ Clearing' = Clearing
  BY <1>1, <1>5, AtKept DEF Doomed, Closing, Rebinding, Clearing, D
<1>11. \A x : Givers(x)' = Givers(x)
  BY <1>1, <1>5, GiversKept DEF Gives, D
<1>12. Counted'
  BY <1>3, <1>8, <1>10, <1>11, BindersKept
     DEF IInv, Holding, Counted, LexCount, StreamCount
<1>13. LiveLexes'
  BY <1>3, <1>10 DEF IInv, Holding, LiveLexes, Live
<1>14. LiveParts' /\ DoomedHeld'
  <2>1. \A u \in Lexes : u # X => ctxs'[u] = ctxs[u]
    BY <1>4
  <2>2. ctxs[X] # <<>>
    BY <1>2 DEF L
  <2>3. LiveParts'
    BY <1>2, <1>3, <1>10, <2>1 DEF IInv, Holding, LiveParts, Live
  <2>4. DoomedHeld'
    BY <1>2, <1>3, <1>10, <2>1, <2>2 DEF IInv, Holding, DoomedHeld, Live
  <2> QED BY <2>3, <2>4
<1>15. LiveOuts'
  BY <1>1, <1>3, <1>5, <1>10 DEF IInv, Holding, LiveOuts, Live, D, Onward
<1>16. OrderFree' /\ OrderClose' /\ OrderPop'
  BY <1>3, <1>5, OrderFreeKept, OrderCloseKept, OrderPopKept DEF IInv, Typed, Order, D
<1>17. OrderOnce' /\ OrderAll'
  BY <1>5, OrderEnds DEF IInv, Order, D
<1>18. OrderTop'
  <2> SUFFICES ASSUME NEW k \in 1..Depth', Stack'[k].op = "freectx"
               PROVE  Stack'[k].y = Len(ctxs'[Stack'[k].x]) /\ Stack'[k].y > 0
    BY DEF OrderTop
  <2>1. k \in 1..D /\ k # D /\ Stack'[k] = Stack[k]
    BY <1>1, <1>5 DEF Onward, D
  <2>2. Stack[k].x \in Lexes /\ Stack[k].x # X
    BY <1>1, <2>1 DEF IInv, Order, OrderOnce, Typed, StepOK, Popping, D
  <2> QED BY <1>4, <2>1, <2>2 DEF IInv, Order, OrderTop, D
<1>19. RootPush'
  <2> SUFFICES ASSUME NEW k \in 1..Depth', Stack'[k].op \in Pushing
               PROVE  /\ UsableBut(Stack[k].y, {Stack[k].x}) 
                      /\ \/ k = 1 /\ Stack[k].x \in mine
                         \/ /\ k = 2 /\ Stack[1].op = "unistr" /\ Stack[1].x = Stack[k].x
                            /\ Stack[k].x \notin mine \cup lost
                      /\ Stack[k].op # "push" =>
                           ctxs'[Stack[k].y] # <<>> /\ Head(ctxs'[Stack[k].y]) = Stack[k].x
    BY <1>3, <1>5 DEF RootPush, UsableBut, Onward, D
  <2>1. k \in 1..D /\ Stack'[k] = Stack[k]
    BY <1>1, <1>5 DEF Onward, D
  <2>2. Stack[k].op # "push" => Stack[k].y \in Lexes /\ Stack[k].y # X
    BY <1>1, <2>1, PopTopping DEF IInv, Typed, StepOK, Pushing, D
  <2> QED BY <1>4, <2>1, <2>2 DEF IInv, Root, RootPush, D
<1>20. RootOut'
  BY <1>1, <1>5 DEF IInv, Root, RootOut, Onward, D
<1>21. RootBind'
  BY <1>1, <1>3, <1>5 DEF IInv, Root, RootBind, Onward, D
<1> QED
  BY <1>3, <1>9, <1>12, <1>13, <1>14, <1>15, <1>16, <1>17, <1>18, <1>19, <1>20, <1>21
     DEF IInv, Holding, Order, Root

(* uls_pop_all()                                                           *)
LEMMA PopAllKeeps ==
  ASSUME IInv, PopAllStep
  PROVE  IInv'
<1> DEFINE D == Depth
<1>1. /\ todo \in Seq(Entries) /\ todo # <<>> /\ D \in Nat /\ D >= 1 /\ D \in 1..D
      /\ Stack[D].op = "popall" /\ X = Stack[D].x
  BY TopStep DEF PopAllStep, Now, X, IInv, Typed
<1>2. X \in Lexes /\ Live(X)
  BY <1>1, PopLive DEF Popping, IInv, Typed
<1>3. UNCHANGED <<st, refs, uls, ctxs, mine, lost, fds, touched>>
  BY <1>2 DEF PopAllStep, Touch, IInv, Typed
<1>4. CASE ctxs[X] = <<>>
  BY <1>1, <1>3, <1>4, EndKeeps DEF PopAllStep
<1>5. CASE ctxs[X] # <<>>
  <2> DEFINE a == Do("popall", X)
             b == Do("pop", X)
  <2>1. /\ a \in Entries /\ a.op = "popall" /\ a.x = X
        /\ b \in Entries /\ b.op = "pop" /\ b.x = X
    BY <1>2 DEF Entries, Ops, Popping, Objects, Do
  <2>2. Go(<<b, a>>)
    BY <1>5 DEF PopAllStep
  <2> HIDE DEF a, b
  <2>3. /\ Onward /\ Depth' = D + 1 /\ Stack'[D] = a /\ Stack'[D + 1] = b
        /\ \A k \in D..Depth' : (k = D /\ Stack'[k] = a) \/ (k = D + 1 /\ Stack'[k] = b)
    <3>1. Onward /\ Depth' = D + 1 /\ Stack'[D] = a /\ Stack'[D + 1] = b
      BY <1>1, <2>1, <2>2, GoTwo
    <3>2. ASSUME NEW k \in D..Depth' PROVE k = D \/ k = D + 1
      BY <1>1, <3>1
    <3> QED BY <3>1, <3>2
  <2> HIDE DEF D
  <2>4. Typed'
    <3>1. StepOK(a) /\ StepOK(b)
      BY <1>2, <2>1 DEF StepOK, Popping, Pushing
    <3>2. \A k \in 1..Depth' : StepOK(Stack'[k])
      BY <2>3, <3>1, StepsTyped DEF IInv, Typed, D
    <3> QED BY <1>3, <2>3, <3>2 DEF IInv, Typed, Onward, StepOK
  <2>5. Doomed' = Doomed /\ Closing' = Closing /\ Rebinding' = Rebinding
    BY <1>1, <2>1, <2>3, AtKept DEF Doomed, Closing, Rebinding, D
  <2>6. Clearing \subseteq Clearing' /\ Topping' = Topping
    BY <1>1, <2>1, <2>3 DEF Clearing, At, Topping, Onward, D
  <2>7. \A x : Givers(x)' = Givers(x)
    BY <1>1, <2>1, <2>3, GiversKept DEF Gives, D
  <2>8. Counted'
    BY <1>3, <2>5, <2>6, <2>7, BindersKept, CoversKept
       DEF IInv, Holding, Counted, LexCount, StreamCount
  <2>9. LiveLexes' /\ LiveParts' /\ DoomedHeld'
    BY <1>3, <2>5, <2>6 DEF IInv, Holding, LiveLexes, LiveParts, DoomedHeld, Live
  <2>10. LiveOuts'
    BY <1>1, <1>3, <2>3, <2>5 DEF IInv, Holding, LiveOuts, Live, D, Onward
  <2>11. OrderFree' /\ OrderClose'
    BY <2>1, <2>3, OrderFreeKept, OrderCloseKept DEF IInv, Typed, Order, D
  <2>12. OrderPop'
    <3>1. (Steady /\ Usable(X)) \/ \E j \in 1..D-1 : Stack'[j].op = "free" /\ Stack'[j].x = X
      BY <1>1, <2>3, FreedBelowKept DEF IInv, Order, OrderPop, Popping, D
    <3>2. \A k \in D..Depth' : \/ Steady /\ Usable(X)
                               \/ \E j \in 1..k-1 : Stack'[j].op = "free" /\ Stack'[j].x = X
      BY <1>1, <2>3, <3>1
    <3> QED BY <1>3, <2>1, <2>3, <3>2, OrderPopKept DEF IInv, Order, D
  <2>13. \A k \in 1..D-1 : Stack[k].op \in Popping => Stack[k].x # X
    BY <1>1 DEF IInv, Order, OrderAll, D
  <2>14. \A k \in 1..Depth' : Stack'[k].op \in Popping =>
           \/ k \in D..Depth' /\ Stack'[k].x = X
           \/ k \in 1..D-1 /\ Stack'[k] = Stack[k] /\ Stack'[k].x # X
    BY <1>1, <2>1, <2>3, <2>13 DEF Onward, D
  <2>15. OrderOnce'
    BY <1>1, <2>1, <2>3, <2>14 DEF IInv, Order, OrderOnce, Popping, D
  <2>16. OrderAll'
    BY <1>1, <2>1, <2>3, <2>14 DEF IInv, Order, OrderAll, Popping, D
  <2>17. OrderTop'
    BY <1>1, <1>3, <2>1, <2>3 DEF IInv, Order, OrderTop, Onward, D
  <2>18. Root'
    BY <1>3, <2>1, <2>3, RootKept DEF IInv, Pushing, D
  <2> QED
    BY <1>3, <2>4, <2>8, <2>9, <2>10, <2>11, <2>12, <2>15, <2>16, <2>17, <2>18
       DEF IInv, Holding, Order
<1> QED BY <1>4, <1>5

(* A reference that is not the last one is given back.                     *)
LEMMA MoreKeeps ==
  ASSUME IInv, todo # <<>>, NEW x \in Lexes \cup Streams, Stack[Depth].x = x,
         Stack[Depth].op \in {"unlex", "unistr"}, refs[x] > 1, Go(<<>>),
         refs' = [refs EXCEPT ![x] = @ - 1],
         UNCHANGED <<st, uls, ctxs, mine, lost, fds, touched>>
  PROVE  IInv'
<1> DEFINE D == Depth
<1>1. Onward /\ Depth' = D - 1 /\ D \in 1..D
  <2>1. Onward /\ Depth' = Depth - 1
    BY GoNone DEF IInv, Typed
  <2> QED BY <2>1 DEF Onward
<1>2. Stack[D].x = x /\ Stack[D].op \in {"unlex", "unistr"}
  OBVIOUS
<1>3. UNCHANGED <<st, uls, ctxs, mine, lost, fds, touched>>
  OBVIOUS
<1>4. /\ refs \in [Objects -> Nat] /\ refs' \in [Objects -> Nat] /\ x \in Objects
      /\ refs'[x] = refs[x] - 1 /\ refs'[x] > 0 /\ \A z \in Objects : z # x => refs'[z] = refs[z]
  BY DEF IInv, Typed, Objects
<1> HIDE DEF D
<1>5. \A k \in D..Depth' : FALSE
  BY <1>1 DEF Onward, D
<1>6. Typed'
  <2>1. \A k \in 1..Depth' : StepOK(Stack'[k])
    BY <1>1, <1>5, StepsTyped DEF IInv, Typed, D
  <2> QED BY <1>1, <1>3, <1>4, <2>1 DEF IInv, Typed, Onward, StepOK
<1>7. Doomed' = Doomed /\ Closing' = Closing /\ Rebinding' = Rebinding /\ Clearing' = Clearing
  BY <1>1, <1>2, <1>5, AtKept DEF Doomed, Closing, Rebinding, Clearing, D
<1>8. Topping' = Topping
  BY <1>1, <1>2 DEF Topping, Onward, D
<1>9. Counted'
  <2>1. ASSUME NEW z, z # x PROVE Givers(z)' = Givers(z)
    BY <1>1, <1>2, <1>5, <2>1, GiversKept DEF Gives, D
  <2>2. D \in Givers(x) /\ Givers(x)' = Givers(x) \ {D}
    BY <1>1, <1>2, <1>5, GiversLost DEF Gives, D
  <2>3. IsFiniteSet(Givers(x)) =>
          IsFiniteSet(Givers(x)') /\ Has(Givers(x)') = Has(Givers(x)) - 1 /\ Has(Givers(x)) \in Nat
    BY <2>2, Loses
  <2>4. ASSUME NEW u \in Lexes PROVE LexCount(u)'
    <3>1. LexCount(u) /\ Has(Binders(u)) \in Nat /\ Has(Givers(u)) \in Nat /\ Binders(u)' = Binders(u)
      BY <1>3, <1>7, BindersKept, CountedNat DEF IInv, Holding, Counted
    <3>2. CASE u = x
      BY <1>3, <1>4, <2>3, <3>1, <3>2 DEF LexCount, One, Has
    <3>3. CASE u # x
      BY <1>3, <1>4, <2>1, <3>1, <3>3 DEF LexCount, Objects
    <3> QED BY <3>2, <3>3
  <2>5. ASSUME NEW s \in Streams PROVE StreamCount(s)'
    <3>1. StreamCount(s) /\ Has(Covers(s)) \in Nat /\ Has(Givers(s)) \in Nat /\ Covers(s)' = Covers(s)
      BY <1>3, <1>8, CoversKept, CountedNat DEF IInv, Holding, Counted
    <3>2. CASE s = x
      BY <1>3, <1>4, <2>3, <3>1, <3>2 DEF StreamCount, One, Has
    <3>3. CASE s # x
      BY <1>3, <1>4, <2>1, <3>1, <3>3 DEF StreamCount, Objects
    <3> QED BY <3>2, <3>3
  <2> QED BY <2>4, <2>5 DEF Counted
<1>10. LiveLexes' /\ DoomedHeld'
  <2>1. x \notin Doomed /\ \A z \in Doomed : z \in Objects
    BY OwnershipConstants DEF IInv, Holding, DoomedHeld, Doomed, At
  <2> QED BY <1>3, <1>4, <1>7, <2>1
             DEF IInv, Holding, LiveLexes, DoomedHeld, Live, Objects
<1>11. LiveParts'
  BY <1>3, <1>7 DEF IInv, Holding, LiveParts, Live
<1>12. x \notin OStreams /\ \A o \in OStreams : refs'[o] = refs[o]
  BY <1>4, OwnershipConstants DEF Objects
<1>13. LiveOuts'
  BY <1>1, <1>2, <1>3, <1>7, <1>12 DEF IInv, Holding, LiveOuts, Live, D, Onward
<1>14. OrderFree' /\ OrderClose' /\ OrderPop'
  BY <1>1, <1>3, <1>5, OrderFreeKept, OrderCloseKept, OrderPopKept
     DEF IInv, Typed, Order, D
<1>15. OrderOnce' /\ OrderAll' /\ OrderTop'
  <2>1. OrderOnce' /\ OrderAll'
    BY <1>1, OrderEnds DEF IInv, Order, D
  <2> QED BY <1>1, <1>3, <1>5, <2>1, OrderTopKept DEF IInv, Order, D
<1>16. Root'
  BY <1>1, <1>3, <1>5, RootKept DEF IInv, D
<1> QED
  BY <1>3, <1>6, <1>9, <1>10, <1>11, <1>13, <1>14, <1>15, <1>16 DEF IInv, Holding, Order

(* uls_destroy(): with the last reference nobody is left who could use the *)
(* analyser, so that no step on it waits.                                  *)
LEMMA UnrefLexKeeps ==
  ASSUME IInv, UnrefLex
  PROVE  IInv'
<1> DEFINE D == Depth
<1>1. /\ todo \in Seq(Entries) /\ todo # <<>> /\ D \in Nat /\ D >= 1 /\ D \in 1..D
      /\ Stack[D].op = "unlex" /\ X = Stack[D].x /\ X \in Lexes /\ X \in Objects
  <2>1. todo \in Seq(Entries) /\ todo # <<>> /\ Head(todo).op = "unlex"
    BY DEF UnrefLex, Now, IInv, Typed
  <2>2. Stack[D].op = "unlex" /\ X = Stack[D].x /\ D \in Nat /\ D >= 1 /\ D \in 1..D
    BY <2>1, TopStep DEF X
  <2>3. X \in Lexes
    BY <2>2 DEF IInv, Typed, StepOK
  <2> QED BY <2>1, <2>2, <2>3 DEF Objects
<1>2. /\ D \in Givers(X) /\ refs[X] > 0 /\ Live(X) /\ X \notin Doomed /\ refs \in [Objects -> Nat]
      /\ refs[X] = 1 => X \notin mine \cup lost /\ Givers(X) = {D} /\ Binders(X) = {}
  <2>1. D \in Givers(X)
    BY <1>1 DEF Givers, Gives
  <2> QED BY <1>1, <2>1, GiverLive DEF IInv, Typed
<1>3. UNCHANGED <<st, uls, ctxs, mine, lost, fds, touched>> /\ refs' = [refs EXCEPT ![X] = @ - 1]
      /\ Go(IF refs[X] = 1 THEN <<Do("popall", X), Do("free", X)>> ELSE <<>>)
  <2>1. refs[X] \in Nat /\ ~(refs[X] <= 0)
    BY <1>1, <1>2
  <2> QED BY <1>2, <2>1 DEF UnrefLex, LastReference, Touch, IInv
<1>4. ASSUME NEW x \in Lexes, x = X, refs[X] # 1
      PROVE  IInv'
  <2>1. refs[x] > 1
    BY <1>1, <1>2, <1>4
  <2>2. Go(<<>>)
    BY <1>3, <1>4
  <2> QED BY <1>1, <1>3, <1>4, <2>1, <2>2, MoreKeeps
<1>5. ASSUME NEW x \in Lexes, x = X, refs[x] = 1
      PROVE  IInv'
  <2> DEFINE a == Do("free", x)
             b == Do("popall", x)
  <2>1. /\ a \in Entries /\ a.op = "free" /\ a.x = x
        /\ b \in Entries /\ b.op = "popall" /\ b.x = x
    BY DEF Entries, Ops, Popping, Objects, Do
  <2>2. Go(<<b, a>>)
    BY <1>3, <1>5
  <2> HIDE DEF a, b
  <2>3. Onward /\ Depth' = D + 1 /\ Stack'[D] = a /\ Stack'[D + 1] = b
    BY <1>1, <2>1, <2>2, GoTwo
  <2>4. Stack[D].x = x /\ Stack[D].op = "unlex" /\ D \in 1..D
    BY <1>1, <1>5
  <2>5. /\ refs' \in [Objects -> Nat] /\ x \in Objects
        /\ refs'[x] = 0 /\ \A z \in Objects : z # x => refs'[z] = refs[z]
    BY <1>2, <1>3, <1>5 DEF Objects
  <2>6. x \notin Doomed /\ x \notin mine \cup lost /\ Live(x) /\ Binders(x) = {} /\ x \notin Bound
    BY <1>2, <1>5, OwnershipConstants DEF Bound
  <2> HIDE DEF D
  <2>7. /\ D \in D..Depth' /\ D + 1 \in D..Depth'
        /\ \A k \in D..Depth' : (k = D /\ Stack'[k] = a) \/ (k = D + 1 /\ Stack'[k] = b)
    BY <1>1, <2>3
  <2>8. Typed'
    <3>1. StepOK(a) /\ StepOK(b)
      BY <2>1 DEF StepOK, Popping, Pushing
    <3>2. \A k \in 1..Depth' : StepOK(Stack'[k])
      BY <2>3, <2>7, <3>1, StepsTyped DEF IInv, Typed, D
    <3> QED BY <1>3, <2>3, <2>5, <3>2 DEF IInv, Typed, Onward, StepOK
  <2>9. Closing' = Closing /\ Rebinding' = Rebinding
    BY <2>1, <2>3, <2>4, <2>7, AtKept DEF Closing, Rebinding, D
  <2>10. Doomed' = Doomed \cup {x}
    BY <2>1, <2>3, <2>4, <2>5, <2>7, AtGained DEF Doomed, D
  <2>11. Clearing' = Clearing \cup {x}
    <3>1. Stack'[D + 1].op = "popall" /\ Stack'[D + 1].x = x
          /\ \A k \in D..Depth' : k # D + 1 => Stack'[k].op # "popall"
      BY <2>1, <2>3, <2>7
    <3> QED BY <2>3, <2>4, <2>5, <2>7, <3>1, AtGained DEF Clearing, D
  <2>12. Topping' = Topping
    BY <2>1, <2>3, <2>4, <2>7 DEF Topping, Onward, D
  <2>13. Counted'
    <3>1. ASSUME NEW z, z # x PROVE Givers(z)' = Givers(z)
      BY <2>1, <2>3, <2>4, <2>7, <3>1, GiversKept DEF Gives, D
    <3>2. D \in Givers(x) /\ Givers(x)' = Givers(x) \ {D}
      BY <2>1, <2>3, <2>4, <2>7, GiversLost DEF Gives, D
    <3>3. IsFiniteSet(Givers(x)) =>
            IsFiniteSet(Givers(x)') /\ Has(Givers(x)') = Has(Givers(x)) - 1 /\ Has(Givers(x)) \in Nat
      BY <3>2, Loses
    <3>4. ASSUME NEW u \in Lexes PROVE LexCount(u)'
      <4>1. Binders(u)' = Binders(u)
        BY <1>3, <2>6, <2>9, <2>10 DEF Binders
      <4>2. LexCount(u) /\ Has(Binders(u)) \in Nat /\ Has(Givers(u)) \in Nat
        BY CountedNat DEF IInv, Holding, Counted
      <4>3. CASE u = x
        BY <1>3, <1>5, <2>5, <3>3, <4>1, <4>2, <4>3 DEF LexCount, One, Has
      <4>4. CASE u # x
        BY <1>3, <2>5, <3>1, <4>1, <4>2, <4>4 DEF LexCount, Objects
      <4> QED BY <4>3, <4>4
    <3>5. ASSUME NEW s \in Streams PROVE StreamCount(s)'
      <4>1. Covers(s)' = Covers(s) /\ s # x /\ StreamCount(s)
        BY <1>3, <2>12, CoversKept, OwnershipConstants DEF IInv, Holding, Counted
      <4> QED BY <1>3, <2>5, <3>1, <4>1 DEF StreamCount, Objects
    <3> QED BY <3>4, <3>5 DEF Counted
  <2>14. LiveLexes'
    BY <1>3, <2>5, <2>10 DEF IInv, Holding, LiveLexes, Live, Objects
  <2>15. LiveParts' /\ DoomedHeld'
    <3>1. \A z \in Doomed : z \in Objects /\ z # x
      BY <2>6 DEF Doomed, At
    <3>2. LiveParts'
      <4>1. \A s \in Bound : s # x
        BY <2>6
      <4> QED BY <1>3, <2>9, <2>10, <4>1 DEF IInv, Holding, LiveParts, Live, Typed
    <3>3. DoomedHeld'
      BY <1>3, <2>5, <2>6, <2>10, <2>11, <3>1 DEF IInv, Holding, DoomedHeld, Live
    <3> QED BY <3>2, <3>3
  <2>16. x \notin OStreams /\ \A o \in OStreams : refs'[o] = refs[o]
    BY <2>5, OwnershipConstants DEF Objects
  <2>17. LiveOuts'
    <3>1. \A o : (\E k \in 1..Depth : Stack[k].op = "unostr" /\ Stack[k].x = o) =>
                  \E k \in 1..Depth' : Stack'[k].op = "unostr" /\ Stack'[k].x = o
      BY <1>1, <2>3, <2>4 DEF D, Onward
    <3> QED BY <1>3, <2>10, <2>16, <3>1 DEF IInv, Holding, LiveOuts, Live
  <2>18. OrderFree'
    BY <2>1, <2>3, <2>5, <2>6, <2>7, OrderFreeKept DEF IInv, Typed, Order, D
  <2>19. OrderClose'
    BY <2>1, <2>3, <2>7, OrderCloseKept DEF IInv, Order, D
  <2>20. OrderPop'
    <3>1. \E j \in 1..D : Stack'[j].op = "free" /\ Stack'[j].x = x
      BY <2>1, <2>3, <2>4
    <3>2. \A k \in D..Depth' : Stack'[k].op \in Popping =>
             \E j \in 1..k-1 : Stack'[j].op = "free" /\ Stack'[j].x = Stack'[k].x
      BY <1>1, <2>1, <2>7, <3>1 DEF Popping
    <3>3. \A k \in D..Depth' : Stack'[k].op \notin {"bind", "fill", "undo"}
      BY <2>1, <2>7
    <3> QED BY <1>3, <2>3, <3>2, <3>3, OrderPopKept DEF IInv, Order, D
  <2>21. \A k \in 1..D-1 : Stack[k].op \in Popping => Stack[k].x # x
    <3> SUFFICES ASSUME NEW k \in 1..D-1, Stack[k].op \in Popping, Stack[k].x = x PROVE FALSE
      OBVIOUS
    <3>1. k \in 1..D
      BY <1>1
    <3>2. CASE Steady /\ Usable(x)
      <4>1. Rebinding = {}
        BY <3>2 DEF Steady, Rebinding, At
      <4>2. PICK s \in mine \cap Bound : uls[s] = x
        BY <2>6, <3>2 DEF Usable, UsableBut
      <4>3. s \in Binders(x)
        BY <4>1, <4>2 DEF Binders, IInv, Holding, DoomedHeld
      <4> QED BY <2>6, <4>3
    <3>3. CASE FreedBelow(k)
      BY <1>1, <2>5, <2>6, <3>1, <3>3 DEF FreedBelow, Doomed, At, D
    <3> QED BY <3>1, <3>2, <3>3 DEF IInv, Order, OrderPop, D
  <2>22. \A k \in 1..Depth' : Stack'[k].op \in Popping =>
           \/ k = D + 1 /\ Stack'[k].x = x /\ Stack'[k].op = "popall"
           \/ k \in 1..D-1 /\ Stack'[k] = Stack[k] /\ Stack'[k].x # x
    <3>1. \A k \in 1..Depth' : k \in 1..D-1 \/ k \in D..Depth'
      BY <1>1, <2>3
    <3>2. \A k \in 1..D-1 : Stack'[k] = Stack[k]
      BY <2>3 DEF Onward, D
    <3> QED BY <2>1, <2>7, <2>21, <3>1, <3>2 DEF Popping
  <2>23. OrderOnce' /\ OrderAll'
    BY <1>1, <2>22 DEF IInv, Order, OrderOnce, OrderAll, Popping, D
  <2>24. OrderTop'
    BY <1>1, <1>3, <2>22 DEF IInv, Order, OrderTop, Popping, D
  <2>25. Root'
    BY <1>3, <2>1, <2>3, <2>7, RootKept DEF IInv, Pushing, D
  <2> QED
    BY <1>3, <2>8, <2>13, <2>14, <2>15, <2>17, <2>18, <2>19, <2>20, <2>23, <2>24, <2>25
       DEF IInv, Holding, Order
<1> QED BY <1>1, <1>4, <1>5

(* uls_destroy_istream(): the last reference is given back by a step, so   *)
(* that the stream is not just being pushed or bound; the analyser that it *)
(* was bound to is given back by a step above.                             *)
LEMMA UnrefIstreamKeeps ==
  ASSUME IInv, UnrefIstream
  PROVE  IInv'
<1> DEFINE D == Depth
<1>1. /\ todo \in Seq(Entries) /\ todo # <<>> /\ D \in Nat /\ D >= 1 /\ D \in 1..D
      /\ Stack[D].op = "unistr" /\ X = Stack[D].x /\ X \in Streams /\ X \in Objects
  <2>1. todo \in Seq(Entries) /\ todo # <<>> /\ Head(todo).op = "unistr"
    BY DEF UnrefIstream, Now, IInv, Typed
  <2>2. Stack[D].op = "unistr" /\ X = Stack[D].x /\ D \in Nat /\ D >= 1 /\ D \in 1..D
    BY <2>1, TopStep DEF X
  <2>3. X \in Streams
    BY <2>2 DEF IInv, Typed, StepOK
  <2> QED BY <2>1, <2>2, <2>3 DEF Objects
<1>2. /\ D \in Givers(X) /\ refs[X] > 0 /\ Live(X) /\ X \notin Doomed /\ refs \in [Objects -> Nat]
      /\ refs[X] = 1 => X \notin mine \cup lost /\ Givers(X) = {D}
  <2>1. D \in Givers(X)
    BY <1>1 DEF Givers, Gives
  <2> QED BY <1>1, <2>1, GiverLive DEF IInv, Typed
<1>3. UNCHANGED <<st, uls, ctxs, mine, lost, fds, touched>> /\ refs' = [refs EXCEPT ![X] = @ - 1]
      /\ Go(IF refs[X] = 1
            THEN (IF uls[X] = NONE THEN <<>> ELSE <<Do("unlex", uls[X])>>) \o <<Do("close", X), Do("free", X)>>
            ELSE <<>>)
  <2>1. refs[X] \in Nat /\ ~(refs[X] <= 0)
    BY <1>1, <1>2
  <2> QED BY <1>2, <2>1 DEF UnrefIstream, LastReference, Touch, IInv
<1>4. ASSUME NEW x \in Streams, x = X, refs[X] # 1
      PROVE  IInv'
  <2>1. refs[x] > 1
    BY <1>1, <1>2, <1>4
  <2>2. Go(<<>>)
    BY <1>3, <1>4
  <2> QED BY <1>1, <1>3, <1>4, <2>1, <2>2, MoreKeeps
<1>5. ASSUME NEW x \in Streams, x = X, refs[x] = 1, NEW v \in Lexes \cup {NONE}, v = uls[x]
      PROVE  IInv'
  <2> DEFINE a == Do("free", x)
             b == Do("close", x)
             c == Do("unlex", v)
  <2>1. /\ a \in Entries /\ a.op = "free" /\ a.x = x
        /\ b \in Entries /\ b.op = "close" /\ b.x = x
    BY DEF Entries, Ops, Popping, Objects, Do
  <2>2. v # NONE => c \in Entries /\ c.op = "unlex" /\ c.x = v /\ v \in Lexes
    BY DEF Entries, Ops, Popping, Objects, Do
  <2>3. /\ Onward /\ Depth' \in Nat /\ Stack'[D] = a /\ Stack'[D + 1] = b
        /\ IF v = NONE THEN Depth' = D + 1 ELSE Depth' = D + 2 /\ Stack'[D + 2] = c
    <3>1. CASE v = NONE
      <4>1. Go(<<>> \o <<b, a>>)
        BY <1>3, <1>5, <3>1
      <4>2. Go(<<b, a>>)
        BY <4>1 DEF Go
      <4> HIDE DEF a, b
      <4> QED BY <1>1, <2>1, <3>1, <4>2, GoTwo DEF Onward
    <3>2. CASE v # NONE
      <4>1. Go(<<c>> \o <<b, a>>)
        BY <1>3, <1>5, <3>2
      <4> HIDE DEF a, b, c
      <4>2. Go(<<c, b, a>>)
        BY <2>1, <2>2, <3>2, <4>1, JoinsTwo DEF Go
      <4> QED BY <1>1, <2>1, <2>2, <3>2, <4>2, GoThree DEF Onward
    <3> QED BY <3>1, <3>2
  <2> HIDE DEF a, b, c
  <2>4. Stack[D].x = x /\ Stack[D].op = "unistr" /\ D \in 1..D
    BY <1>1, <1>5
  <2>5. /\ refs' \in [Objects -> Nat] /\ x \in Objects /\ x \in Bound /\ x \notin Lexes /\ x \notin OStreams
        /\ refs'[x] = 0 /\ \A z \in Objects : z # x => refs'[z] = refs[z]
    BY <1>2, <1>3, <1>5, OwnershipConstants DEF Objects, Bound
  <2>6. x \notin Doomed /\ x \notin mine \cup lost /\ Live(x) /\ Givers(x) = {D}
    BY <1>2, <1>5
  <2> HIDE DEF D
  <2>7. /\ D \in D..Depth' /\ D + 1 \in D..Depth' /\ (v # NONE => D + 2 \in D..Depth')
        /\ \A k \in D..Depth' : \/ k = D /\ Stack'[k] = a
                                \/ k = D + 1 /\ Stack'[k] = b
                                \/ k = D + 2 /\ Stack'[k] = c /\ v # NONE
    BY <1>1, <2>3
  <2>8. x \notin Rebinding
    <3>1. ASSUME NEW k \in 1..Depth, Stack[k].op \in Pushing, Stack[k].x = x PROVE FALSE
      <4>1. k = 2 /\ Stack[1].op = "unistr" /\ Stack[1].x = x
        BY <2>6, <3>1 DEF IInv, Root, RootPush
      <4>2. 1 \in Givers(x)
        BY <1>1, <4>1 DEF Givers, Gives, D
      <4> QED BY <2>6, <4>1, <4>2 DEF D
    <3> SUFFICES ASSUME NEW k \in 1..Depth, Stack[k].op = "bind", Stack[k].x = x PROVE FALSE
      BY DEF Rebinding, At
    <3>2. k > 1 /\ Stack[k-1].op = "fill" /\ Stack[k-1].x = x
      BY <2>6 DEF IInv, Root, RootBind
    <3>3. k - 1 \in 1..Depth
      BY <1>1, <3>2 DEF D
    <3> QED BY <3>1, <3>2, <3>3 DEF Pushing
  <2>9. Typed'
    <3>1. StepOK(a) /\ StepOK(b) /\ (v # NONE => StepOK(c))
      BY <2>1, <2>2, <2>5 DEF StepOK, Popping, Pushing
    <3>2. \A k \in 1..Depth' : StepOK(Stack'[k])
      BY <2>3, <2>7, <3>1, StepsTyped DEF IInv, Typed, D
    <3> QED BY <1>3, <2>3, <2>5, <3>2 DEF IInv, Typed, Onward, StepOK
  <2>10. Clearing' = Clearing /\ Rebinding' = Rebinding
    BY <2>1, <2>2, <2>3, <2>4, <2>7, AtKept DEF Clearing, Rebinding, D
  <2>11. Doomed' = Doomed \cup {x}
    <3>1. \A k \in D..Depth' : k # D => Stack'[k].op # "free"
      BY <2>1, <2>2, <2>7
    <3> QED BY <2>1, <2>3, <2>4, <2>5, <2>7, <3>1, AtGained DEF Doomed, D
  <2>12. Closing' = Closing \cup {x}
    <3>1. /\ Stack'[D + 1].op = "close" /\ Stack'[D + 1].x = x
          /\ \A k \in D..Depth' : k # D + 1 => Stack'[k].op # "close"
      BY <2>1, <2>2, <2>3, <2>7
    <3> QED BY <2>3, <2>4, <2>5, <2>7, <3>1, AtGained DEF Closing, D
  <2>13. Topping' = Topping
    BY <2>1, <2>2, <2>3, <2>4, <2>7 DEF Topping, Onward, D
  <2>14. Counted'
    <3>1. ASSUME NEW z, z # x, z # v PROVE Givers(z)' = Givers(z)
      <4>1. ~Gives(Stack[D], z) /\ \A k \in D..Depth' : ~Gives(Stack'[k], z)
        BY <2>1, <2>2, <2>4, <2>7, <3>1 DEF Gives
      <4> QED BY <2>3, <4>1, GiversKept DEF D
    <3>2. Givers(x)' = Givers(x) \ {D}
      <4>1. Gives(Stack[D], x) /\ \A k \in D..Depth' : ~Gives(Stack'[k], x)
        BY <2>1, <2>2, <2>4, <2>5, <2>7 DEF Gives
      <4> QED BY <2>3, <4>1, GiversLost DEF D
    <3>3. ASSUME NEW u \in Lexes, u = v
          PROVE  D + 2 \notin Givers(u) /\ Givers(u)' = Givers(u) \cup {D + 2}
      <4>1. u # x /\ v # NONE
        BY <2>5, <3>3, OwnershipConstants DEF Objects
      <4>2. /\ ~Gives(Stack[D], u) /\ Gives(Stack'[D + 2], u)
            /\ \A k \in D..Depth' : k # D + 2 => ~Gives(Stack'[k], u)
        BY <2>1, <2>2, <2>3, <2>4, <2>7, <3>3, <4>1 DEF Gives
      <4> QED BY <2>3, <2>7, <4>1, <4>2, GiversGained DEF D
    <3>4. ASSUME NEW u \in Lexes, u # v PROVE LexCount(u)'
      <4>1. Binders(u)' = Binders(u)
        BY <1>3, <1>5, <2>10, <2>11, <3>4 DEF Binders
      <4>2. u # x /\ LexCount(u)
        BY <2>5 DEF IInv, Holding, Counted
      <4> QED BY <1>3, <2>5, <3>1, <3>4, <4>1, <4>2 DEF LexCount, Objects
    <3>5. ASSUME NEW u \in Lexes, u = v PROVE LexCount(u)'
      <4>1. x \in Binders(u) /\ Binders(u)' = Binders(u) \ {x}
        BY <1>3, <1>5, <2>5, <2>6, <2>8, <2>10, <2>11, <3>5 DEF Binders
      <4>2. u # x /\ u \in Objects /\ LexCount(u)
        BY <2>5 DEF IInv, Holding, Counted, Objects
      <4>3. IsFiniteSet(Binders(u)') /\ Has(Binders(u)') = Has(Binders(u)) - 1 /\ Has(Binders(u)) \in Nat
        BY <4>1, <4>2, Loses DEF LexCount
      <4>4. IsFiniteSet(Givers(u)') /\ Has(Givers(u)') = Has(Givers(u)) + 1 /\ Has(Givers(u)) \in Nat
        BY <3>3, <3>5, <4>2, Gains DEF LexCount
      <4>5. refs'[u] = refs[u] /\ mine' = mine
        BY <1>3, <2>5, <4>2
      <4> QED BY <4>2, <4>3, <4>4, <4>5 DEF LexCount, One, Has
    <3>6. ASSUME NEW s \in Streams PROVE StreamCount(s)'
      <4>1. Covers(s)' = Covers(s) /\ s # v /\ StreamCount(s) /\ s \in Objects
        BY <1>3, <2>2, <2>13, CoversKept, OwnershipConstants
           DEF IInv, Holding, Counted, Objects
      <4>2. CASE s # x
        BY <1>3, <2>5, <3>1, <4>1, <4>2 DEF StreamCount
      <4>3. CASE s = x
        <5>1. IsFiniteSet(Givers(x)') /\ Has(Givers(x)') = Has(Givers(x)) - 1
              /\ Has(Givers(x)) \in Nat /\ Has(Covers(x)) \in Nat
          BY <2>6, <3>2, <4>1, <4>3, Loses, HasNat DEF StreamCount
        <5> QED BY <1>3, <1>5, <2>5, <4>1, <4>3, <5>1 DEF StreamCount, One, Has
      <4> QED BY <4>2, <4>3
    <3> QED BY <3>4, <3>5, <3>6 DEF Counted
  <2>15. LiveLexes'
    BY <1>3, <2>5, <2>11 DEF IInv, Holding, LiveLexes, Live, Objects
  <2>16. LiveParts'
    BY <1>3, <2>6, <2>11, <2>12 DEF IInv, Holding, LiveParts, Live
  <2>17. DoomedHeld'
    <3>1. \A z \in Doomed : z \in Objects /\ z # x
      BY <2>6 DEF Doomed, At
    <3> QED BY <1>3, <2>5, <2>6, <2>10, <2>11, <3>1 DEF IInv, Holding, DoomedHeld, Live
  <2>18. LiveOuts'
    <3>1. \A o \in OStreams : refs'[o] = refs[o]
      BY <2>5 DEF Objects
    <3> QED BY <1>1, <1>3, <2>3, <2>4, <2>11, <3>1
               DEF IInv, Holding, LiveOuts, Live, D, Onward
  <2>19. OrderFree'
    BY <2>1, <2>2, <2>3, <2>5, <2>6, <2>7, OrderFreeKept DEF IInv, Typed, Order, D
  <2>20. OrderClose'
    <3>1. \A k \in D..Depth' : Stack'[k].op = "close" => k = D + 1 /\ Stack'[k].x = x
      BY <2>1, <2>2, <2>7
    <3>2. D \in 1..(D + 1)-1 /\ Stack'[D].op = "free" /\ Stack'[D].x = x
      BY <1>1, <2>1, <2>3
    <3> QED BY <2>3, <3>1, <3>2, OrderCloseKept DEF IInv, Order, D
  <2>21. OrderPop'
    BY <1>3, <2>1, <2>2, <2>3, <2>7, OrderPopKept DEF IInv, Order, Popping, D
  <2>22. \A k \in 1..Depth' : Stack'[k].op \in Popping => k \in 1..D /\ Stack'[k] = Stack[k]
    BY <1>1, <2>1, <2>2, <2>3, <2>7 DEF Onward, Popping, D
  <2>23. OrderOnce' /\ OrderAll'
    BY <2>22 DEF IInv, Order, OrderOnce, OrderAll, Popping, D
  <2>24. OrderTop'
    BY <1>3, <2>1, <2>2, <2>3, <2>7, OrderTopKept DEF IInv, Order, D
  <2>25. Root'
    BY <1>3, <2>1, <2>2, <2>3, <2>7, RootKept DEF IInv, Pushing, D
  <2> QED
    BY <1>3, <2>9, <2>14, <2>15, <2>16, <2>17, <2>18, <2>19, <2>20, <2>21, <2>23, <2>24, <2>25
       DEF IInv, Holding, Order
<1>6. uls[X] \in Lexes \cup {NONE}
  BY <1>1 DEF IInv, Typed, Bound
<1> QED BY <1>1, <1>4, <1>5, <1>6

(* uls_destroy_ostream(), the whole call: it is destroyed, or its last     *)
(* print fails and it is left over.                                        *)
LEMMA UnrefOstreamKeeps ==
  ASSUME IInv, UnrefOstream
  PROVE  IInv'
<1> DEFINE D == Depth
<1>1. /\ todo \in Seq(Entries) /\ todo # <<>> /\ D \in Nat /\ D >= 1 /\ D \in 1..D
      /\ Stack[D].op = "unostr" /\ X = Stack[D].x /\ X \in OStreams /\ X \in Objects
  <2>1. todo \in Seq(Entries) /\ todo # <<>> /\ Stack[D].op = "unostr" /\ X = Stack[D].x /\ D \in Nat /\ D >= 1
    BY TopStep DEF UnrefOstream, Now, X, IInv, Typed
  <2>2. StepOK(Stack[D])
    BY <2>1 DEF IInv, Typed
  <2> QED BY <2>1, <2>2 DEF StepOK, Objects
<1>2. D = 1 /\ Live(X) /\ refs[X] = 1 /\ X \notin mine \cup lost
  BY <1>1 DEF IInv, Root, RootOut
<1>3. UNCHANGED <<st, uls, ctxs, mine, fds, touched>> /\ refs' = [refs EXCEPT ![X] = @ - 1]
      /\ \/ Go(<<Do("close", X), Do("unlex", uls[X]), Do("free", X)>>) /\ UNCHANGED lost
         \/ Go(<<>>) /\ lost' = lost \cup {X}
  <2>1. ~(refs[X] <= 0)
    BY <1>2
  <2> QED BY <1>2, <2>1 DEF UnrefOstream, LastReference, Touch, IInv
<1> SUFFICES ASSUME NEW x \in OStreams, x = X, NEW v \in Lexes, v = uls[x]
             PROVE  IInv'
  BY <1>1, <1>2 DEF IInv, Holding, LiveOuts
<1>4. /\ refs \in [Objects -> Nat] /\ refs' \in [Objects -> Nat] /\ x \in Objects /\ x \in Bound
      /\ x \notin Lexes /\ x \notin Streams
      /\ refs'[x] = 0 /\ \A z \in Objects : z # x => refs'[z] = refs[z]
  <2>1. refs \in [Objects -> Nat] /\ refs[x] = 1
    BY <1>2 DEF IInv, Typed
  <2> QED BY <1>3, <2>1, OwnershipConstants DEF Objects, Bound
<1>5. Stack[1].op = "unostr" /\ Stack[1].x = x /\ \A k \in 1..Depth : k = 1
  BY <1>1, <1>2
<1>6. Doomed = {} /\ Rebinding = {} /\ Closing = {} /\ Topping = {} /\ \A z : Givers(z) = {}
  BY <1>5 DEF Doomed, Rebinding, Closing, Topping, At, Givers, Gives
<1>7. \A o \in OStreams : o # x => refs'[o] = refs[o]
  BY <1>4 DEF Objects
<1>8. CASE Go(<<Do("close", X), Do("unlex", uls[X]), Do("free", X)>>) /\ UNCHANGED lost
  <2> DEFINE a == Do("free", x)
             b == Do("unlex", v)
             c == Do("close", x)
  <2>1. /\ a \in Entries /\ a.op = "free" /\ a.x = x
        /\ b \in Entries /\ b.op = "unlex" /\ b.x = v
        /\ c \in Entries /\ c.op = "close" /\ c.x = x
    BY DEF Entries, Ops, Popping, Objects, Do
  <2>2. Go(<<c, b, a>>)
    BY <1>8
  <2> HIDE DEF a, b, c
  <2>3. /\ Onward /\ Depth' = D + 2 /\ Stack'[D] = a /\ Stack'[D + 1] = b /\ Stack'[D + 2] = c
    BY <1>1, <2>1, <2>2, GoThree
  <2>4. /\ todo' \in Seq(Entries) /\ Depth' = 3 /\ Stack'[1] = a /\ Stack'[2] = b /\ Stack'[3] = c
        /\ \A k \in 1..Depth' : k = 1 \/ k = 2 \/ k = 3
    BY <1>2, <2>3 DEF Onward
  <2> HIDE DEF D
  <2>5. Doomed' = {x} /\ Rebinding' = {} /\ Closing' = {x} /\ Topping' = {}
    BY <1>4, <2>1, <2>4 DEF Doomed, Rebinding, Closing, Topping, At
  <2>6. \A z : (z # v => Givers(z)' = {}) /\ (z = v => Givers(z)' = {2})
    BY <2>1, <2>4 DEF Givers, Gives
  <2>7. Typed'
    BY <1>3, <1>4, <1>8, <2>1, <2>4 DEF IInv, Typed, StepOK, Popping, Pushing
  <2>8. Counted'
    <3>1. ASSUME NEW u \in Lexes, u # v PROVE LexCount(u)'
      <4>1. Binders(u)' = Binders(u)
        BY <1>3, <1>6, <2>5, <3>1 DEF Binders
      <4>2. LexCount(u) /\ u \in Objects /\ u # x
        BY <1>4 DEF IInv, Holding, Counted, Objects
      <4> QED BY <1>3, <1>4, <1>6, <2>6, <3>1, <4>1, <4>2 DEF LexCount
    <3>2. ASSUME NEW u \in Lexes, u = v PROVE LexCount(u)'
      <4>1. x \in Binders(u) /\ Binders(u)' = Binders(u) \ {x}
        BY <1>3, <1>4, <1>6, <2>5, <3>2 DEF Binders
      <4>2. LexCount(u) /\ refs'[u] = refs[u] /\ mine' = mine
        BY <1>3, <1>4 DEF IInv, Holding, Counted, Objects
      <4>3. IsFiniteSet(Binders(u)') /\ Has(Binders(u)') = Has(Binders(u)) - 1 /\ Has(Binders(u)) \in Nat
        BY <4>1, <4>2, Loses DEF LexCount
      <4>4. IsFiniteSet(Givers(u)') /\ Has(Givers(u)') = 1 /\ Has(Givers(u)) = 0
        BY <1>6, <2>6, <3>2, FS_Singleton, FS_EmptySet DEF Has
      <4> QED BY <4>2, <4>3, <4>4 DEF LexCount, One, Has
    <3>3. ASSUME NEW s \in Streams PROVE StreamCount(s)'
      <4>1. Covers(s)' = Covers(s) /\ StreamCount(s) /\ s \in Objects /\ s # x /\ s # v
        BY <1>3, <1>4, <1>6, <2>5, CoversKept, OwnershipConstants
           DEF IInv, Holding, Counted, Objects
      <4>2. Givers(s)' = Givers(s)
        BY <1>6, <2>6, <4>1
      <4> QED BY <1>3, <1>4, <1>8, <4>1, <4>2 DEF StreamCount
    <3> QED BY <3>1, <3>2, <3>3 DEF Counted
  <2>9. LiveLexes'
    BY <1>3, <1>4, <1>6, <2>5 DEF IInv, Holding, LiveLexes, Live, Objects
  <2>10. LiveParts' /\ DoomedHeld'
    BY <1>2, <1>3, <1>4, <1>6, <1>8, <2>5 DEF IInv, Holding, LiveParts, DoomedHeld, Live
  <2>11. LiveOuts'
    BY <1>2, <1>3, <1>5, <1>6, <1>7, <1>8, <2>5 DEF IInv, Holding, LiveOuts, Live
  <2>12. Order'
    <3>1. OrderFree' /\ OrderPop' /\ OrderOnce' /\ OrderAll' /\ OrderTop'
      BY <2>1, <2>4 DEF OrderFree, OrderPop, OrderOnce, OrderAll, OrderTop, Popping
    <3>2. OrderClose'
      <4>1. 1 \in 1..3-1
        OBVIOUS
      <4> QED BY <2>1, <2>4, <4>1 DEF OrderClose, FreedBelow
    <3> QED BY <3>1, <3>2 DEF Order
  <2>13. Root'
    BY <2>1, <2>4 DEF Root, RootPush, RootOut, RootBind, Pushing
  <2> QED BY <1>3, <2>7, <2>8, <2>9, <2>10, <2>11, <2>12, <2>13 DEF IInv, Holding
<1>9. CASE Go(<<>>) /\ lost' = lost \cup {X}
  <2>1. Onward /\ Depth' = Depth - 1
    BY <1>1, <1>9, GoNone
  <2>2. todo' \in Seq(Entries) /\ Depth' = 0 /\ \A k \in 1..Depth' : FALSE
    BY <1>2, <2>1 DEF Onward
  <2> HIDE DEF D
  <2>3. Doomed' = {} /\ Rebinding' = {} /\ Closing' = {} /\ Topping' = {} /\ \A z : Givers(z)' = {}
    BY <2>2 DEF Doomed, Rebinding, Closing, Topping, At, Givers
  <2>4. lost' = lost \cup {x}
    BY <1>9
  <2>5. Typed'
    BY <1>3, <1>4, <2>2, <2>4 DEF IInv, Typed
  <2>6. Counted'
    <3>1. ASSUME NEW u \in Lexes PROVE LexCount(u)'
      <4>1. Binders(u)' = Binders(u) /\ LexCount(u) /\ u \in Objects /\ u # x
        BY <1>3, <1>4, <1>6, <2>3, BindersKept DEF IInv, Holding, Counted, Objects
      <4> QED BY <1>3, <1>4, <1>6, <2>3, <4>1 DEF LexCount
    <3>2. ASSUME NEW s \in Streams PROVE StreamCount(s)'
      <4>1. Covers(s)' = Covers(s) /\ StreamCount(s) /\ s \in Objects /\ s # x
        BY <1>3, <1>4, <1>6, <2>3, CoversKept DEF IInv, Holding, Counted, Objects
      <4>2. refs'[s] = refs[s] /\ Givers(s)' = Givers(s) /\ mine' = mine
        BY <1>3, <1>4, <1>6, <2>3, <4>1
      <4> QED BY <2>4, <4>1, <4>2 DEF StreamCount, One
    <3> QED BY <3>1, <3>2 DEF Counted
  <2>7. LiveLexes'
    BY <1>3, <1>4, <1>6, <2>3 DEF IInv, Holding, LiveLexes, Live, Objects
  <2>8. LiveParts' /\ DoomedHeld'
    BY <1>2, <1>3, <1>6, <2>3, <2>4 DEF IInv, Holding, LiveParts, DoomedHeld, Live
  <2>9. LiveOuts'
    BY <1>2, <1>3, <1>5, <1>6, <1>7, <2>3, <2>4 DEF IInv, Holding, LiveOuts, Live
  <2>10. Order' /\ Root'
    BY <2>2 DEF Order, OrderFree, OrderClose, OrderPop, OrderOnce, OrderAll, OrderTop,
                Root, RootPush, RootOut, RootBind
  <2> QED BY <1>3, <2>5, <2>6, <2>7, <2>8, <2>9, <2>10 DEF IInv, Holding
<1> QED BY <1>3, <1>8, <1>9

(* The descriptor of a stream that is about to be freed is closed.         *)
LEMMA CloseKeeps ==
  ASSUME IInv, Close
  PROVE  IInv'
<1> DEFINE D == Depth
<1>1. /\ todo \in Seq(Entries) /\ todo # <<>> /\ D \in Nat /\ D >= 1 /\ D \in 1..D
      /\ Stack[D].op = "close" /\ X = Stack[D].x
  BY TopStep DEF Close, Now, X, IInv, Typed
<1>2. Live(X)
  <2>1. PICK j \in 1..D-1 : Stack[j].op = "free" /\ Stack[j].x = X
    BY <1>1 DEF IInv, Order, OrderClose, FreedBelow
  <2>2. X \in Objects /\ j \in 1..D
    BY <1>1 DEF IInv, Typed, StepOK, Bound, Objects
  <2>3. X \in Doomed
    BY <2>1, <2>2 DEF Doomed, At
  <2> QED BY <2>3 DEF IInv, Holding, DoomedHeld
<1>3. UNCHANGED <<st, refs, uls, ctxs, mine, lost, touched>> /\ fds' = fds \ {X} /\ Go(<<>>)
  BY <1>2 DEF Close, Touch, IInv
<1>4. Onward /\ Depth' = D - 1 /\ \A k \in D..Depth' : FALSE
  <2>1. Onward /\ Depth' = Depth - 1
    BY <1>1, <1>3, GoNone
  <2> QED BY <2>1 DEF Onward
<1> HIDE DEF D
<1>5. Doomed' = Doomed /\ Rebinding' = Rebinding /\ Clearing' = Clearing
  BY <1>1, <1>4, AtKept DEF Doomed, Rebinding, Clearing, D
<1>6. Topping' = Topping /\ \A s \in Closing : s \in Closing' \/ s = X
  <2>1. Topping' = Topping
    BY <1>1, <1>4 DEF Topping, Onward, D
  <2>2. \A s \in Closing : s \in Closing' \/ s = X
    BY <1>1, <1>4 DEF Closing, At, Onward, D
  <2> QED BY <2>1, <2>2
<1>7. \A z : Givers(z)' = Givers(z)
  BY <1>1, <1>4, GiversKept DEF Gives, D
<1>8. Typed'
  <2>1. \A k \in 1..Depth' : StepOK(Stack'[k])
    BY <1>4, StepsTyped DEF IInv, Typed, D
  <2> QED BY <1>3, <1>4, <2>1 DEF IInv, Typed, Onward, StepOK
<1>9. Counted'
  BY <1>3, <1>5, <1>6, <1>7, BindersKept, CoversKept
     DEF IInv, Holding, Counted, LexCount, StreamCount
<1>10. LiveLexes' /\ DoomedHeld'
  BY <1>3, <1>5 DEF IInv, Holding, LiveLexes, DoomedHeld, Live
<1>11. LiveParts'
  BY <1>3, <1>5, <1>6 DEF IInv, Holding, LiveParts, Live
<1>12. LiveOuts'
  BY <1>1, <1>3, <1>4, <1>5 DEF IInv, Holding, LiveOuts, Live, D, Onward
<1>13. OrderFree' /\ OrderClose' /\ OrderPop' /\ OrderTop'
  BY <1>3, <1>4, OrderFreeKept, OrderCloseKept, OrderPopKept, OrderTopKept
     DEF IInv, Typed, Order, D
<1>14. OrderOnce' /\ OrderAll'
  <2>1. \A k \in 1..Depth' : k \in 1..Depth /\ Stack'[k] = Stack[k]
    BY <1>4 DEF Onward, D
  <2> QED BY <2>1 DEF IInv, Order, OrderOnce, OrderAll
<1>15. Root'
  BY <1>3, <1>4, RootKept DEF IInv, D
<1> QED
  BY <1>3, <1>8, <1>9, <1>10, <1>11, <1>12, <1>13, <1>14, <1>15 DEF IInv, Holding, Order

(* What is freed is not known to any step below, nor to the caller.        *)
LEMMA FreeKeeps ==
  ASSUME IInv, Free
  PROVE  IInv'
<1> DEFINE D == Depth
<1>1. /\ todo \in Seq(Entries) /\ todo # <<>> /\ D \in Nat /\ D >= 1 /\ D \in 1..D
      /\ Stack[D].op = "free" /\ X = Stack[D].x /\ X \in Objects
  BY TopStep DEF Free, Now, X, IInv, Typed, Entries
<1>2. X \in Doomed
  BY <1>1 DEF Doomed, At
<1>3. UNCHANGED <<refs, ctxs, mine, lost, fds, touched>> /\ st' = [st EXCEPT ![X] = "freed"]
      /\ uls' = [s \in Bound |-> IF s = X THEN NONE ELSE uls[s]] /\ Go(<<>>)
  BY <1>2 DEF Free, Touch, IInv, Holding, DoomedHeld
<1>4. Onward /\ Depth' = D - 1 /\ \A k \in D..Depth' : FALSE
  <2>1. Onward /\ Depth' = Depth - 1
    BY <1>1, <1>3, GoNone
  <2> QED BY <2>1 DEF Onward
<1> SUFFICES ASSUME NEW x \in Objects, x = X PROVE IInv'
  BY <1>1
<1>5. /\ st' \in [Objects -> {"none", "live", "freed"}] /\ st'[x] = "freed"
      /\ \A z \in Objects : z # x => (st'[z] = "live" <=> Live(z))
      /\ uls' \in [Bound -> Lexes \cup {NONE}]
      /\ \A s \in Bound : uls'[s] = IF s = x THEN NONE ELSE uls[s]
  BY <1>3 DEF IInv, Typed, Live
<1>6. /\ Stack[D].op = "free" /\ Stack[D].x = x /\ D \in 1..D /\ D \in Nat
      /\ \A k \in 1..D : Stack[k].op = "free" /\ Stack[k].x = x => k = D
  BY <1>1 DEF IInv, Order, OrderFree
<1>7. Live(x) /\ x \notin mine \cup lost /\ (x \in Lexes \cup Streams => refs[x] = 0)
  BY <1>2, OwnershipConstants DEF IInv, Holding, DoomedHeld
<1> HIDE DEF D
<1>8. \A k \in 1..D : Stack[k].x = x => ~FreedBelow(k)
  BY <1>6 DEF FreedBelow, D
<1>9. x \notin fds
  <2>1. x \notin Closing
    BY <1>6, <1>8 DEF Closing, At, IInv, Order, OrderClose, D
  <2> QED BY <1>2, <2>1 DEF IInv, Holding, LiveParts
<1>10. x \in Lexes => ctxs[x] = <<>>
  <2> SUFFICES ASSUME x \in Lexes, ctxs[x] # <<>> PROVE FALSE
    OBVIOUS
  <2>1. x \in Clearing
    BY <1>2 DEF IInv, Holding, DoomedHeld
  <2>2. PICK k \in 1..Depth : Stack[k].op = "popall" /\ Stack[k].x = x
    BY <2>1 DEF Clearing, At
  <2> QED BY <1>2, <1>8, <2>2, PopLive DEF Popping, D
<1>11. Closing' = Closing /\ Rebinding' = Rebinding /\ Clearing' = Clearing
  BY <1>4, <1>6, AtKept DEF Closing, Rebinding, Clearing, D
<1>12. Doomed' = Doomed \ {x} /\ Topping' = Topping
  <2>1. Topping' = Topping
    BY <1>4, <1>6 DEF Topping, Onward, D
  <2>2. x \notin Doomed'
    BY <1>4, <1>6 DEF Doomed, At, Onward, D
  <2>3. \A z \in Doomed : z # x => z \in Doomed'
    BY <1>4, <1>6 DEF Doomed, At, Onward, D
  <2>4. \A z \in Doomed' : z \in Doomed
    BY <1>4, <1>6 DEF Doomed, At, Onward, D
  <2> QED BY <2>1, <2>2, <2>3, <2>4
<1>13. \A z : Givers(z)' = Givers(z)
  BY <1>4, <1>6, GiversKept DEF Gives, D
<1>14. Typed'
  <2>1. \A k \in 1..Depth' : StepOK(Stack'[k])
    BY <1>4, StepsTyped DEF IInv, Typed, D
  <2> QED BY <1>3, <1>4, <1>5, <2>1 DEF IInv, Typed, Onward, StepOK
<1>15. Counted'
  <2>1. ASSUME NEW u \in Lexes PROVE Binders(u)' = Binders(u)
    <3>1. u # NONE /\ x \in Doomed
      BY <1>2, OwnershipConstants DEF Objects
    <3> QED BY <1>5, <1>11, <1>12, <3>1 DEF Binders
  <2> QED BY <1>3, <1>11, <1>12, <1>13, <2>1, CoversKept
          DEF IInv, Holding, Counted, LexCount, StreamCount
<1>16. LiveLexes'
  BY <1>3, <1>5, <1>7, <1>12 DEF IInv, Holding, LiveLexes, Live, Objects
<1>17. LiveParts'
  <2>1. \A s \in Bound : s \in Objects
    BY DEF Bound, Objects
  <2>2. \A s \in Bound : uls'[s] # NONE => st'[s] = "live"
    BY <1>5, <2>1 DEF IInv, Holding, LiveParts
  <2>3. \A u \in Lexes : st'[u] # "live" => ctxs'[u] = <<>>
    BY <1>3, <1>5, <1>10 DEF IInv, Holding, LiveParts, Objects
  <2>4. \A s \in fds : st'[s] = "live" /\ (s \in Doomed' => s \in Closing')
    BY <1>5, <1>9, <1>11, <1>12, <2>1 DEF IInv, Holding, LiveParts, Typed
  <2> QED BY <1>3, <2>2, <2>3, <2>4 DEF IInv, Holding, LiveParts, Live
<1>18. DoomedHeld'
  BY <1>3, <1>5, <1>11, <1>12 DEF IInv, Holding, DoomedHeld, Live, Doomed, At
<1>19. LiveOuts'
  <2> SUFFICES ASSUME NEW o \in OStreams
               PROVE  /\ o \in mine' => st'[o] = "live" /\ refs'[o] = 1
                      /\ o \in lost' => st'[o] = "live"
                      /\ st'[o] = "live" =>
                           /\ uls'[o] \in Lexes
                           /\ \/ o \in mine' \cup lost' \cup Doomed'
                              \/ \E k \in 1..Depth' : Stack'[k].op = "unostr" /\ Stack'[k].x = o
    BY DEF LiveOuts, Live
  <2>1. o \in Bound /\ o \in Objects
    BY DEF Bound, Objects
  <2>2. CASE o = x
    BY <1>3, <1>5, <1>7, <2>2
  <2>3. CASE o # x
    <3>1. (\E k \in 1..Depth : Stack[k].op = "unostr" /\ Stack[k].x = o) =>
           \E k \in 1..Depth' : Stack'[k].op = "unostr" /\ Stack'[k].x = o
      BY <1>4, <1>6 DEF Onward, D
    <3> QED BY <1>3, <1>5, <1>12, <2>1, <2>3, <3>1 DEF IInv, Holding, LiveOuts
  <2> QED BY <2>2, <2>3
<1>20. \A s \in mine \cap Bound : uls'[s] = uls[s]
  BY <1>5, <1>7
<1>21. OrderFree' /\ OrderClose' /\ OrderPop' /\ OrderTop'
  BY <1>3, <1>4, <1>20, OrderFreeKept, OrderCloseKept, OrderPopKept, OrderTopKept
     DEF IInv, Typed, Order, D
<1>22. OrderOnce' /\ OrderAll'
  <2>1. \A k \in 1..Depth' : k \in 1..Depth /\ Stack'[k] = Stack[k]
    BY <1>4 DEF Onward, D
  <2> QED BY <2>1 DEF IInv, Order, OrderOnce, OrderAll
<1>23. Root'
  BY <1>3, <1>4, <1>20, RootKept DEF IInv, D
<1> QED
  BY <1>3, <1>14, <1>15, <1>16, <1>17, <1>18, <1>19, <1>21, <1>22, <1>23
     DEF IInv, Holding, Order

(* uls_bind_istream(): the reference of the call becomes the stream's.     *)
LEMMA BindKeeps ==
  ASSUME IInv, Bind
  PROVE  IInv'
<1> DEFINE D == Depth
<1>1. /\ todo \in Seq(Entries) /\ todo # <<>> /\ D \in Nat /\ D >= 1 /\ D \in 1..D
      /\ Stack[D].op = "bind" /\ X = Stack[D].x /\ Y = Stack[D].y
  BY TopStep DEF Bind, Now, X, Y, IInv, Typed
<1>2. X \in Streams /\ Y \in Lexes \cup {NONE}
  BY <1>1 DEF IInv, Typed, StepOK
<1>3. \/ D = 1 /\ X \in mine
      \/ D > 1 /\ Stack[D-1].op = "fill" /\ Stack[D-1].x = X /\ Stack[D-1].y = Y
  BY <1>1 DEF IInv, Root, RootBind
<1>4. /\ \A j \in 1..D : Stack[j].op = "bind" => j = D
      /\ \A j \in 1..D : Stack[j].op \in Pushing => j = D - 1
  BY <1>1, BindAlone DEF IInv
<1>5. Live(X) /\ X \notin Doomed
  <2>1. CASE X \in mine
    BY <1>2, <2>1, MineLive
  <2>2. CASE D > 1 /\ Stack[D-1].op = "fill" /\ Stack[D-1].x = X
    <3>1. D - 1 \in 1..Depth
      BY <1>1, <2>2
    <3> QED BY <2>2, <3>1, PushLive DEF Pushing
  <2> QED BY <1>3, <2>1, <2>2
<1>6. Y # NONE => Live(Y)
  <2>1. D \in Givers(Y)
    BY <1>1 DEF Givers, Gives
  <2> QED BY <1>2, <2>1, GiverLive
<1>7. UNCHANGED <<st, refs, ctxs, mine, lost, fds, touched>> /\ uls' = [uls EXCEPT ![X] = Y] /\ Go(<<>>)
  BY <1>5, <1>6 DEF Bind, Touch, IInv
<1>8. Onward /\ Depth' = D - 1 /\ \A k \in D..Depth' : FALSE
  <2>1. Onward /\ Depth' = Depth - 1
    BY <1>1, <1>7, GoNone
  <2> QED BY <2>1 DEF Onward
<1> SUFFICES ASSUME NEW x \in Streams, x = X, NEW y \in Lexes \cup {NONE}, y = Y PROVE IInv'
  BY <1>2
<1>9. /\ uls' \in [Bound -> Lexes \cup {NONE}]
      /\ \A s \in Bound : uls'[s] = IF s = x THEN y ELSE uls[s]
  BY <1>7 DEF IInv, Typed, Bound
<1>10. Stack[D].op = "bind" /\ Stack[D].x = x /\ Stack[D].y = y /\ D \in 1..D
  BY <1>1
<1>11. x \in Bound /\ x \in Objects /\ x \notin Lexes /\ x \notin OStreams /\ Live(x) /\ x \notin Doomed
  BY <1>5, OwnershipConstants DEF Bound, Objects
<1> HIDE DEF D
<1>12. Rebinding = {x} /\ Rebinding' = {}
  BY <1>4, <1>8, <1>10, <1>11 DEF Rebinding, At, Onward, D
<1>13. Doomed' = Doomed /\ Closing' = Closing /\ Clearing' = Clearing /\ Topping' = Topping
  <2>1. Doomed' = Doomed /\ Closing' = Closing /\ Clearing' = Clearing
    BY <1>8, <1>10, AtKept DEF Doomed, Closing, Clearing, D
  <2>2. Topping' = Topping
    BY <1>8, <1>10 DEF Topping, Onward, D
  <2> QED BY <2>1, <2>2
<1>14. Typed'
  <2>1. \A k \in 1..Depth' : StepOK(Stack'[k])
    BY <1>8, StepsTyped DEF IInv, Typed, D
  <2> QED BY <1>7, <1>8, <1>9, <2>1 DEF IInv, Typed, Onward, StepOK
<1>15. Counted'
  <2>1. ASSUME NEW z, z # y PROVE Givers(z)' = Givers(z)
    <3>1. ~Gives(Stack[D], z)
      BY <1>10, <2>1 DEF Gives
    <3> QED BY <1>8, <3>1, GiversKept DEF D
  <2>2. ASSUME NEW z, z = y PROVE D \in Givers(z) /\ Givers(z)' = Givers(z) \ {D}
    <3>1. Gives(Stack[D], z)
      BY <1>10, <2>2 DEF Gives
    <3> QED BY <1>8, <3>1, GiversLost DEF D
  <2>3. ASSUME NEW u \in Lexes, u # y PROVE LexCount(u)'
    <3>1. Binders(u)' = Binders(u)
      BY <1>9, <1>12, <1>13, <2>3 DEF Binders
    <3> QED BY <1>7, <2>1, <2>3, <3>1 DEF IInv, Holding, Counted, LexCount
  <2>4. ASSUME NEW u \in Lexes, u = y PROVE LexCount(u)'
    <3>1. x \notin Binders(u) /\ Binders(u)' = Binders(u) \cup {x}
      BY <1>9, <1>11, <1>12, <1>13, <2>4 DEF Binders
    <3>2. LexCount(u)
      BY DEF IInv, Holding, Counted
    <3>3. IsFiniteSet(Binders(u)') /\ Has(Binders(u)') = Has(Binders(u)) + 1 /\ Has(Binders(u)) \in Nat
      BY <3>1, <3>2, Gains DEF LexCount
    <3>4. IsFiniteSet(Givers(u)') /\ Has(Givers(u)') = Has(Givers(u)) - 1 /\ Has(Givers(u)) \in Nat
      <4>1. D \in Givers(u) /\ Givers(u)' = Givers(u) \ {D}
        BY <2>2, <2>4
      <4>2. IsFiniteSet(Givers(u))
        BY <3>2 DEF LexCount
      <4> QED BY <4>1, <4>2, Loses
    <3>5. refs'[u] = refs[u] /\ mine' = mine
      BY <1>7
    <3> QED BY <3>2, <3>3, <3>4, <3>5 DEF LexCount, One, Has
  <2>5. ASSUME NEW s \in Streams PROVE StreamCount(s)'
    <3>1. s # y
      BY OwnershipConstants DEF Objects
    <3> QED BY <1>7, <1>13, <2>1, <3>1, CoversKept
               DEF IInv, Holding, Counted, StreamCount
  <2> QED BY <2>3, <2>4, <2>5 DEF Counted
<1>16. LiveLexes' /\ DoomedHeld'
  BY <1>7, <1>13 DEF IInv, Holding, LiveLexes, DoomedHeld, Live
<1>17. LiveParts'
  BY <1>7, <1>9, <1>11, <1>13 DEF IInv, Holding, LiveParts, Live
<1>18. LiveOuts'
  <2>1. \A o \in OStreams : o \in Bound /\ uls'[o] = uls[o]
    BY <1>9, <1>11 DEF Bound
  <2>2. ASSUME NEW o, \E k \in 1..Depth : Stack[k].op = "unostr" /\ Stack[k].x = o
        PROVE  \E k \in 1..Depth' : Stack'[k].op = "unostr" /\ Stack'[k].x = o
    BY <1>8, <1>10, <2>2 DEF Onward, D
  <2> QED BY <1>7, <1>13, <2>1, <2>2 DEF IInv, Holding, LiveOuts, Live
<1>19. OrderFree' /\ OrderClose' /\ OrderTop'
  BY <1>7, <1>8, OrderFreeKept, OrderCloseKept, OrderTopKept DEF IInv, Typed, Order, D
<1>20. \A k \in 1..Depth' : k \in 1..Depth /\ Stack'[k] = Stack[k]
  BY <1>8 DEF Onward, D
<1>21. OrderOnce' /\ OrderAll'
  BY <1>20 DEF IInv, Order, OrderOnce, OrderAll
<1>22. OrderPop'
  <2> SUFFICES ASSUME NEW k \in 1..Depth', Stack'[k].op \in Popping
               PROVE  \E j \in 1..k-1 : Stack'[j].op = "free" /\ Stack'[j].x = Stack'[k].x
    BY DEF OrderPop, FreedBelow
  <2>1. ~Steady
    BY <1>10 DEF Steady, D
  <2>2. k \in 1..Depth /\ FreedBelow(k) /\ Stack'[k] = Stack[k]
    BY <1>20, <2>1 DEF IInv, Order, OrderPop
  <2> QED BY <1>8, <2>2, FreedBelowKept
<1>23. Root'
  <2>1. RootPush'
    <3> SUFFICES ASSUME NEW k \in 1..Depth', Stack'[k].op \in Pushing
                 PROVE  /\ UsableBut(Stack[k].y, {Stack[k].x})'
                        /\ \/ k = 1 /\ Stack'[k].x \in mine
                           \/ /\ k = 2 /\ Stack'[1].op = "unistr" /\ Stack'[1].x = Stack'[k].x
                              /\ Stack'[k].x \notin mine \cup lost
                        /\ Stack'[k].op # "push" =>
                             ctxs[Stack'[k].y] # <<>> /\ Head(ctxs[Stack'[k].y]) = Stack'[k].x
      BY <1>7 DEF RootPush
    <3>1. k \in 1..Depth /\ Stack'[k] = Stack[k] /\ k = D - 1 /\ (k = 2 => Stack'[1] = Stack[1])
      BY <1>4, <1>8, <1>20 DEF Onward, D
    <3>2. Stack[k].x = x /\ Stack[k].y = y
      BY <1>3, <1>10, <3>1
    <3>3. UsableBut(Stack[k].y, {Stack[k].x})
      BY <3>1 DEF IInv, Root, RootPush
    <3>4. UsableBut(Stack[k].y, {Stack[k].x})'
      BY <1>7, <1>9, <3>1, <3>2, <3>3 DEF UsableBut
    <3> QED BY <3>1, <3>4 DEF IInv, Root, RootPush
  <2>2. RootOut'
    <3>1. \A k \in 1..Depth : Stack[k].op # "unostr"
      BY <1>1, <1>10 DEF IInv, Root, RootOut, D
    <3> QED BY <1>20, <3>1 DEF RootOut
  <2>3. RootBind'
    <3>1. \A k \in 1..Depth' : Stack'[k].op # "bind"
      BY <1>1, <1>4, <1>8 DEF Onward, D
    <3> QED BY <3>1 DEF RootBind
  <2> QED BY <2>1, <2>2, <2>3 DEF Root
<1> QED
  BY <1>7, <1>14, <1>15, <1>16, <1>17, <1>18, <1>19, <1>21, <1>22, <1>23
     DEF IInv, Holding, Order
-----------------------------------------------------------------------------
(* Where a stream is being pushed, it is the caller's, or the call opened  *)
(* it and will give it back; nothing else waits.                           *)
LEMMA PushAtTop ==
  ASSUME IInv, NEW x, NEW y, Depth \in 1..Depth, Stack[Depth].op \in Pushing,
         Stack[Depth].x = x, Stack[Depth].y = y
  PROVE  /\ x \in Streams /\ y \in Lexes /\ Live(x) /\ Live(y) /\ refs[x] > 0 /\ refs[y] > 0
         /\ UsableBut(y, {x})
         /\ \/ Depth = 1 /\ x \in mine
            \/ Depth = 2 /\ Stack[1].op = "unistr" /\ Stack[1].x = x /\ x \notin mine \cup lost
         /\ Stack[Depth].op # "push" => ctxs[y] # <<>> /\ Head(ctxs[y]) = x
         /\ Doomed = {} /\ Closing = {} /\ Rebinding = {}
         /\ Topping = (IF Stack[Depth].op = "push" THEN {} ELSE {y})
         /\ \A z : z # x => Givers(z) = {}
         /\ Givers(x) = (IF Depth = 1 THEN {} ELSE {1})
         /\ \A o \in OStreams : Live(o) => o \in mine \cup lost
<1>1. /\ x \in Streams /\ y \in Lexes /\ Live(x) /\ Live(y) /\ refs[x] > 0 /\ refs[y] > 0
  BY PushAlone, PushLive DEF IInv
<1>2. /\ UsableBut(y, {x})
      /\ \/ Depth = 1 /\ x \in mine
         \/ Depth = 2 /\ Stack[1].op = "unistr" /\ Stack[1].x = x /\ x \notin mine \cup lost
      /\ Stack[Depth].op # "push" => ctxs[y] # <<>> /\ Head(ctxs[y]) = x
  BY DEF IInv, Root, RootPush
<1>3. \A k \in 1..Depth : k = Depth \/ (k = 1 /\ Depth = 2 /\ Stack[k].op = "unistr" /\ Stack[k].x = x)
  BY <1>2
<1>4. Doomed = {} /\ Closing = {} /\ Rebinding = {}
  BY <1>3 DEF Doomed, Closing, Rebinding, At, Pushing
<1>5. Topping = (IF Stack[Depth].op = "push" THEN {} ELSE {y})
  BY <1>1, <1>3 DEF Topping, Pushing
<1>6. \A z : z # x => Givers(z) = {}
  BY <1>3 DEF Givers, Gives, Pushing
<1>7. Givers(x) = (IF Depth = 1 THEN {} ELSE {1})
  <2>1. \A k \in 1..Depth : Gives(Stack[k], x) => k = 1 /\ Depth # 1
    BY <1>3 DEF Gives, Pushing
  <2>2. Depth # 1 => 1 \in 1..Depth /\ Gives(Stack[1], x)
    BY <1>2 DEF Gives
  <2> QED BY <2>1, <2>2 DEF Givers
<1>8. \A o \in OStreams : Live(o) => o \in mine \cup lost
  BY <1>3, <1>4 DEF IInv, Holding, LiveOuts, Pushing
<1> QED BY <1>1, <1>2, <1>4, <1>5, <1>6, <1>7, <1>8

(* Without a step to pop, to close or to free there is no order to keep.   *)
LEMMA NothingPopped ==
  ASSUME \A k \in 1..Depth' : Stack'[k].op \notin Popping \cup {"free", "close"}
  PROVE  Order'
BY DEF Order, OrderFree, OrderClose, OrderPop, OrderOnce, OrderAll, OrderTop, Popping

(* A context more on a stack.                                              *)
LEMMA Prepended ==
  ASSUME ctxs \in [Lexes -> Seq(Streams \cup {Line})], NEW y \in Lexes, NEW e \in Streams \cup {Line},
         NEW L, L = Len(ctxs[y]), ctxs' = [ctxs EXCEPT ![y] = <<e>> \o @]
  PROVE  /\ ctxs' \in [Lexes -> Seq(Streams \cup {Line})]
         /\ ctxs'[y] # <<>> /\ Head(ctxs'[y]) = e /\ Len(ctxs'[y]) = L + 1 /\ L \in Nat
         /\ \A u \in Lexes : u # y => ctxs'[u] = ctxs[u]
         /\ <<y, L + 1>> \notin Places /\ Places' = Places \cup {<<y, L + 1>>}
         /\ Source(<<y, L + 1>>)' = e
         /\ \A p \in Places : Source(p)' = Source(p)
<1> DEFINE c == ctxs[y]
           d == <<e>> \o c
<1>1. c \in Seq(Streams \cup {Line}) /\ L = Len(c) /\ L \in Nat
  OBVIOUS
<1>2. ctxs'[y] = d /\ \A u \in Lexes : u # y => ctxs'[u] = ctxs[u]
  OBVIOUS
<1>3. <<e>> \in Seq(Streams \cup {Line}) /\ Len(<<e>>) = 1 /\ <<e>>[1] = e
  OBVIOUS
<1>4. d \in Seq(Streams \cup {Line}) /\ Len(d) = L + 1 /\ d[1] = e /\ \A i \in 1..L : d[i + 1] = c[i]
  <2> HIDE DEF c
  <2>1. d \in Seq(Streams \cup {Line}) /\ Len(d) = L + 1
        /\ \A i \in 1..L+1 : d[i] = IF i <= 1 THEN e ELSE c[i - 1]
    BY <1>1, <1>3, ConcatProperties
  <2> HIDE DEF d
  <2> QED BY <1>1, <2>1
<1>5. ctxs' \in [Lexes -> Seq(Streams \cup {Line})]
  BY <1>4
<1> HIDE DEF c, d
<1>6. d # <<>> /\ Head(d) = e
  BY <1>4
<1>7. <<y, L + 1>> \notin Places /\ Places' = Places \cup {<<y, L + 1>>}
  <2>1. <<y, L + 1>> \notin Places
    BY <1>1 DEF Places, c
  <2>2. \A p \in Places' : p \in Places \cup {<<y, L + 1>>}
    BY <1>1, <1>2, <1>4 DEF Places, c
  <2>3. \A p \in Places : p \in Places'
    BY <1>1, <1>2, <1>4 DEF Places, c
  <2>4. <<y, L + 1>> \in Places'
    BY <1>1, <1>2, <1>4 DEF Places
  <2> QED BY <2>1, <2>2, <2>3, <2>4
<1>8. Source(<<y, L + 1>>)' = e
  BY <1>1, <1>2, <1>4 DEF Source
<1>9. ASSUME NEW p \in Places PROVE Source(p)' = Source(p)
  <2>1. p[1] \in Lexes /\ p[2] \in 1..Len(ctxs[p[1]])
    BY DEF Places
  <2>2. CASE p[1] # y
    BY <1>2, <2>1, <2>2 DEF Source
  <2>3. CASE p[1] = y
    <3> DEFINE i == L + 1 - p[2]
    <3>1. i \in 1..L /\ Len(d) + 1 - p[2] = i + 1 /\ Len(c) + 1 - p[2] = i
      BY <1>1, <1>4, <2>1, <2>3 DEF c
    <3>2. Source(p)' = d[Len(d) + 1 - p[2]]
      BY <1>2, <2>3 DEF Source
    <3>3. Source(p) = c[Len(c) + 1 - p[2]]
      BY <2>3 DEF Source, c
    <3> QED BY <1>4, <3>1, <3>2, <3>3
  <2> QED BY <2>2, <2>3
<1> QED BY <1>1, <1>2, <1>4, <1>5, <1>6, <1>7, <1>8, <1>9

(* The context on top of a stack counts from now on.                       *)
LEMMA TopCounts ==
  ASSUME Typed, UNCHANGED ctxs, NEW y \in Lexes, NEW x \in Streams,
         ctxs[y] # <<>>, Head(ctxs[y]) = x, Topping = {y}, Topping' = {}, NEW L, L = Len(ctxs[y])
  PROVE  /\ <<y, L>> \notin Covers(x) /\ Covers(x)' = Covers(x) \cup {<<y, L>>}
         /\ \A s : s # x => Covers(s)' = Covers(s)
<1>1. L \in Nat /\ L > 0 /\ ctxs[y][1] = x
  BY DEF Typed
<1>2. <<y, L>> \in Places /\ Source(<<y, L>>) = x
  BY <1>1 DEF Places, Source
<1>3. Places' = Places /\ \A p \in Places : Source(p)' = Source(p) /\ Len(ctxs'[p[1]]) = Len(ctxs[p[1]])
  BY DEF Places, Source
<1>4. \A p \in Places : p[1] = y /\ p[2] = Len(ctxs[p[1]]) <=> p = <<y, L>>
  BY DEF Places
<1>5. \A s : Covers(s) = {p \in Places : Source(p) = s /\ p # <<y, L>>}
  BY <1>4 DEF Covers
<1>6. \A s : Covers(s)' = {p \in Places : Source(p) = s}
  BY <1>3 DEF Covers
<1> QED BY <1>2, <1>5, <1>6

(* A push that is refused leaves a stream of the call behind.              *)
LEMMA RefusedKeeps ==
  ASSUME CarefulCaller, IInv, PushRefused
  PROVE  IInv'
<1>1. /\ todo \in Seq(Entries) /\ todo # <<>> /\ Depth \in Nat /\ Depth >= 1 /\ Depth \in 1..Depth
      /\ Stack[Depth].op = "push" /\ X = Stack[Depth].x /\ Y = Stack[Depth].y
  BY TopStep DEF PushRefused, Now, X, Y, IInv, Typed
<1> SUFFICES ASSUME NEW x, x = X, NEW y, y = Y PROVE IInv'
  OBVIOUS
<1>2. /\ x \in Streams /\ y \in Lexes /\ Live(x) /\ Live(y) /\ refs[x] > 0
      /\ \/ Depth = 1 /\ x \in mine
         \/ Depth = 2 /\ x \notin mine \cup lost
      /\ Doomed = {} /\ Closing = {} /\ Rebinding = {} /\ Topping = {}
      /\ (\A z : z # x => Givers(z) = {}) /\ Givers(x) = (IF Depth = 1 THEN {} ELSE {1})
      /\ \A o \in OStreams : Live(o) => o \in mine \cup lost
  BY <1>1, PushAtTop DEF Pushing
<1>3. UNCHANGED <<st, refs, uls, ctxs, fds, touched>>
  BY <1>2 DEF PushRefused, Touch, IInv
<1>4. CASE Depth = 1
  <2>1. Go(<<>>) /\ UNCHANGED <<mine, lost>>
    BY <1>4 DEF CarefulCaller, PushRefused, IsFile, Depth
  <2> QED BY <1>1, <1>3, <2>1, EndKeeps
<1>5. CASE Depth # 1
  <2>1. todo' = <<>> /\ lost' = lost \cup {x} /\ mine' = mine /\ x \notin mine \cup lost
    BY <1>1, <1>2, <1>5 DEF PushRefused, IsFile, Depth
  <2>2. todo' \in Seq(Entries) /\ Depth' = 0 /\ \A k \in 1..Depth' : FALSE
    BY <2>1, StartNone
  <2>3. Doomed' = {} /\ Rebinding' = {} /\ Closing' = {} /\ Topping' = {} /\ \A z : Givers(z)' = {}
    BY <2>2 DEF Doomed, Rebinding, Closing, Topping, At, Givers
  <2>4. Typed'
    BY <1>2, <1>3, <2>1, <2>2 DEF IInv, Typed, Bound
  <2>5. Counted'
    <3>1. ASSUME NEW u \in Lexes PROVE LexCount(u)'
      <4>1. Binders(u)' = Binders(u) /\ LexCount(u) /\ u # x
        BY <1>2, <1>3, <2>3, BindersKept, OwnershipConstants DEF IInv, Holding, Counted
      <4>2. Givers(u)' = Givers(u)
        BY <1>2, <2>3, <4>1
      <4> QED BY <1>3, <2>1, <4>1, <4>2 DEF LexCount
    <3>2. ASSUME NEW s \in Streams PROVE StreamCount(s)'
      <4>1. Covers(s)' = Covers(s) /\ StreamCount(s) /\ refs' = refs
        BY <1>2, <1>3, <2>3, CoversKept DEF IInv, Holding, Counted
      <4>2. CASE s # x
        <5>1. Givers(s)' = Givers(s) /\ (s \in mine' \cup lost' <=> s \in mine \cup lost)
          BY <1>2, <2>1, <2>3, <4>2
        <5> QED BY <4>1, <5>1 DEF StreamCount, One
      <4>3. CASE s = x
        <5>1. IsFiniteSet(Givers(s)') /\ Has(Givers(s)') = 0 /\ Has(Givers(s)) = 1
          BY <1>2, <1>5, <2>3, <4>3, FS_Singleton, FS_EmptySet DEF Has
        <5>2. Has(Covers(s)) \in Nat
          BY <4>1, HasNat DEF StreamCount
        <5> QED BY <2>1, <4>1, <4>3, <5>1, <5>2 DEF StreamCount, One, Has
      <4> QED BY <4>2, <4>3
    <3> QED BY <3>1, <3>2 DEF Counted
  <2>6. LiveLexes' /\ DoomedHeld'
    BY <1>2, <1>3, <2>3 DEF IInv, Holding, LiveLexes, DoomedHeld, Live
  <2>7. LiveParts'
    BY <1>2, <1>3, <2>1, <2>3 DEF IInv, Holding, LiveParts, Live
  <2>8. LiveOuts'
    <3>1. x \notin OStreams
      BY <1>2, OwnershipConstants
    <3> QED BY <1>2, <1>3, <2>1, <2>3, <3>1 DEF IInv, Holding, LiveOuts, Live
  <2>9. Order' /\ Root'
    BY <2>2, NothingPopped DEF Root, RootPush, RootOut, RootBind
  <2> QED BY <1>3, <2>4, <2>5, <2>6, <2>7, <2>8, <2>9 DEF IInv, Holding
<1> QED BY <1>4, <1>5

(* The stream of a push that goes on: uls_istr_grab().                     *)
LEMMA DoneKeeps ==
  ASSUME IInv, PushDone
  PROVE  IInv'
<1> DEFINE D == Depth
<1>1. /\ todo \in Seq(Entries) /\ todo # <<>> /\ D \in Nat /\ D >= 1 /\ D \in 1..D
      /\ Stack[D].op = "fill" /\ X = Stack[D].x /\ Y = Stack[D].y
  BY TopStep DEF PushDone, Now, X, Y, IInv, Typed
<1> SUFFICES ASSUME NEW x, x = X, NEW y, y = Y PROVE IInv'
  OBVIOUS
<1>2. /\ x \in Streams /\ y \in Lexes /\ Live(x) /\ Live(y) /\ refs[x] > 0
      /\ \/ D = 1
         \/ D = 2 /\ Stack[1].op = "unistr" /\ Stack[1].x = x
      /\ ctxs[y] # <<>> /\ Head(ctxs[y]) = x
      /\ Doomed = {} /\ Closing = {} /\ Rebinding = {} /\ Topping = {y}
      /\ \A o \in OStreams : Live(o) => o \in mine \cup lost
  BY <1>1, PushAtTop DEF Pushing
<1>3. UNCHANGED <<st, uls, ctxs, mine, lost, fds, touched>> /\ refs' = [refs EXCEPT ![x] = @ + 1] /\ Go(<<>>)
  BY <1>2 DEF PushDone, Touch, IInv
<1>4. Onward /\ Depth' = D - 1 /\ \A k \in D..Depth' : FALSE
  <2>1. Onward /\ Depth' = Depth - 1
    BY <1>1, <1>3, GoNone
  <2> QED BY <2>1 DEF Onward
<1>5. \A k \in 1..Depth' : k = 1 /\ D = 2 /\ Stack'[k].op = "unistr"
  BY <1>1, <1>2, <1>4 DEF Onward
<1>6. /\ refs \in [Objects -> Nat] /\ refs' \in [Objects -> Nat] /\ x \in Objects
      /\ x \notin Lexes /\ x \notin OStreams
      /\ refs'[x] = refs[x] + 1 /\ \A z \in Objects : z # x => refs'[z] = refs[z]
  <2>1. refs \in [Objects -> Nat]
    BY DEF IInv, Typed
  <2> QED BY <1>2, <1>3, <2>1, OwnershipConstants DEF Objects
<1>7. Stack[D].op = "fill"
  BY <1>1
<1> HIDE DEF D
<1>8. Doomed' = {} /\ Closing' = {} /\ Rebinding' = {} /\ Topping' = {}
  BY <1>5 DEF Doomed, Closing, Rebinding, Topping, At
<1>9. \A z : Givers(z)' = Givers(z)
  BY <1>4, <1>7, GiversKept DEF Gives, D
<1>10. Typed'
  <2>1. \A k \in 1..Depth' : StepOK(Stack'[k])
    BY <1>4, StepsTyped DEF IInv, Typed, D
  <2> QED BY <1>3, <1>4, <1>6, <2>1 DEF IInv, Typed, Onward, StepOK
<1>11. Counted'
  <2>1. ASSUME NEW u \in Lexes PROVE LexCount(u)'
    <3>1. Binders(u)' = Binders(u) /\ LexCount(u) /\ u # x /\ u \in Objects
      BY <1>2, <1>3, <1>6, <1>8, BindersKept DEF IInv, Holding, Counted, Objects
    <3> QED BY <1>3, <1>6, <1>9, <3>1 DEF LexCount
  <2> DEFINE L == Len(ctxs[y])
  <2>2. /\ <<y, L>> \notin Covers(x) /\ Covers(x)' = Covers(x) \cup {<<y, L>>}
        /\ \A s : s # x => Covers(s)' = Covers(s)
    <3> SUFFICES ASSUME NEW M, M = L
                 PROVE  /\ <<y, M>> \notin Covers(x) /\ Covers(x)' = Covers(x) \cup {<<y, M>>}
                        /\ \A s : s # x => Covers(s)' = Covers(s)
      OBVIOUS
    <3> QED BY <1>2, <1>3, <1>8, TopCounts DEF IInv
  <2> HIDE DEF L
  <2>3. ASSUME NEW s \in Streams, s # x PROVE StreamCount(s)'
    <3>1. Covers(s)' = Covers(s) /\ StreamCount(s) /\ s \in Objects
      BY <2>2, <2>3 DEF IInv, Holding, Counted, Objects
    <3> QED BY <1>3, <1>6, <1>9, <2>3, <3>1 DEF StreamCount
  <2>4. StreamCount(x)'
    <3>1. StreamCount(x)
      BY <1>2 DEF IInv, Holding, Counted
    <3>2. IsFiniteSet(Covers(x)') /\ Has(Covers(x)') = Has(Covers(x)) + 1 /\ Has(Covers(x)) \in Nat
      BY <2>2, <3>1, Gains DEF StreamCount
    <3>3. Has(Givers(x)) \in Nat /\ mine' = mine /\ lost' = lost
      BY <1>3, <3>1, HasNat DEF StreamCount
    <3> QED BY <1>6, <1>9, <3>1, <3>2, <3>3 DEF StreamCount, One, Has
  <2>5. \A s \in Streams : StreamCount(s)'
    <3> SUFFICES ASSUME NEW s \in Streams PROVE StreamCount(s)'
      OBVIOUS
    <3>1. CASE s = x
      BY <2>4, <3>1 DEF StreamCount, Covers, Givers, Gives
    <3> QED BY <2>3, <3>1
  <2> QED BY <2>1, <2>5 DEF Counted
<1>12. LiveLexes'
  BY <1>2, <1>3, <1>6, <1>8 DEF IInv, Holding, LiveLexes, Live, Objects
<1>13. LiveParts' /\ DoomedHeld'
  BY <1>3, <1>8 DEF IInv, Holding, LiveParts, DoomedHeld, Live
<1>14. LiveOuts'
  <2>1. \A o \in OStreams : refs'[o] = refs[o]
    BY <1>6 DEF Objects
  <2> QED BY <1>2, <1>3, <2>1 DEF IInv, Holding, LiveOuts, Live
<1>15. Order' /\ Root'
  BY <1>5, NothingPopped DEF Root, RootPush, RootOut, RootBind, Popping, Pushing
<1> QED BY <1>3, <1>10, <1>11, <1>12, <1>13, <1>14, <1>15 DEF IInv, Holding

(* A push that fails later pops the context, and with it the reference of  *)
(* the caller or of the call.                                              *)
LEMMA UndoneKeeps ==
  ASSUME CarefulCaller, IInv, PushUndone
  PROVE  IInv'
<1> DEFINE D == Depth
<1>1. /\ todo \in Seq(Entries) /\ todo # <<>> /\ D \in Nat /\ D >= 1 /\ D \in 1..D
      /\ Stack[D].op \in {"fill", "undo"} /\ X = Stack[D].x /\ Y = Stack[D].y
  BY TopStep DEF PushUndone, Now, X, Y, IInv, Typed
<1> SUFFICES ASSUME NEW x, x = X, NEW y, y = Y, NEW L, L = Len(ctxs[y]) PROVE IInv'
  OBVIOUS
<1>2. /\ x \in Streams /\ y \in Lexes /\ Live(x) /\ Live(y) /\ refs[x] > 0
      /\ UsableBut(y, {x})
      /\ \/ D = 1 /\ x \in mine
         \/ D = 2 /\ x \notin mine \cup lost
      /\ ctxs[y] # <<>> /\ Head(ctxs[y]) = x
      /\ Doomed = {} /\ Closing = {} /\ Rebinding = {} /\ Topping = {y}
      /\ (\A z : z # x => Givers(z) = {}) /\ Givers(x) = (IF D = 1 THEN {} ELSE {1})
      /\ \A o \in OStreams : Live(o) => o \in mine \cup lost
  BY <1>1, PushAtTop DEF Pushing
<1>3. UNCHANGED <<st, refs, uls, ctxs, lost, fds, touched>>
  BY <1>2 DEF PushUndone, Touch, IInv
<1>4. todo' = <<Do("pop", y)>> /\ mine' = IF D = 1 THEN mine \ {x} ELSE mine
  <2>1. todo' = <<Do("pop", y)>> \o <<>> /\ mine' = IF D = 1 THEN mine \ {x} ELSE mine
    <3>1. IsFile <=> D # 1
      <4>1. D \in Nat /\ D >= 1 /\ D = Len(todo)
        BY <1>1 DEF Depth
      <4> HIDE DEF D
      <4> QED BY <4>1 DEF IsFile
    <3>2. (IF ~IsFile /\ "destroys_failed" \in CallerMay THEN <<Do("unistr", X)>> ELSE <<>>) = <<>>
      BY DEF CarefulCaller
    <3>3. /\ todo' = <<Do("pop", Y)>> \o (IF ~IsFile /\ "destroys_failed" \in CallerMay
                                          THEN <<Do("unistr", X)>> ELSE <<>>)
          /\ mine' = IF IsFile THEN mine ELSE mine \ {X}
      BY DEF PushUndone
    <3>4. mine' = IF D = 1 THEN mine \ {x} ELSE mine
      BY <3>1, <3>3
    <3> QED BY <3>2, <3>3, <3>4
  <2>2. Do("pop", y) \in Entries
    BY <1>2 DEF Entries, Ops, Popping, Objects, Do
  <2> DEFINE s == <<Do("pop", y)>>
  <2>3. s \in Seq(Entries) /\ todo' = s \o <<>>
    BY <2>1, <2>2
  <2> HIDE DEF s
  <2>4. todo' = s
    BY <2>3, ConcatEmptySeq
  <2> QED BY <2>1, <2>4 DEF s
<1> DEFINE a == Do("pop", y)
<1>5. a \in Entries /\ a.op = "pop" /\ a.x = y
  BY <1>2 DEF Entries, Ops, Popping, Objects, Do
<1> HIDE DEF a, D
<1>6. todo' \in Seq(Entries) /\ Depth' = 1 /\ Stack'[1] = a /\ \A k \in 1..Depth' : k = 1
  <2>1. todo' = <<a>>
    BY <1>4 DEF a
  <2> QED BY <1>5, <2>1, StartOne
<1>7. Doomed' = {} /\ Closing' = {} /\ Rebinding' = {} /\ Topping' = {} /\ \A z : Givers(z)' = {}
  BY <1>5, <1>6 DEF Doomed, Closing, Rebinding, Topping, At, Givers, Gives
<1>8. Typed'
  BY <1>2, <1>3, <1>4, <1>5, <1>6 DEF IInv, Typed, StepOK, Popping, Pushing
<1>9. x \notin Lexes /\ x \notin OStreams /\ x # y
  BY <1>2, OwnershipConstants
<1>10. /\ <<y, L>> \notin Covers(x) /\ Covers(x)' = Covers(x) \cup {<<y, L>>}
       /\ \A s : s # x => Covers(s)' = Covers(s)
  BY <1>2, <1>3, <1>7, TopCounts DEF IInv
<1>11. Counted'
  <2>1. ASSUME NEW u \in Lexes PROVE LexCount(u)'
    <3>1. /\ Binders(u)' = Binders(u) /\ LexCount(u) /\ u # x /\ Givers(u)' = Givers(u)
          /\ (u \in mine' <=> u \in mine)
      BY <1>2, <1>3, <1>4, <1>7, <1>9, BindersKept DEF IInv, Holding, Counted
    <3> QED BY <1>3, <3>1 DEF LexCount, One
  <2>2. ASSUME NEW s \in Streams PROVE StreamCount(s)'
    <3>1. StreamCount(s) /\ refs' = refs /\ lost' = lost
      BY <1>3 DEF IInv, Holding, Counted
    <3>2. CASE s # x
      <4>1. /\ Covers(s)' = Covers(s) /\ Givers(s)' = Givers(s) /\ (s \in mine' <=> s \in mine)
        BY <1>2, <1>4, <1>7, <1>10, <3>2
      <4> QED BY <3>1, <4>1 DEF StreamCount, One
    <3>3. CASE s = x
      <4>1. <<y, L>> \notin Covers(s) /\ Covers(s)' = Covers(s) \cup {<<y, L>>}
        BY <1>10, <3>3 DEF Covers, Places, Source
      <4>2. IsFiniteSet(Covers(s)') /\ Has(Covers(s)') = Has(Covers(s)) + 1 /\ Has(Covers(s)) \in Nat
        BY <3>1, <4>1, Gains DEF StreamCount
      <4>3. IsFiniteSet(Givers(s)') /\ Has(Givers(s)') = 0 /\ Has(Givers(s)) = IF D = 1 THEN 0 ELSE 1
        BY <1>2, <1>7, <3>3, FS_Singleton, FS_EmptySet DEF Has
      <4>4. s \notin lost /\ (s \in mine <=> D = 1) /\ s \notin mine'
        BY <1>2, <1>4, <3>3 DEF IInv, Holding, LiveParts
      <4> QED BY <3>1, <4>2, <4>3, <4>4 DEF StreamCount, One, Has
    <3> QED BY <3>2, <3>3
  <2> QED BY <2>1, <2>2 DEF Counted
<1>12. LiveLexes' /\ DoomedHeld'
  BY <1>2, <1>3, <1>7 DEF IInv, Holding, LiveLexes, DoomedHeld, Live
<1>13. LiveParts'
  BY <1>2, <1>3, <1>4, <1>7 DEF IInv, Holding, LiveParts, Live
<1>14. LiveOuts'
  BY <1>2, <1>3, <1>4, <1>9 DEF IInv, Holding, LiveOuts, Live
<1>15. Order'
  <2>1. Usable(y)'
    BY <1>2, <1>3, <1>4, <1>9 DEF Usable, UsableBut
  <2>2. Steady'
    BY <1>5, <1>6 DEF Steady
  <2>3. OrderPop'
    <3> SUFFICES ASSUME NEW k \in 1..Depth' PROVE (Steady /\ Usable(Stack[k].x))'
      BY DEF OrderPop
    <3>1. Stack'[k].x = y
      BY <1>5, <1>6
    <3> QED BY <2>1, <2>2, <3>1 DEF Usable, UsableBut
  <2> QED BY <1>5, <1>6, <2>3
             DEF Order, OrderFree, OrderClose, OrderOnce, OrderAll, OrderTop, Popping
<1>16. Root'
  BY <1>5, <1>6 DEF Root, RootPush, RootOut, RootBind, Pushing
<1> QED BY <1>3, <1>8, <1>11, <1>12, <1>13, <1>14, <1>15, <1>16 DEF IInv, Holding
-----------------------------------------------------------------------------
(* Two steps before another.                                               *)
LEMMA JoinsLast ==
  ASSUME NEW a \in Entries, NEW b \in Entries, NEW c \in Entries
  PROVE  <<c, b>> \o <<a>> = <<c, b, a>>
<1> DEFINE s == <<c, b>>
           t == <<a>>
           n == s \o t
           m == <<c, b, a>>
<1>1. s \in Seq(Entries) /\ Len(s) = 2 /\ s[1] = c /\ s[2] = b
  OBVIOUS
<1>2. t \in Seq(Entries) /\ Len(t) = 1 /\ t[1] = a
  OBVIOUS
<1>3. m \in Seq(Entries) /\ Len(m) = 3 /\ m[1] = c /\ m[2] = b /\ m[3] = a
  OBVIOUS
<1> HIDE DEF s, t, m
<1>4. n \in Seq(Entries) /\ Len(n) = 3 /\ \A i \in 1..3 : n[i] = IF i <= 2 THEN s[i] ELSE t[i - 2]
  <2>1. n \in Seq(Entries) /\ Len(n) = Len(s) + Len(t)
        /\ \A i \in 1..Len(s)+Len(t) : n[i] = IF i <= Len(s) THEN s[i] ELSE t[i - Len(s)]
    BY <1>1, <1>2, ConcatProperties
  <2> HIDE DEF n
  <2> QED BY <1>1, <1>2, <2>1
<1> HIDE DEF n
<1>5. \A i \in 1..3 : n[i] = m[i]
  BY <1>1, <1>2, <1>3, <1>4
<1>6. n = m
  BY <1>3, <1>4, <1>5, SeqEqual
<1> QED BY <1>6 DEF s, t, n, m

(* A context that is put on top and does not count yet.                    *)
LEMMA TopHidden ==
  ASSUME Typed, NEW y \in Lexes, NEW e \in Streams \cup {Line},
         ctxs' = [ctxs EXCEPT ![y] = <<e>> \o @], Topping = {}, Topping' = {y}
  PROVE  \A s : Covers(s)' = Covers(s)
<1> SUFFICES ASSUME NEW L, L = Len(ctxs[y]) PROVE \A s : Covers(s)' = Covers(s)
  OBVIOUS
<1>1. /\ Len(ctxs'[y]) = L + 1 /\ L \in Nat
      /\ <<y, L + 1>> \notin Places /\ Places' = Places \cup {<<y, L + 1>>}
      /\ \A p \in Places : Source(p)' = Source(p)
  BY Prepended DEF Typed
<1>2. \A p \in Places' : p[1] = y /\ p[2] = L + 1 <=> p = <<y, L + 1>>
  BY DEF Places
<1>3. \A s : Covers(s) = {p \in Places : Source(p) = s}
  BY DEF Covers
<1>4. \A s : Covers(s)' = {p \in Places' : Source(p)' = s /\ p # <<y, L + 1>>}
  <2>1. \A s : Covers(s)' = {p \in Places' : Source(p)' = s /\ ~(p[1] \in Topping' /\ p[2] = Len(ctxs'[p[1]]))}
    BY DEF Covers
  <2>2. \A p \in Places' : p[1] \in Topping' /\ p[2] = Len(ctxs'[p[1]]) <=> p = <<y, L + 1>>
    BY <1>1, <1>2
  <2> QED BY <2>1, <2>2
<1>5. ASSUME NEW s PROVE Covers(s)' = Covers(s)
  <2>1. \A p : p \in Covers(s)' <=> p \in Covers(s)
    BY <1>1, <1>3, <1>4
  <2> QED BY <2>1, <1>3, <1>4
<1> QED BY <1>5

(* What a push that is accepted changes, whether or not it binds.          *)
LEMMA FillKeeps ==
  ASSUME IInv, todo # <<>>, NEW x, NEW y, Stack[Depth].op = "push",
         Stack[Depth].x = x, Stack[Depth].y = y,
         NEW a \in Entries, a.op \in {"fill", "undo"}, a.x = x, a.y = y, Go(<<a>>),
         ctxs' = [ctxs EXCEPT ![y] = <<x>> \o @],
         UNCHANGED <<st, refs, uls, mine, lost, fds, touched>>
  PROVE  IInv'
<1> DEFINE D == Depth
<1>1. Onward /\ Depth' = D /\ Stack'[D] = a /\ D \in Nat /\ D >= 1 /\ D \in 1..D
  <2>1. Onward /\ Depth' = D /\ Stack'[D] = a
    BY GoOne DEF IInv, Typed
  <2> QED BY <2>1 DEF Onward
<1>2. /\ x \in Streams /\ y \in Lexes /\ Live(y) /\ UsableBut(y, {x})
      /\ \/ D = 1 /\ x \in mine
         \/ D = 2 /\ Stack[1].op = "unistr" /\ Stack[1].x = x /\ x \notin mine \cup lost
      /\ Doomed = {} /\ Closing = {} /\ Rebinding = {} /\ Topping = {}
      /\ \A o \in OStreams : Live(o) => o \in mine \cup lost
  BY <1>1, PushAtTop DEF Pushing
<1>3. UNCHANGED <<st, refs, uls, mine, lost, fds, touched>> /\ Stack[D].op = "push"
      /\ ctxs' = [ctxs EXCEPT ![y] = <<x>> \o @]
  OBVIOUS
<1>4. /\ ctxs' \in [Lexes -> Seq(Streams \cup {Line})] /\ ctxs'[y] # <<>> /\ Head(ctxs'[y]) = x
      /\ \A u \in Lexes : u # y => ctxs'[u] = ctxs[u]
  <2>1. \A L : L = Len(ctxs[y]) =>
          /\ ctxs' \in [Lexes -> Seq(Streams \cup {Line})] /\ ctxs'[y] # <<>> /\ Head(ctxs'[y]) = x
          /\ \A u \in Lexes : u # y => ctxs'[u] = ctxs[u]
    BY <1>2, <1>3, Prepended DEF IInv, Typed
  <2> QED BY <2>1
<1> HIDE DEF D
<1>5. \A k \in 1..Depth' : \/ k = D /\ Stack'[k] = a
                           \/ k = 1 /\ D = 2 /\ Stack'[k] = Stack[k] /\ Stack[k].op = "unistr"
  BY <1>1, <1>2 DEF Onward, D
<1>6. D \in 1..Depth' /\ Stack'[D] = a /\ a.op \in {"fill", "undo"} /\ a.x = x /\ a.y = y
  BY <1>1
<1>7. Doomed' = {} /\ Closing' = {} /\ Rebinding' = {}
  BY <1>5, <1>6 DEF Doomed, Closing, Rebinding, At
<1>8. Topping' = {y}
  BY <1>2, <1>5, <1>6 DEF Topping
<1>9. \A z : Givers(z)' = Givers(z)
  BY <1>1, <1>3, <1>6, GiversKept DEF Gives, D
<1>10. \A s : Covers(s)' = Covers(s)
  BY <1>2, <1>3, <1>8, TopHidden DEF IInv
<1>11. Typed'
  <2>1. StepOK(a)
    BY <1>2, <1>6 DEF StepOK, Popping, Pushing
  <2>2. \A k \in 1..Depth' : StepOK(Stack'[k])
    BY <1>1, <1>5, <2>1, StepsTyped DEF IInv, Typed, D
  <2> QED BY <1>1, <1>3, <1>4, <2>2 DEF IInv, Typed, Onward, StepOK
<1>12. Counted'
  BY <1>2, <1>3, <1>7, <1>9, <1>10, BindersKept
     DEF IInv, Holding, Counted, LexCount, StreamCount
<1>13. LiveLexes' /\ DoomedHeld' /\ LiveOuts'
  BY <1>2, <1>3, <1>7 DEF IInv, Holding, LiveLexes, DoomedHeld, LiveOuts, Live
<1>14. LiveParts'
  BY <1>2, <1>3, <1>4, <1>7 DEF IInv, Holding, LiveParts, Live
<1>15. Order'
  BY <1>5, <1>6, NothingPopped DEF Popping
<1>16. Root'
  <2>1. UsableBut(y, {x})'
    BY <1>2, <1>3 DEF UsableBut
  <2>2. RootPush'
    <3> SUFFICES ASSUME NEW k \in 1..Depth', Stack'[k].op \in Pushing
                 PROVE  /\ UsableBut(Stack[k].y, {Stack[k].x})'
                        /\ \/ k = 1 /\ Stack'[k].x \in mine'
                           \/ /\ k = 2 /\ Stack'[1].op = "unistr" /\ Stack'[1].x = Stack'[k].x
                              /\ Stack'[k].x \notin mine' \cup lost'
                        /\ ctxs'[Stack'[k].y] # <<>> /\ Head(ctxs'[Stack'[k].y]) = Stack'[k].x
      BY DEF RootPush
    <3>1. k = D /\ Stack'[k].x = x /\ Stack'[k].y = y
      BY <1>5, <1>6 DEF Pushing
    <3>2. UsableBut(Stack[k].y, {Stack[k].x})'
      BY <2>1, <3>1 DEF UsableBut
    <3>3. D = 2 => Stack'[1] = Stack[1]
      BY <1>1 DEF Onward, D
    <3> QED BY <1>2, <1>3, <1>4, <3>1, <3>2, <3>3
  <2>3. RootOut' /\ RootBind'
    BY <1>5, <1>6 DEF RootOut, RootBind
  <2> QED BY <2>2, <2>3 DEF Root
<1> QED BY <1>3, <1>11, <1>12, <1>13, <1>14, <1>15, <1>16 DEF IInv, Holding
(* A push that binds the stream: the analyser is counted before the old    *)
(* one is let go, and the stream is known to none of them meanwhile.       *)
LEMMA RebindKeeps ==
  ASSUME IInv, todo # <<>>, NEW x, NEW y, Stack[Depth].op = "push",
         Stack[Depth].x = x, Stack[Depth].y = y, uls[x] # y,
         ctxs' = [ctxs EXCEPT ![y] = <<x>> \o @], refs' = [refs EXCEPT ![y] = @ + 1],
         Go(BindSteps(x, y) \o <<Do2("fill", x, y)>>),
         UNCHANGED <<st, uls, mine, lost, fds, touched>>
  PROVE  IInv'
<1> DEFINE D == Depth
           a == Do2("fill", x, y)
           b == Do2("bind", x, y)
<1>1. todo \in Seq(Entries) /\ D \in Nat /\ D >= 1 /\ D \in 1..D
  BY TopStep DEF IInv, Typed
<1>2. /\ x \in Streams /\ y \in Lexes /\ Live(y) /\ UsableBut(y, {x}) /\ refs[y] > 0
      /\ \/ D = 1 /\ x \in mine
         \/ D = 2 /\ Stack[1].op = "unistr" /\ Stack[1].x = x /\ x \notin mine \cup lost
      /\ Doomed = {} /\ Closing = {} /\ Rebinding = {} /\ Topping = {}
      /\ \A o \in OStreams : Live(o) => o \in mine \cup lost
  BY <1>1, PushAtTop DEF Pushing
<1>3. UNCHANGED <<st, uls, mine, lost, fds, touched>> /\ Stack[D].op = "push" /\ uls[x] # y
      /\ ctxs' = [ctxs EXCEPT ![y] = <<x>> \o @]
  OBVIOUS
<1>4. /\ ctxs' \in [Lexes -> Seq(Streams \cup {Line})] /\ ctxs'[y] # <<>> /\ Head(ctxs'[y]) = x
      /\ \A u \in Lexes : u # y => ctxs'[u] = ctxs[u]
  <2>1. \A L : L = Len(ctxs[y]) =>
          /\ ctxs' \in [Lexes -> Seq(Streams \cup {Line})] /\ ctxs'[y] # <<>> /\ Head(ctxs'[y]) = x
          /\ \A u \in Lexes : u # y => ctxs'[u] = ctxs[u]
    BY <1>2, <1>3, Prepended DEF IInv, Typed
  <2> QED BY <2>1
<1>5. /\ x \in Objects /\ y \in Objects /\ x \in Bound /\ x # y /\ y \notin OStreams /\ y # NONE
      /\ x \notin Lexes /\ refs \in [Objects -> Nat] /\ refs' \in [Objects -> Nat]
      /\ refs'[y] = refs[y] + 1 /\ \A z \in Objects : z # y => refs'[z] = refs[z]
  BY <1>2, OwnershipConstants DEF IInv, Typed, Objects, Bound
<1>6. /\ a \in Entries /\ a.op = "fill" /\ a.x = x /\ a.y = y
      /\ b \in Entries /\ b.op = "bind" /\ b.x = x /\ b.y = y
  BY <1>2, <1>5 DEF Entries, Ops, Popping, Pushing, Do2, Objects
<1>7. uls[x] \in Lexes \cup {NONE}
  BY <1>5 DEF IInv, Typed
<1> SUFFICES ASSUME NEW v \in Lexes \cup {NONE}, v = uls[x] PROVE IInv'
  BY <1>7
<1> DEFINE c == Do("unlex", v)
<1>8. v # NONE => c \in Entries /\ c.op = "unlex" /\ c.x = v /\ v \in Lexes
  BY DEF Entries, Ops, Objects, Do
<1>9. /\ Onward /\ Stack'[D] = a /\ Stack'[D + 1] = b
      /\ IF v = NONE THEN Depth' = D + 1 ELSE Depth' = D + 2 /\ Stack'[D + 2] = c
  <2>1. CASE v = NONE
    <3>1. Go((<<>> \o <<b>>) \o <<a>>)
      BY <2>1 DEF BindSteps
    <3> HIDE DEF a, b
    <3>2. (<<>> \o <<b>>) \o <<a>> = <<b, a>>
      BY <1>6, Joins
    <3>3. Go(<<b, a>>)
      BY <3>1, <3>2
    <3> QED BY <1>1, <1>6, <2>1, <3>3, GoTwo
  <2>2. CASE v # NONE
    <3>1. Go((<<c>> \o <<b>>) \o <<a>>)
      BY <2>2 DEF BindSteps
    <3> HIDE DEF a, b, c
    <3>2. (<<c>> \o <<b>>) \o <<a>> = <<c, b, a>>
      BY <1>6, <1>8, <2>2, Joins, JoinsLast
    <3>3. Go(<<c, b, a>>)
      BY <3>1, <3>2
    <3> QED BY <1>1, <1>6, <1>8, <2>2, <3>3, GoThree
  <2> QED BY <2>1, <2>2
<1> HIDE DEF D, a, b, c
<1>10. \A k \in D..Depth' : \/ k = D /\ Stack'[k] = a
                            \/ k = D + 1 /\ Stack'[k] = b
                            \/ k = D + 2 /\ Stack'[k] = c /\ v # NONE
  BY <1>1, <1>9
<1>11. \A k \in 1..Depth' : \/ k = D /\ Stack'[k] = a
                            \/ k = D + 1 /\ Stack'[k] = b
                            \/ k = D + 2 /\ Stack'[k] = c /\ v # NONE
                            \/ k = 1 /\ D = 2 /\ Stack'[k] = Stack[k] /\ Stack[k].op = "unistr"
  BY <1>1, <1>2, <1>9, <1>10 DEF Onward, D
<1>12. /\ D \in 1..Depth' /\ D + 1 \in 1..Depth' /\ D + 1 \in D..Depth'
       /\ v # NONE => D + 2 \in 1..Depth' /\ D + 2 \in D..Depth'
  BY <1>1, <1>9
<1>13. Doomed' = {} /\ Closing' = {} /\ Rebinding' = {x}
  <2>1. Doomed' = {} /\ Closing' = {}
    BY <1>6, <1>8, <1>11 DEF Doomed, Closing, At
  <2>2. \A z \in Rebinding' : z = x
    BY <1>6, <1>8, <1>11 DEF Rebinding, At
  <2>3. x \in Rebinding'
    BY <1>5, <1>6, <1>9, <1>12 DEF Rebinding, At
  <2> QED BY <2>1, <2>2, <2>3
<1>14. Topping' = {y}
  BY <1>2, <1>6, <1>8, <1>9, <1>11, <1>12 DEF Topping
<1>15. \A s : Covers(s)' = Covers(s)
  BY <1>2, <1>3, <1>14, TopHidden DEF IInv
<1>16. \A z : ~Gives(Stack[D], z) /\ ~Gives(a, z) /\ (Gives(b, z) <=> z = y)
              /\ (v # NONE => (Gives(c, z) <=> z = v))
  BY <1>3, <1>6, <1>8 DEF Gives
<1>17. v # y
  BY <1>3
<1>18. ASSUME NEW z, z # y, z # v \/ v = NONE PROVE Givers(z)' = Givers(z)
  BY <1>9, <1>10, <1>16, <1>18, GiversKept DEF D
<1>19. ASSUME NEW z, z = y PROVE D + 1 \notin Givers(z) /\ Givers(z)' = Givers(z) \cup {D + 1}
  <2>1. ~Gives(Stack[D], z) /\ Gives(Stack'[D + 1], z)
    BY <1>9, <1>16, <1>19
  <2>2. \A k \in D..Depth' : k # D + 1 => ~Gives(Stack'[k], z)
    BY <1>10, <1>16, <1>17, <1>19
  <2> QED BY <1>9, <1>12, <2>1, <2>2, GiversGained DEF D
<1>20. ASSUME NEW z, z = v, v # NONE PROVE D + 2 \notin Givers(z) /\ Givers(z)' = Givers(z) \cup {D + 2}
  <2>1. ~Gives(Stack[D], z) /\ Gives(Stack'[D + 2], z)
    BY <1>9, <1>16, <1>20
  <2>2. \A k \in D..Depth' : k # D + 2 => ~Gives(Stack'[k], z)
    BY <1>10, <1>16, <1>17, <1>20
  <2> QED BY <1>9, <1>12, <1>20, <2>1, <2>2, GiversGained DEF D
<1>21. Typed'
  <2>1. StepOK(a) /\ StepOK(b) /\ (v # NONE => StepOK(c))
    BY <1>2, <1>6, <1>8 DEF StepOK, Popping, Pushing
  <2>2. \A k \in D..Depth' : StepOK(Stack'[k])
    BY <1>10, <2>1
  <2>3. \A k \in 1..Depth' : StepOK(Stack'[k])
    BY <1>9, <2>2, StepsTyped DEF IInv, Typed, D
  <2> QED BY <1>3, <1>4, <1>5, <1>9, <2>3 DEF IInv, Typed, Onward, StepOK
<1>22. Counted'
  <2>1. ASSUME NEW u \in Lexes, u # v PROVE Binders(u)' = Binders(u)
    BY <1>2, <1>3, <1>13, <2>1 DEF Binders
  <2>2. ASSUME NEW u \in Lexes, u = v PROVE x \in Binders(u) /\ Binders(u)' = Binders(u) \ {x}
    BY <1>2, <1>3, <1>5, <1>13, <2>2 DEF Binders
  <2>3. ASSUME NEW u \in Lexes PROVE LexCount(u)'
    <3>1. LexCount(u) /\ Has(Binders(u)) \in Nat /\ Has(Givers(u)) \in Nat /\ mine' = mine
          /\ u \in Objects /\ refs[u] \in Nat
      BY <1>3, <1>5, CountedNat DEF IInv, Holding, Counted, Objects
    <3>2. CASE u = y
      <4>1. Binders(u)' = Binders(u)
        BY <1>17, <2>1, <3>2
      <4>2. IsFiniteSet(Givers(u)') /\ Has(Givers(u)') = Has(Givers(u)) + 1
        BY <1>19, <3>1, <3>2, Gains DEF LexCount
      <4>3. refs'[u] = refs[u] + 1
        BY <1>5, <3>2
      <4> QED BY <3>1, <4>1, <4>2, <4>3 DEF LexCount, One, Has
    <3>3. CASE u = v
      <4>1. IsFiniteSet(Binders(u)') /\ Has(Binders(u)') = Has(Binders(u)) - 1
        <5>1. x \in Binders(u) /\ Binders(u)' = Binders(u) \ {x} /\ IsFiniteSet(Binders(u))
          BY <2>2, <3>1, <3>3 DEF LexCount
        <5> QED BY <5>1, Loses
      <4>2. v # NONE
        BY <3>3, OwnershipConstants DEF Objects
      <4>3. IsFiniteSet(Givers(u)') /\ Has(Givers(u)') = Has(Givers(u)) + 1
        BY <1>20, <3>1, <3>3, <4>2, Gains DEF LexCount
      <4>4. refs'[u] = refs[u]
        BY <1>5, <1>17, <3>1, <3>3
      <4> QED BY <3>1, <4>1, <4>3, <4>4 DEF LexCount, One, Has
    <3>4. CASE u # y /\ u # v
      <4>1. Binders(u)' = Binders(u) /\ Givers(u)' = Givers(u) /\ refs'[u] = refs[u]
        BY <1>5, <1>18, <2>1, <3>1, <3>4
      <4> QED BY <3>1, <4>1 DEF LexCount
    <3> QED BY <3>2, <3>3, <3>4
  <2>4. ASSUME NEW s \in Streams PROVE StreamCount(s)'
    <3>1. s \notin Lexes /\ s # NONE /\ s \in Objects
      BY OwnershipConstants DEF Objects
    <3>2. Covers(s)' = Covers(s) /\ Givers(s)' = Givers(s) /\ refs'[s] = refs[s] /\ StreamCount(s)
      BY <1>2, <1>5, <1>15, <1>18, <3>1 DEF IInv, Holding, Counted
    <3> QED BY <1>3, <3>2 DEF StreamCount
  <2> QED BY <2>3, <2>4 DEF Counted
<1>23. LiveLexes'
  BY <1>2, <1>3, <1>5, <1>13 DEF IInv, Holding, LiveLexes, Live, Objects
<1>24. DoomedHeld'
  BY <1>13 DEF DoomedHeld
<1>25. LiveOuts'
  <2>1. \A o \in OStreams : refs'[o] = refs[o]
    BY <1>5 DEF Objects
  <2> QED BY <1>2, <1>3, <2>1 DEF IInv, Holding, LiveOuts, Live
<1>26. LiveParts'
  BY <1>2, <1>3, <1>4, <1>13 DEF IInv, Holding, LiveParts, Live
<1>27. Order'
  BY <1>6, <1>8, <1>11, NothingPopped DEF Popping
<1>28. Root'
  <2>1. UsableBut(y, {x})'
    BY <1>2, <1>3 DEF UsableBut
  <2>2. RootPush'
    <3> SUFFICES ASSUME NEW k \in 1..Depth', Stack'[k].op \in Pushing
                 PROVE  /\ UsableBut(Stack[k].y, {Stack[k].x})'
                        /\ \/ k = 1 /\ Stack'[k].x \in mine'
                           \/ /\ k = 2 /\ Stack'[1].op = "unistr" /\ Stack'[1].x = Stack'[k].x
                              /\ Stack'[k].x \notin mine' \cup lost'
                        /\ ctxs'[Stack'[k].y] # <<>> /\ Head(ctxs'[Stack'[k].y]) = Stack'[k].x
      BY DEF RootPush
    <3>1. k = D /\ Stack'[k].x = x /\ Stack'[k].y = y
      BY <1>6, <1>8, <1>11 DEF Pushing
    <3>2. UsableBut(Stack[k].y, {Stack[k].x})'
      BY <2>1, <3>1 DEF UsableBut
    <3>3. D = 2 => Stack'[1] = Stack[1]
      BY <1>9 DEF Onward, D
    <3> QED BY <1>2, <1>3, <1>4, <3>1, <3>2, <3>3
  <2>3. RootOut'
    BY <1>6, <1>8, <1>11 DEF RootOut
  <2>4. RootBind'
    <3> SUFFICES ASSUME NEW k \in 1..Depth', Stack'[k].op = "bind"
                 PROVE  k > 1 /\ Stack'[k-1].op = "fill"
                        /\ Stack'[k-1].x = Stack'[k].x /\ Stack'[k-1].y = Stack'[k].y
      BY DEF RootBind
    <3>1. k = D + 1 /\ Stack'[k] = b
      BY <1>6, <1>8, <1>11
    <3>2. k - 1 = D /\ k > 1
      BY <1>1, <3>1
    <3> QED BY <1>6, <1>9, <3>1, <3>2
  <2> QED BY <2>2, <2>3, <2>4 DEF Root
<1> QED BY <1>3, <1>21, <1>22, <1>23, <1>24, <1>25, <1>26, <1>27, <1>28
           DEF IInv, Holding

(* uls_push_istream(), accepted.                                           *)
LEMMA PushOnKeeps ==
  ASSUME IInv, PushOn
  PROVE  IInv'
<1>1. /\ todo # <<>> /\ Depth \in 1..Depth
      /\ Stack[Depth].op = "push" /\ X = Stack[Depth].x /\ Y = Stack[Depth].y
  BY TopStep DEF PushOn, Now, X, Y, IInv, Typed
<1> SUFFICES ASSUME NEW x, x = X, NEW y, y = Y PROVE IInv'
  OBVIOUS
<1>2. x \in Streams /\ y \in Lexes /\ Live(x) /\ Live(y)
  BY <1>1, PushAtTop DEF Pushing
<1>3. /\ ctxs' = [ctxs EXCEPT ![y] = <<x>> \o @]
      /\ UNCHANGED <<st, uls, mine, lost, fds, touched>>
      /\ \/ /\ Go(<<Do2("fill", x, y)>>) \/ Go(<<Do2("undo", x, y)>>)
            /\ UNCHANGED refs
         \/ /\ uls[x] # y /\ refs' = [refs EXCEPT ![y] = @ + 1]
            /\ Go(BindSteps(x, y) \o <<Do2("fill", x, y)>>)
  BY <1>2 DEF PushOn, Touch, IInv
<1>4. ASSUME NEW op \in {"fill", "undo"}, Go(<<Do2(op, x, y)>>), UNCHANGED refs PROVE IInv'
  <2> DEFINE a == Do2(op, x, y)
  <2>1. a \in Entries /\ a.op \in {"fill", "undo"} /\ a.x = x /\ a.y = y
    BY <1>2 DEF Entries, Ops, Pushing, Do2, Objects
  <2>2. Go(<<a>>)
    BY <1>4
  <2> HIDE DEF a
  <2> QED BY <1>1, <1>3, <1>4, <2>1, <2>2, FillKeeps
<1> QED BY <1>1, <1>3, <1>4, RebindKeeps
-----------------------------------------------------------------------------
(* Between two calls nothing waits.                                        *)
LEMMA IdleNothing ==
  ASSUME IInv, Idle
  PROVE  /\ Depth = 0 /\ \A k \in 1..Depth : FALSE
         /\ Doomed = {} /\ Closing = {} /\ Rebinding = {} /\ Clearing = {} /\ Topping = {}
         /\ \A z : Givers(z) = {}
         /\ \A o \in OStreams : Live(o) => o \in mine \cup lost
         /\ \A x \in Lexes \cup Streams : Live(x) <=> refs[x] > 0
<1>1. Depth = 0 /\ \A k \in 1..Depth : FALSE
  BY DEF Idle, Depth
<1>2. /\ Doomed = {} /\ Closing = {} /\ Rebinding = {} /\ Clearing = {} /\ Topping = {}
      /\ \A z : Givers(z) = {}
  BY <1>1 DEF Doomed, Closing, Rebinding, Clearing, Topping, At, Givers
<1>3. \A o \in OStreams : Live(o) => o \in mine \cup lost
  BY <1>1, <1>2 DEF IInv, Holding, LiveOuts
<1> QED BY <1>1, <1>2, <1>3 DEF IInv, Holding, LiveLexes

(* Nobody knows an object that is not there.                               *)
LEMMA NobodyKnows ==
  ASSUME IInv, NEW x \in Objects, ~Live(x)
  PROVE  /\ x \notin mine \cup lost \cup fds
         /\ x \in Lexes \cup Streams => refs[x] = 0 /\ Givers(x) = {}
         /\ x \in Lexes => Binders(x) = {} /\ ctxs[x] = <<>>
         /\ x \in Streams => Covers(x) = {}
         /\ x \in Bound => uls[x] = NONE
<1>1. /\ x \notin fds /\ (x \in Bound => uls[x] = NONE) /\ (x \in Lexes => ctxs[x] = <<>>)
      /\ (x \in OStreams => x \notin mine \cup lost)
  BY DEF IInv, Holding, LiveParts, LiveOuts
<1>2. x \in Lexes \cup Streams => refs[x] = 0
  BY DEF IInv, Typed, Holding, LiveLexes
<1>3. ASSUME x \in Lexes PROVE x \notin mine \cup lost /\ Binders(x) = {} /\ Givers(x) = {}
  <2>1. /\ IsFiniteSet(Binders(x)) /\ IsFiniteSet(Givers(x))
        /\ 0 = One(x \in mine) + Has(Binders(x)) + Has(Givers(x))
    BY <1>2, <1>3 DEF IInv, Holding, Counted, LexCount
  <2>2. Has(Binders(x)) \in Nat /\ Has(Givers(x)) \in Nat
    BY <2>1, HasNat
  <2>3. x \notin mine /\ Has(Binders(x)) = 0 /\ Has(Givers(x)) = 0
    BY <2>1, <2>2 DEF One
  <2>4. x \notin lost
    BY <1>3, OwnershipConstants DEF IInv, Typed, Bound
  <2> QED BY <2>1, <2>3, <2>4, HasNat
<1>4. ASSUME x \in Streams PROVE x \notin mine \cup lost /\ Covers(x) = {} /\ Givers(x) = {}
  <2>1. /\ IsFiniteSet(Covers(x)) /\ IsFiniteSet(Givers(x))
        /\ 0 = One(x \in mine \cup lost) + Has(Covers(x)) + Has(Givers(x))
    BY <1>2, <1>4 DEF IInv, Holding, Counted, StreamCount
  <2>2. Has(Covers(x)) \in Nat /\ Has(Givers(x)) \in Nat
    BY <2>1, HasNat
  <2>3. x \notin mine \cup lost /\ Has(Covers(x)) = 0 /\ Has(Givers(x)) = 0
    BY <2>1, <2>2 DEF One
  <2> QED BY <2>1, <2>3, HasNat
<1> QED BY <1>1, <1>2, <1>3, <1>4 DEF Objects

(* A call that only says what is to be done.                               *)
LEMMA Starts ==
  ASSUME IInv, Idle, todo' \in Seq(Entries), \A k \in 1..Depth' : StepOK(Stack'[k]),
         \A k \in 1..Depth' : Stack'[k].op \in {"pop", "popall", "push"},
         UNCHANGED <<st, refs, uls, ctxs, mine, lost, fds, touched>>
  PROVE  Typed' /\ touched' = FALSE /\ Holding' /\ Steady'
<1>1. /\ Doomed' = {} /\ Closing' = {} /\ Rebinding' = {} /\ Topping' = {}
      /\ \A z : Givers(z)' = {}
  BY DEF Doomed, Closing, Rebinding, Topping, At, Givers, Gives
<1>2. /\ Doomed = {} /\ Closing = {} /\ Rebinding = {} /\ Topping = {} /\ \A z : Givers(z) = {}
      /\ \A o \in OStreams : Live(o) => o \in mine \cup lost
  BY IdleNothing
<1>3. Typed'
  BY DEF IInv, Typed, StepOK
<1>4. Counted'
  BY <1>1, <1>2, BindersKept, CoversKept
     DEF IInv, Holding, Counted, LexCount, StreamCount
<1>5. LiveLexes' /\ LiveOuts' /\ LiveParts' /\ DoomedHeld'
  BY <1>1, <1>2 DEF IInv, Holding, LiveLexes, LiveOuts, LiveParts, DoomedHeld, Live
<1> QED BY <1>3, <1>4, <1>5 DEF IInv, Holding, Steady

(* uls_pop() and uls_pop_all() by the caller.                              *)
LEMMA PopCallKeeps ==
  ASSUME IInv, NEW u \in Lexes, Pop(u) \/ PopAll(u)
  PROVE  IInv'
<1>1. PICK op \in {"pop", "popall"} : todo' = <<Do(op, u)>>
  BY DEF Pop, PopAll, Call
<1>2. Idle /\ Usable(u) /\ UNCHANGED <<st, refs, uls, ctxs, mine, lost, fds, touched>>
  BY DEF Pop, PopAll
<1> DEFINE a == Do(op, u)
<1>3. a \in Entries /\ a.op \in {"pop", "popall"} /\ a.x = u
  BY DEF Entries, Ops, Popping, Objects, Do
<1>4. todo' = <<a>>
  BY <1>1
<1> HIDE DEF a
<1>5. todo' \in Seq(Entries) /\ Depth' = 1 /\ Stack'[1] = a
  BY <1>3, <1>4, StartOne
<1>6. \A k \in 1..Depth' : Stack'[k] = a
  BY <1>5
<1>7. Typed' /\ touched' = FALSE /\ Holding' /\ Steady'
  <2>1. StepOK(a)
    BY <1>3 DEF StepOK, Popping, Pushing
  <2> QED BY <1>2, <1>3, <1>5, <1>6, <2>1, Starts
<1>8. Order'
  <2>1. OrderPop'
    <3>1. Usable(u)'
      BY <1>2 DEF Usable, UsableBut
    <3>2. \A k \in 1..Depth' : Stack'[k].x = u
      BY <1>3, <1>6
    <3> QED BY <1>7, <3>1, <3>2 DEF OrderPop, Usable, UsableBut
  <2> QED BY <1>3, <1>5, <1>6, <2>1
             DEF Order, OrderFree, OrderClose, OrderOnce, OrderAll, OrderTop
<1>9. Root'
  BY <1>3, <1>6 DEF Root, RootPush, RootOut, RootBind, Pushing
<1> QED BY <1>7, <1>8, <1>9 DEF IInv

(* uls_push_istream() and uls_set_istream() by the caller.                 *)
LEMMA PushCallKeeps ==
  ASSUME CarefulCaller, IInv, NEW u \in Lexes, NEW s \in Streams, PushIstream(u, s) \/ SetIstream(u, s)
  PROVE  IInv'
<1> DEFINE a == Do2("push", s, u)
           b == Do("pop", u)
<1>1. /\ Idle /\ UsableBut(u, {s}) /\ s \in mine
      /\ UNCHANGED <<st, refs, uls, ctxs, mine, lost, fds, touched>>
      /\ todo' = <<a>> \/ todo' = <<b, a>>
  BY DEF PushIstream, SetIstream, MayPush, Call, CarefulCaller
<1>2. /\ a \in Entries /\ a.op = "push" /\ a.x = s /\ a.y = u
      /\ b \in Entries /\ b.op = "pop" /\ b.x = u
  BY DEF Entries, Ops, Popping, Pushing, Objects, Do, Do2
<1> HIDE DEF a, b
<1>3. /\ todo' \in Seq(Entries) /\ Depth' \in 1..2 /\ Stack'[1] = a
      /\ Depth' = 2 => Stack'[2] = b
  <2>1. CASE todo' = <<a>>
    BY <1>2, <2>1, StartOne
  <2>2. CASE todo' = <<b, a>>
    BY <1>2, <2>2, StartTwo
  <2> QED BY <1>1, <2>1, <2>2
<1>4. \A k \in 1..Depth' : (k = 1 /\ Stack'[k] = a) \/ (k = 2 /\ Stack'[k] = b)
  BY <1>3
<1>5. Typed' /\ touched' = FALSE /\ Holding' /\ Steady'
  <2>1. StepOK(a) /\ StepOK(b)
    BY <1>2 DEF StepOK, Popping, Pushing
  <2> QED BY <1>1, <1>2, <1>3, <1>4, <2>1, Starts
<1>6. UsableBut(u, {s})' /\ Usable(u)'
  BY <1>1 DEF Usable, UsableBut
<1>7. Order'
  <2>1. OrderPop'
    <3> SUFFICES ASSUME NEW k \in 1..Depth', Stack'[k].op \in Popping
                 PROVE  (Steady /\ Usable(Stack[k].x))'
      BY DEF OrderPop
    <3>1. Stack'[k].x = u
      BY <1>2, <1>4 DEF Popping
    <3> QED BY <1>5, <1>6, <3>1 DEF Usable, UsableBut
  <2> QED BY <1>2, <1>4, <2>1
             DEF Order, OrderFree, OrderClose, OrderOnce, OrderAll, OrderTop, Popping
<1>8. Root'
  <2>1. RootPush'
    <3> SUFFICES ASSUME NEW k \in 1..Depth', Stack'[k].op \in Pushing
                 PROVE  /\ UsableBut(Stack[k].y, {Stack[k].x})'
                        /\ k = 1 /\ Stack'[k].x \in mine'
                        /\ Stack'[k].op = "push"
      BY DEF RootPush
    <3>1. k = 1 /\ Stack'[k].x = s /\ Stack'[k].y = u /\ Stack'[k].op = "push"
      BY <1>2, <1>4 DEF Pushing
    <3> QED BY <1>1, <1>6, <3>1 DEF UsableBut
  <2> QED BY <1>2, <1>4, <2>1 DEF Root, RootOut, RootBind
<1> QED BY <1>5, <1>7, <1>8 DEF IInv

(* uls_push_line(): the context has no source to hold.                     *)
LEMMA LineKeeps ==
  ASSUME IInv, NEW u \in Lexes, PushLine(u)
  PROVE  IInv'
<1>1. /\ Idle /\ ctxs' = [ctxs EXCEPT ![u] = <<Line>> \o @]
      /\ UNCHANGED <<st, refs, uls, mine, lost, fds, todo, touched>>
  BY DEF PushLine, MayPush
<1>2. /\ Depth = 0 /\ (\A k \in 1..Depth : FALSE) /\ Doomed = {} /\ Rebinding = {} /\ Topping = {}
  BY <1>1, IdleNothing
<1>3. Live(u)
  <2>1. UsableBut(u, {})
    BY DEF PushLine, MayPush
  <2> QED BY <1>2, <2>1, UsableLive
<1>4. /\ Depth' = Depth /\ Stack' = Stack /\ Doomed' = Doomed /\ Closing' = Closing
      /\ Rebinding' = Rebinding /\ Clearing' = Clearing /\ Topping' = Topping
      /\ \A z : Givers(z)' = Givers(z)
  BY <1>1
     DEF Depth, Stack, Doomed, Closing, Rebinding, Clearing, At, Topping, Givers, Gives
<1>5. \A k \in 1..Depth' : FALSE
  BY <1>2, <1>4
<1>6. ASSUME NEW L, L = Len(ctxs[u])
      PROVE  /\ ctxs' \in [Lexes -> Seq(Streams \cup {Line})]
             /\ \A w \in Lexes : w # u => ctxs'[w] = ctxs[w]
             /\ \A s \in Streams : Covers(s)' = Covers(s)
  <2>1. /\ ctxs' \in [Lexes -> Seq(Streams \cup {Line})]
        /\ \A w \in Lexes : w # u => ctxs'[w] = ctxs[w]
        /\ <<u, L + 1>> \notin Places /\ Places' = Places \cup {<<u, L + 1>>}
        /\ Source(<<u, L + 1>>)' = Line
        /\ \A p \in Places : Source(p)' = Source(p)
    BY <1>1, <1>6, Prepended DEF IInv, Typed
  <2>2. \A s : Covers(s) = {p \in Places : Source(p) = s}
    BY <1>2 DEF Covers
  <2>3. \A s : Covers(s)' = {p \in Places' : Source(p)' = s}
    BY <1>2, <1>4 DEF Covers
  <2>4. \A s \in Streams : s # Line
    BY OwnershipConstants DEF Objects
  <2>5. ASSUME NEW s \in Streams PROVE Covers(s)' = Covers(s)
    <3>1. \A p : p \in Covers(s)' <=> p \in Covers(s)
      BY <2>1, <2>2, <2>3, <2>4
    <3> QED BY <2>2, <2>3, <3>1
  <2> QED BY <2>1, <2>5
<1>7. Typed'
  BY <1>1, <1>5, <1>6 DEF IInv, Typed
<1>8. Counted'
  BY <1>1, <1>4, <1>6, BindersKept DEF IInv, Holding, Counted, LexCount, StreamCount
<1>9. LiveLexes' /\ LiveParts'
  BY <1>1, <1>3, <1>4, <1>6 DEF IInv, Holding, LiveLexes, LiveParts, Live
<1>10. LiveOuts' /\ DoomedHeld'
  BY <1>1, <1>2, <1>4 DEF IInv, Holding, LiveOuts, DoomedHeld, Live
<1>11. Order' /\ Root'
  BY <1>5, NothingPopped DEF Root, RootPush, RootOut, RootBind
<1> QED BY <1>1, <1>7, <1>8, <1>9, <1>10, <1>11 DEF IInv, Holding
(* uls_create().                                                           *)
LEMMA CreateKeeps ==
  ASSUME IInv, NEW u \in Lexes, Create(u)
  PROVE  IInv'
<1>1. /\ Idle /\ ~Live(u) /\ st' = [st EXCEPT ![u] = "live"] /\ refs' = [refs EXCEPT ![u] = 1]
      /\ mine' = mine \cup {u} /\ UNCHANGED <<uls, ctxs, lost, fds, todo, touched>>
      /\ u \in Objects /\ u \notin Bound
  BY OwnershipConstants DEF Create, Live, Objects, Bound
<1>2. /\ \A k \in 1..Depth : FALSE
      /\ Doomed = {} /\ Closing = {} /\ Rebinding = {} /\ Topping = {} /\ \A z : Givers(z) = {}
      /\ \A o \in OStreams : Live(o) => o \in mine \cup lost
  BY <1>1, IdleNothing
<1>3. u \notin mine \cup lost /\ Binders(u) = {} /\ ctxs[u] = <<>>
  BY <1>1, NobodyKnows
<1>4. /\ Depth' = Depth /\ Stack' = Stack /\ Doomed' = Doomed /\ Closing' = Closing
      /\ Rebinding' = Rebinding /\ Clearing' = Clearing /\ Topping' = Topping
      /\ \A z : Givers(z)' = Givers(z)
  BY <1>1
     DEF Depth, Stack, Doomed, Closing, Rebinding, Clearing, At, Topping, Givers, Gives
<1>5. /\ refs' \in [Objects -> Nat] /\ refs'[u] = 1 /\ \A z \in Objects : z # u => refs'[z] = refs[z]
      /\ st' \in [Objects -> {"none", "live", "freed"}] /\ st'[u] = "live"
      /\ \A z \in Objects : z # u => st'[z] = st[z]
  BY <1>1 DEF IInv, Typed
<1>6. \A k \in 1..Depth' : FALSE
  BY <1>2, <1>4
<1>7. Typed'
  BY <1>1, <1>5, <1>6 DEF IInv, Typed
<1>8. Counted'
  <2>1. ASSUME NEW w \in Lexes PROVE LexCount(w)'
    <3>1. Binders(w)' = Binders(w) /\ Givers(w)' = {} /\ Givers(w) = {} /\ LexCount(w) /\ w \in Objects
      BY <1>1, <1>2, <1>4, BindersKept DEF IInv, Holding, Counted, Objects
    <3>2. CASE w = u
      <4>1. IsFiniteSet({}) /\ Has({}) = 0
        BY FS_EmptySet DEF Has
      <4>2. Binders(w)' = {} /\ refs'[w] = 1 /\ w \in mine'
        BY <1>1, <1>3, <1>5, <3>1, <3>2
      <4> QED BY <3>1, <4>1, <4>2 DEF LexCount, One, Has
    <3>3. CASE w # u
      BY <1>1, <1>5, <3>1, <3>3 DEF LexCount, One
    <3> QED BY <3>2, <3>3
  <2>2. ASSUME NEW s \in Streams PROVE StreamCount(s)'
    <3>1. s # u /\ s \in Objects
      BY OwnershipConstants DEF Objects
    <3> QED BY <1>1, <1>4, <1>5, <3>1, CoversKept
               DEF IInv, Holding, Counted, StreamCount, One
  <2> QED BY <2>1, <2>2 DEF Counted
<1>9. LiveLexes'
  BY <1>1, <1>2, <1>4, <1>5 DEF IInv, Holding, LiveLexes, Live, Objects
<1>10. LiveOuts'
  <2>1. \A o \in OStreams : o # u /\ o \in Objects
    BY OwnershipConstants DEF Objects
  <2> QED BY <1>1, <1>2, <1>5, <2>1 DEF IInv, Holding, LiveOuts, Live
<1>11. LiveParts'
  <2>1. mine' \cap lost' = {}
    BY <1>1, <1>3 DEF IInv, Holding, LiveParts
  <2>2. \A s \in Bound : s \in Objects /\ s # u
    BY <1>1 DEF Bound, Objects
  <2>3. \A s \in fds : s \in Objects /\ s # u
    BY <2>2 DEF IInv, Typed
  <2> QED BY <1>1, <1>2, <1>4, <1>5, <2>1, <2>2, <2>3
             DEF IInv, Holding, LiveParts, Live, Objects
<1>12. DoomedHeld'
  BY <1>2, <1>4 DEF DoomedHeld
<1>13. Order' /\ Root'
  BY <1>6, NothingPopped DEF Root, RootPush, RootOut, RootBind
<1> QED BY <1>1, <1>7, <1>8, <1>9, <1>10, <1>11, <1>12, <1>13 DEF IInv, Holding

(* uls_destroy(), uls_destroy_istream() and uls_destroy_ostream() by the   *)
(* caller, whose reference becomes the call's.                             *)
LEMMA DestroyKeeps ==
  ASSUME IInv, NEW x \in Objects, Destroy(x)
  PROVE  IInv'
<1> DEFINE a == Do(IF x \in Lexes THEN "unlex" ELSE IF x \in Streams THEN "unistr" ELSE "unostr", x)
<1>1. /\ Idle /\ x \in mine /\ todo' = <<a>> /\ mine' = mine \ {x}
      /\ UNCHANGED <<st, refs, uls, ctxs, lost, fds, touched>>
  BY DEF Destroy, Call
<1>2. /\ a \in Entries /\ a.x = x /\ a.op \in {"unlex", "unistr", "unostr"}
      /\ (a.op = "unlex" <=> x \in Lexes) /\ (a.op = "unistr" <=> x \in Streams)
      /\ (a.op = "unostr" <=> x \in OStreams)
  BY OwnershipConstants DEF Entries, Ops, Objects, Do
<1> HIDE DEF a
<1>3. todo' \in Seq(Entries) /\ Depth' = 1 /\ Stack'[1] = a
  BY <1>1, <1>2, StartOne
<1>4. \A k \in 1..Depth' : k = 1 /\ Stack'[k] = a
  BY <1>3
<1>5. /\ Doomed = {} /\ Closing = {} /\ Rebinding = {} /\ Topping = {} /\ \A z : Givers(z) = {}
      /\ \A o \in OStreams : Live(o) => o \in mine \cup lost
  BY <1>1, IdleNothing
<1>6. /\ Doomed' = {} /\ Closing' = {} /\ Rebinding' = {} /\ Topping' = {}
  BY <1>2, <1>4 DEF Doomed, Closing, Rebinding, Topping, At
<1>7. \A z : Givers(z)' = IF z = x /\ x \notin OStreams THEN {1} ELSE {}
  <2>1. \A z : Gives(a, z) <=> z = x /\ x \notin OStreams
    BY <1>2, OwnershipConstants DEF Gives, Objects
  <2>2. \A z : Givers(z)' = {k \in 1..Depth' : Gives(Stack'[k], z)}
    BY DEF Givers, Gives
  <2> QED BY <1>3, <2>1, <2>2
<1>8. x \notin lost
  BY <1>1 DEF IInv, Holding, LiveParts
<1>9. Typed'
  <2>1. StepOK(a)
    BY <1>2 DEF StepOK, Popping, Pushing
  <2> QED BY <1>1, <1>3, <1>4, <2>1 DEF IInv, Typed, StepOK
<1>10. Counted'
  <2>1. IsFiniteSet({1}) /\ Has({1}) = 1 /\ IsFiniteSet({}) /\ Has({}) = 0
    BY FS_Singleton, FS_EmptySet DEF Has
  <2>2. ASSUME NEW u \in Lexes PROVE LexCount(u)'
    <3>1. Binders(u)' = Binders(u) /\ Givers(u) = {} /\ LexCount(u) /\ Has(Binders(u)) \in Nat
      BY <1>1, <1>5, <1>6, BindersKept, CountedNat DEF IInv, Holding, Counted
    <3>2. CASE u = x
      <4>1. Givers(u)' = {1} /\ u \in mine /\ u \notin mine' /\ refs' = refs
        BY <1>1, <1>7, <3>2, OwnershipConstants
      <4> QED BY <2>1, <3>1, <4>1 DEF LexCount, One, Has
    <3>3. CASE u # x
      <4>1. Givers(u)' = {} /\ (u \in mine' <=> u \in mine)
        BY <1>1, <1>7, <3>3
      <4> QED BY <1>1, <3>1, <4>1 DEF LexCount, One
    <3> QED BY <3>2, <3>3
  <2>3. ASSUME NEW s \in Streams PROVE StreamCount(s)'
    <3>1. Covers(s)' = Covers(s) /\ Givers(s) = {} /\ StreamCount(s) /\ Has(Covers(s)) \in Nat
      BY <1>1, <1>5, <1>6, CoversKept, CountedNat DEF IInv, Holding, Counted
    <3>2. CASE s = x
      <4>1. Givers(s)' = {1} /\ s \in mine /\ s \notin mine' \cup lost' /\ refs' = refs
        BY <1>1, <1>7, <1>8, <3>2, OwnershipConstants
      <4> QED BY <2>1, <3>1, <4>1 DEF StreamCount, One, Has
    <3>3. CASE s # x
      <4>1. Givers(s)' = {} /\ (s \in mine' \cup lost' <=> s \in mine \cup lost)
        BY <1>1, <1>7, <3>3
      <4> QED BY <1>1, <3>1, <4>1 DEF StreamCount, One
    <3> QED BY <3>2, <3>3
  <2> QED BY <2>2, <2>3 DEF Counted
<1>11. LiveLexes' /\ LiveParts' /\ DoomedHeld'
  BY <1>1, <1>5, <1>6 DEF IInv, Holding, LiveLexes, LiveParts, DoomedHeld, Live
<1>12. LiveOuts'
  <2>1. x \in OStreams => \E k \in 1..Depth' : Stack'[k].op = "unostr" /\ Stack'[k].x = x
    BY <1>2, <1>3
  <2> QED BY <1>1, <1>5, <2>1 DEF IInv, Holding, LiveOuts, Live
<1>13. Order'
  BY <1>2, <1>4, NothingPopped DEF Popping
<1>14. Root'
  <2>1. x \in OStreams => st'[x] = "live" /\ refs'[x] = 1
    BY <1>1 DEF IInv, Holding, LiveOuts, Live
  <2>2. RootOut'
    <3> SUFFICES ASSUME NEW k \in 1..Depth', Stack'[k].op = "unostr"
                 PROVE  /\ Depth' = 1 /\ st'[Stack'[k].x] = "live" /\ refs'[Stack'[k].x] = 1
                        /\ Stack'[k].x \notin mine' \cup lost'
      BY DEF RootOut, Live
    <3>1. Stack'[k].x = x /\ x \in OStreams
      BY <1>2, <1>4
    <3> QED BY <1>1, <1>3, <1>8, <2>1, <3>1
  <2> QED BY <1>2, <1>4, <2>2 DEF Root, RootPush, RootBind, Pushing
<1> QED BY <1>1, <1>9, <1>10, <1>11, <1>12, <1>13, <1>14 DEF IInv, Holding

(* A stream that is opened, with its analyser: held by the caller, or by   *)
(* the call that will give it back.                                        *)
LEMMA OpenedHeld ==
  ASSUME IInv, Idle, NEW s \in Streams, NEW own \in Lexes \cup {NONE}, NEW closes \in BOOLEAN,
         Opened(s, own, closes), UNCHANGED <<ctxs, lost, touched>>,
         todo' \in Seq(Entries), \A k \in 1..Depth' : StepOK(Stack'[k]),
         \A k \in 1..Depth' : Stack'[k].op \in {"pop", "push"} \/ (k = 1 /\ Stack'[k].op = "unistr"),
         \/ mine' = mine \cup {s} /\ \A k \in 1..Depth' : FALSE
         \/ mine' = mine /\ 1 \in 1..Depth' /\ Stack'[1].op = "unistr" /\ Stack'[1].x = s
  PROVE  Typed' /\ touched' = FALSE /\ Holding'
<1>1. /\ s \in Objects /\ s \in Bound /\ s \notin Lexes /\ s \notin OStreams /\ s # own
      /\ own # NONE => own \in Lexes /\ own \in Objects /\ own \notin Bound /\ own \notin OStreams
  BY OwnershipConstants DEF Objects, Bound
<1>2. /\ ~Live(s) /\ (own # NONE => ~Live(own))
      /\ st' = [x \in Objects |-> IF x \in {s, own} THEN "live" ELSE st[x]]
      /\ refs' = [x \in Objects |-> IF x \in {s, own} THEN 1 ELSE refs[x]]
      /\ uls' = [uls EXCEPT ![s] = own]
      /\ fds' = IF closes THEN fds \cup {s} ELSE fds
  BY DEF Opened, Live
<1>3. /\ Doomed = {} /\ Closing = {} /\ Rebinding = {} /\ Topping = {} /\ \A z : Givers(z) = {}
      /\ \A o \in OStreams : Live(o) => o \in mine \cup lost
  BY IdleNothing
<1>4. /\ s \notin mine \cup lost /\ Covers(s) = {}
      /\ own # NONE => own \notin mine \cup lost /\ Binders(own) = {}
  BY <1>1, <1>2, NobodyKnows
<1>5. Doomed' = {} /\ Closing' = {} /\ Rebinding' = {} /\ Topping' = {}
  BY DEF Doomed, Closing, Rebinding, Topping, At
<1>6. /\ \A z : z # s => Givers(z)' = {}
      /\ IF s \in mine' THEN mine' = mine \cup {s} /\ Givers(s)' = {} ELSE mine' = mine /\ Givers(s)' = {1}
  <2>1. \A z : Givers(z)' = {k \in 1..Depth' : Gives(Stack'[k], z)}
    BY DEF Givers, Gives
  <2>2. CASE mine' = mine \cup {s} /\ \A k \in 1..Depth' : FALSE
    BY <2>1, <2>2
  <2>3. CASE mine' = mine /\ 1 \in 1..Depth' /\ Stack'[1].op = "unistr" /\ Stack'[1].x = s
    <3>1. \A z : \A k \in 1..Depth' : Gives(Stack'[k], z) <=> k = 1 /\ z = s
      BY <2>3 DEF Gives
    <3> QED BY <1>4, <2>1, <2>3, <3>1
  <2> QED BY <2>2, <2>3
<1>7. \A x \in Objects : x \notin {s, own} => st'[x] = st[x] /\ refs'[x] = refs[x]
  BY <1>2
<1>8. st'[s] = "live" /\ refs'[s] = 1 /\ (own # NONE => st'[own] = "live" /\ refs'[own] = 1)
  BY <1>1, <1>2
<1>9. uls' \in [Bound -> Lexes \cup {NONE}] /\ uls'[s] = own /\ \A x \in Bound : x # s => uls'[x] = uls[x]
  BY <1>1, <1>2 DEF IInv, Typed
<1>10. Typed'
  <2>1. /\ st' \in [Objects -> {"none", "live", "freed"}] /\ refs' \in [Objects -> Nat]
    BY <1>2 DEF IInv, Typed
  <2>2. mine' \subseteq Objects /\ lost' \subseteq Bound /\ fds' \subseteq Bound
    BY <1>1, <1>2, <1>6 DEF IInv, Typed
  <2> QED BY <1>9, <2>1, <2>2 DEF IInv, Typed, StepOK
<1>11. Counted'
  <2>1. IsFiniteSet({1}) /\ Has({1}) = 1 /\ IsFiniteSet({}) /\ Has({}) = 0
        /\ IsFiniteSet({s}) /\ Has({s}) = 1
    BY FS_Singleton, FS_EmptySet DEF Has
  <2>2. ASSUME NEW u \in Lexes PROVE LexCount(u)'
    <3>1. Givers(u) = {} /\ Givers(u)' = {} /\ LexCount(u) /\ u # s /\ u # NONE /\ u \in Objects
          /\ (u \in mine' <=> u \in mine)
      BY <1>1, <1>3, <1>6, OwnershipConstants DEF IInv, Holding, Counted, Objects
    <3>2. CASE u = own
      <4>1. Binders(u)' = {s} /\ u \notin mine
        <5>1. \A z \in Binders(u)' : z = s
          BY <1>3, <1>4, <1>9, <3>1, <3>2 DEF Binders
        <5>2. s \in Binders(u)'
          BY <1>1, <1>5, <1>9, <3>2 DEF Binders
        <5> QED BY <1>4, <3>1, <3>2, <5>1, <5>2
      <4>2. refs'[u] = 1
        BY <1>8, <3>1, <3>2
      <4> QED BY <2>1, <3>1, <4>1, <4>2 DEF LexCount, One, Has
    <3>3. CASE u # own
      <4>1. Binders(u)' = Binders(u)
        <5>1. uls[s] = NONE
          BY <1>1, <1>2, NobodyKnows
        <5> QED BY <1>3, <1>5, <1>9, <3>1, <3>3, <5>1 DEF Binders
      <4>2. refs'[u] = refs[u]
        BY <1>7, <3>1, <3>3
      <4> QED BY <3>1, <4>1, <4>2 DEF LexCount, One
    <3> QED BY <3>2, <3>3
  <2>3. ASSUME NEW z \in Streams PROVE StreamCount(z)'
    <3>1. Givers(z) = {} /\ Covers(z)' = Covers(z) /\ StreamCount(z) /\ z # own /\ z \in Objects
      BY <1>1, <1>3, <1>5, CoversKept, OwnershipConstants
         DEF IInv, Holding, Counted, Objects
    <3>2. CASE z = s
      <4>1. Covers(z)' = {} /\ refs'[z] = 1 /\ z \notin lost'
        BY <1>4, <1>8, <3>1, <3>2
      <4>2. CASE z \in mine'
        <5>1. Givers(z)' = {}
          BY <1>6, <3>2, <4>2 DEF Givers, Gives
        <5> QED BY <2>1, <4>1, <4>2, <5>1 DEF StreamCount, One, Has
      <4>3. CASE z \notin mine'
        <5>1. Givers(z)' = {1}
          BY <1>6, <3>2, <4>3 DEF Givers, Gives
        <5> QED BY <2>1, <4>1, <4>3, <5>1 DEF StreamCount, One, Has
      <4> QED BY <4>2, <4>3
    <3>3. CASE z # s
      <4>1. Givers(z)' = {} /\ refs'[z] = refs[z] /\ (z \in mine' \cup lost' <=> z \in mine \cup lost)
        BY <1>6, <1>7, <3>1, <3>3
      <4> QED BY <3>1, <4>1 DEF StreamCount, One
    <3> QED BY <3>2, <3>3
  <2> QED BY <2>2, <2>3 DEF Counted
<1>12. LiveLexes'
  <2> SUFFICES ASSUME NEW x \in Lexes \cup Streams
               PROVE  /\ refs'[x] > 0 => st'[x] = "live"
                      /\ st'[x] = "live" => refs'[x] > 0
    BY DEF LiveLexes, Live
  <2>1. x \in Objects
    BY DEF Objects
  <2>2. CASE x \in {s, own}
    <3>1. x # NONE
      BY <2>1, OwnershipConstants
    <3> QED BY <1>8, <2>2, <3>1
  <2>3. CASE x \notin {s, own}
    BY <1>3, <1>7, <2>1, <2>3 DEF IInv, Holding, LiveLexes, Live
  <2> QED BY <2>2, <2>3
<1>13. LiveOuts'
  <2>1. \A o \in OStreams : o \in Objects /\ o \in Bound /\ o \notin {s, own}
    BY <1>1, OwnershipConstants DEF Objects, Bound
  <2>2. \A o \in OStreams : o \in mine' <=> o \in mine
    BY <1>1, <1>6
  <2> QED BY <1>3, <1>7, <1>9, <2>1, <2>2 DEF IInv, Holding, LiveOuts, Live
<1>14. LiveParts'
  <2>1. mine' \cap lost' = {}
    BY <1>4, <1>6 DEF IInv, Holding, LiveParts
  <2>2. \A x \in Objects : Live(x) => st'[x] = "live"
    BY <1>2 DEF Live
  <2>3. \A x \in Bound : uls'[x] # NONE => st'[x] = "live"
    BY <1>8, <1>9, <2>2 DEF IInv, Holding, LiveParts, Bound, Objects
  <2>4. \A u \in Lexes : st'[u] # "live" => ctxs'[u] = <<>>
    BY <2>2 DEF IInv, Holding, LiveParts, Objects
  <2>5. \A x \in fds' : st'[x] = "live"
    BY <1>2, <1>8, <2>2 DEF IInv, Typed, Holding, LiveParts, Bound, Objects
  <2> QED BY <1>5, <2>1, <2>3, <2>4, <2>5 DEF LiveParts, Live
<1>15. DoomedHeld'
  BY <1>5 DEF DoomedHeld
<1> QED BY <1>10, <1>11, <1>12, <1>13, <1>14, <1>15 DEF IInv, Holding
(* uls_open_istream() and what is opened over it, by the caller.           *)
LEMMA OpenKeeps ==
  ASSUME IInv, NEW s \in Streams, OpenIstream(s)
  PROVE  IInv'
<1>1. PICK own \in Lexes \cup {NONE}, closes \in BOOLEAN : Opened(s, own, closes)
  BY DEF OpenIstream
<1>2. Idle /\ mine' = mine \cup {s} /\ UNCHANGED <<ctxs, lost, todo, touched>>
  BY DEF OpenIstream
<1>3. todo' \in Seq(Entries) /\ \A k \in 1..Depth' : FALSE
  <2>1. todo' = <<>>
    BY <1>2 DEF Idle
  <2> QED BY <2>1, StartNone
<1>4. Typed' /\ touched' = FALSE /\ Holding'
  BY <1>1, <1>2, <1>3, OpenedHeld
<1>5. Order' /\ Root'
  BY <1>3, NothingPopped DEF Root, RootPush, RootOut, RootBind
<1> QED BY <1>4, <1>5 DEF IInv

(* uls_push_file() and its like, which open the stream themselves.         *)
LEMMA FileKeeps ==
  ASSUME CarefulCaller, IInv, NEW u \in Lexes, NEW s \in Streams, PushFile(u, s)
  PROVE  IInv'
<1> DEFINE a == Do("unistr", s)
           b == Do2("push", s, u)
           c == Do("pop", u)
<1>1. PICK own \in Lexes \cup {NONE}, closes \in BOOLEAN : Opened(s, own, closes)
  BY DEF PushFile
<1>2. Idle /\ UsableBut(u, {}) /\ mine' = mine /\ UNCHANGED <<ctxs, lost, touched>>
  BY DEF PushFile, MayPush, CarefulCaller
<1>3. todo' = <<>> \o <<b, a>> \/ todo' = <<c>> \o <<b, a>>
  BY DEF PushFile, Call
<1>4. /\ a \in Entries /\ a.op = "unistr" /\ a.x = s
      /\ b \in Entries /\ b.op = "push" /\ b.x = s /\ b.y = u
      /\ c \in Entries /\ c.op = "pop" /\ c.x = u
  BY DEF Entries, Ops, Popping, Pushing, Objects, Do, Do2
<1> HIDE DEF a, b, c
<1>5. todo' = <<b, a>> \/ todo' = <<c, b, a>>
  <2> DEFINE n == <<b, a>>
  <2>1. n \in Seq(Entries)
    BY <1>4
  <2>2. todo' = <<>> \o n \/ todo' = <<c>> \o <<b, a>>
    BY <1>3
  <2> HIDE DEF n
  <2>3. <<>> \o n = n
    BY <2>1, ConcatEmptySeq
  <2>4. <<c>> \o <<b, a>> = <<c, b, a>>
    BY <1>4, JoinsTwo
  <2> QED BY <2>2, <2>3, <2>4 DEF n
<1>6. /\ todo' \in Seq(Entries) /\ Depth' \in 2..3 /\ Stack'[1] = a /\ Stack'[2] = b
      /\ Depth' = 3 => Stack'[3] = c
  <2>1. CASE todo' = <<b, a>>
    BY <1>4, <2>1, StartTwo
  <2>2. CASE todo' = <<c, b, a>>
    BY <1>4, <2>2, StartThree
  <2> QED BY <1>5, <2>1, <2>2
<1>7. \A k \in 1..Depth' : \/ k = 1 /\ Stack'[k] = a
                           \/ k = 2 /\ Stack'[k] = b
                           \/ k = 3 /\ Stack'[k] = c
  BY <1>6
<1>8. s \notin mine \cup lost
  BY <1>1, NobodyKnows DEF Opened, Live, Objects
<1>9. Typed' /\ touched' = FALSE /\ Holding'
  <2>1. StepOK(a) /\ StepOK(b) /\ StepOK(c)
    BY <1>4 DEF StepOK, Popping, Pushing
  <2>2. \A k \in 1..Depth' : StepOK(Stack'[k])
    BY <1>7, <2>1
  <2>3. \A k \in 1..Depth' : Stack'[k].op \in {"pop", "push"} \/ (k = 1 /\ Stack'[k].op = "unistr")
    BY <1>4, <1>7
  <2>4. 1 \in 1..Depth' /\ Stack'[1].op = "unistr" /\ Stack'[1].x = s
    BY <1>4, <1>6
  <2> QED BY <1>1, <1>2, <1>6, <2>2, <2>3, <2>4, OpenedHeld
<1>10. Steady'
  BY <1>4, <1>7 DEF Steady
<1>11. UsableBut(u, {s})' /\ Usable(u)'
  <2>1. \A z \in Bound : z # s => uls'[z] = uls[z]
    BY <1>1 DEF Opened, IInv, Typed
  <2> QED BY <1>2, <1>8, <2>1 DEF Usable, UsableBut
<1>12. Order'
  <2>1. OrderPop'
    <3> SUFFICES ASSUME NEW k \in 1..Depth', Stack'[k].op \in Popping
                 PROVE  (Steady /\ Usable(Stack[k].x))'
      BY DEF OrderPop
    <3>1. Stack'[k].x = u
      BY <1>4, <1>7 DEF Popping
    <3> QED BY <1>10, <1>11, <3>1 DEF Usable, UsableBut
  <2> QED BY <1>4, <1>7, <2>1
             DEF Order, OrderFree, OrderClose, OrderOnce, OrderAll, OrderTop, Popping
<1>13. Root'
  <2>1. RootPush'
    <3> SUFFICES ASSUME NEW k \in 1..Depth', Stack'[k].op \in Pushing
                 PROVE  /\ UsableBut(Stack[k].y, {Stack[k].x})'
                        /\ k = 2 /\ Stack'[1].op = "unistr" /\ Stack'[1].x = Stack'[k].x
                        /\ Stack'[k].x \notin mine' \cup lost'
                        /\ Stack'[k].op = "push"
      BY DEF RootPush
    <3>1. k = 2 /\ Stack'[k].x = s /\ Stack'[k].y = u /\ Stack'[k].op = "push"
      BY <1>4, <1>7 DEF Pushing
    <3>2. UsableBut(Stack[k].y, {Stack[k].x})'
      BY <1>11, <3>1 DEF UsableBut
    <3> QED BY <1>2, <1>4, <1>6, <1>8, <3>1, <3>2
  <2> QED BY <1>4, <1>7, <2>1 DEF Root, RootOut, RootBind
<1> QED BY <1>9, <1>12, <1>13 DEF IInv

(* uls_bind_istream() by the caller.                                       *)
LEMMA BindCallKeeps ==
  ASSUME IInv, NEW s \in Streams, NEW u \in Lexes \cup {NONE}, BindIstream(s, u)
  PROVE  IInv'
<1> DEFINE a == Do2("bind", s, u)
<1>1. /\ Idle /\ s \in mine /\ uls[s] # u /\ (u = NONE \/ Usable(u))
      /\ refs' = (IF u = NONE THEN refs ELSE [refs EXCEPT ![u] = @ + 1])
      /\ todo' = BindSteps(s, u)
      /\ UNCHANGED <<st, uls, ctxs, mine, lost, fds, touched>>
  BY DEF BindIstream, Call
<1>2. /\ s \in Objects /\ s \in Bound /\ s \notin Lexes /\ s \notin OStreams /\ s # u
      /\ u # NONE => u \in Lexes /\ u \in Objects /\ u \notin OStreams
      /\ uls[s] \in Lexes \cup {NONE}
  BY OwnershipConstants DEF Objects, Bound, IInv, Typed
<1> SUFFICES ASSUME NEW v \in Lexes \cup {NONE}, v = uls[s] PROVE IInv'
  BY <1>2
<1> DEFINE b == Do("unlex", v)
<1>3. /\ a \in Entries /\ a.op = "bind" /\ a.x = s /\ a.y = u
      /\ v # NONE => b \in Entries /\ b.op = "unlex" /\ b.x = v /\ v \in Lexes
  BY <1>2 DEF Entries, Ops, Popping, Pushing, Do, Do2, Objects
<1>4. todo' = IF v = NONE THEN <<a>> ELSE <<b, a>>
  <2>1. CASE v = NONE
    <3>1. todo' = <<>> \o <<a>>
      BY <1>1, <2>1 DEF BindSteps
    <3> HIDE DEF a
    <3> QED BY <1>3, <2>1, <3>1, Joins
  <2>2. CASE v # NONE
    <3>1. todo' = <<b>> \o <<a>>
      BY <1>1, <2>2 DEF BindSteps
    <3> HIDE DEF a, b
    <3> QED BY <1>3, <2>2, <3>1, Joins
  <2> QED BY <2>1, <2>2
<1> HIDE DEF a, b
<1>5. /\ todo' \in Seq(Entries) /\ Stack'[1] = a
      /\ IF v = NONE THEN Depth' = 1 ELSE Depth' = 2 /\ Stack'[2] = b
  BY <1>3, <1>4, StartOne, StartTwo
<1>6. \A k \in 1..Depth' : (k = 1 /\ Stack'[k] = a) \/ (k = 2 /\ Stack'[k] = b /\ v # NONE)
  BY <1>5
<1>7. 1 \in 1..Depth' /\ (v # NONE => 2 \in 1..Depth')
  BY <1>5
<1>8. /\ Doomed = {} /\ Closing = {} /\ Rebinding = {} /\ Topping = {} /\ \A z : Givers(z) = {}
      /\ \A o \in OStreams : Live(o) => o \in mine \cup lost
  BY <1>1, IdleNothing
<1>9. Doomed' = {} /\ Closing' = {} /\ Topping' = {} /\ Rebinding' = {s}
  <2>1. Doomed' = {} /\ Closing' = {} /\ Topping' = {}
    BY <1>3, <1>6 DEF Doomed, Closing, Topping, At
  <2>2. \A z \in Rebinding' : z = s
    BY <1>3, <1>6 DEF Rebinding, At
  <2>3. s \in Rebinding'
    BY <1>2, <1>3, <1>5, <1>7 DEF Rebinding, At
  <2> QED BY <2>1, <2>2, <2>3
<1>10. v # u
  BY <1>1
<1>11. \A z : Givers(z)' = IF z = u THEN {1} ELSE IF z = v /\ v # NONE THEN {2} ELSE {}
  <2>1. \A z : Gives(a, z) <=> z = u
    BY <1>3 DEF Gives
  <2>2. v # NONE => \A z : Gives(b, z) <=> z = v
    BY <1>3 DEF Gives
  <2>3. \A z : Givers(z)' = {k \in 1..Depth' : Gives(Stack'[k], z)}
    BY DEF Givers, Gives
  <2>4. ASSUME NEW z PROVE Givers(z)' = IF z = u THEN {1} ELSE IF z = v /\ v # NONE THEN {2} ELSE {}
    <3>1. \A k : k \in Givers(z)' <=> (k = 1 /\ z = u) \/ (k = 2 /\ z = v /\ v # NONE)
      BY <1>5, <1>6, <1>7, <2>1, <2>2, <2>3
    <3> QED BY <1>10, <2>3, <3>1
  <2> QED BY <2>4
<1>12. /\ refs' \in [Objects -> Nat]
       /\ \A z \in Objects : refs'[z] = IF z = u THEN refs[z] + 1 ELSE refs[z]
  <2>1. refs \in [Objects -> Nat] /\ NONE \notin Objects
    BY OwnershipConstants DEF IInv, Typed
  <2>2. CASE u = NONE
    BY <1>1, <2>1, <2>2
  <2>3. CASE u # NONE
    <3>1. refs' = [refs EXCEPT ![u] = @ + 1]
      BY <1>1, <2>3
    <3>2. u \in Objects /\ refs[u] + 1 \in Nat
      BY <1>2, <2>1, <2>3
    <3> QED BY <2>1, <3>1, <3>2
  <2> QED BY <2>2, <2>3
<1>13. Typed'
  <2>1. StepOK(a) /\ (v # NONE => StepOK(b))
    BY <1>3 DEF StepOK, Popping, Pushing
  <2>2. \A k \in 1..Depth' : StepOK(Stack'[k])
    BY <1>6, <2>1
  <2> QED BY <1>1, <1>5, <1>12, <2>2 DEF IInv, Typed, StepOK
<1>14. Counted'
  <2>1. IsFiniteSet({1}) /\ Has({1}) = 1 /\ IsFiniteSet({2}) /\ Has({2}) = 1
        /\ IsFiniteSet({}) /\ Has({}) = 0
    BY FS_Singleton, FS_EmptySet DEF Has
  <2>2. ASSUME NEW w \in Lexes PROVE LexCount(w)'
    <3>1. Givers(w) = {} /\ LexCount(w) /\ Has(Binders(w)) \in Nat /\ w # NONE /\ w \in Objects
          /\ mine' = mine /\ refs[w] \in Nat
      BY <1>1, <1>8, CountedNat, OwnershipConstants
         DEF IInv, Typed, Holding, Counted, Objects
    <3>2. CASE w = v
      <4>1. s \in Binders(w) /\ Binders(w)' = Binders(w) \ {s}
        BY <1>1, <1>2, <1>8, <1>9, <3>2 DEF Binders
      <4>2. IsFiniteSet(Binders(w)') /\ Has(Binders(w)') = Has(Binders(w)) - 1
        BY <3>1, <4>1, Loses DEF LexCount
      <4>3. Givers(w)' = {2} /\ refs'[w] = refs[w]
        BY <1>10, <1>11, <1>12, <3>1, <3>2
      <4> QED BY <2>1, <3>1, <4>2, <4>3 DEF LexCount, One, Has
    <3>3. CASE w # v
      <4>1. Binders(w)' = Binders(w)
        BY <1>1, <1>8, <1>9, <3>3 DEF Binders
      <4>2. CASE w = u
        <5>1. Givers(w)' = {1} /\ refs'[w] = refs[w] + 1
          BY <1>11, <1>12, <3>1, <4>2
        <5> QED BY <2>1, <3>1, <4>1, <5>1 DEF LexCount, One, Has
      <4>3. CASE w # u
        <5>1. Givers(w)' = {} /\ refs'[w] = refs[w]
          BY <1>11, <1>12, <3>1, <3>3, <4>3
        <5> QED BY <3>1, <4>1, <5>1 DEF LexCount, One
      <4> QED BY <4>2, <4>3
    <3> QED BY <3>2, <3>3
  <2>3. ASSUME NEW z \in Streams PROVE StreamCount(z)'
    <3>1. z \in Objects /\ z # u /\ z # v
      BY OwnershipConstants DEF Objects
    <3>2. Givers(z) = {} /\ Covers(z)' = Covers(z) /\ StreamCount(z)
      BY <1>1, <1>8, <1>9, CoversKept DEF IInv, Holding, Counted
    <3>3. Givers(z)' = {} /\ refs'[z] = refs[z]
      BY <1>11, <1>12, <3>1
    <3> QED BY <1>1, <3>2, <3>3 DEF StreamCount, One
  <2> QED BY <2>2, <2>3 DEF Counted
<1>15. LiveLexes'
  <2>1. u \in Lexes => Live(u)
    <3>1. CASE u # NONE
      BY <1>1, <1>2, <1>8, <3>1, UsableLive DEF Usable
    <3> QED BY <3>1, OwnershipConstants DEF Objects
  <2>2. \A x \in Lexes \cup Streams : x \in Objects /\ refs[x] \in Nat
    BY DEF IInv, Typed, Objects
  <2> SUFFICES ASSUME NEW x \in Lexes \cup Streams
               PROVE  (refs'[x] > 0 => st'[x] = "live") /\ (st'[x] = "live" => refs'[x] > 0)
    BY DEF LiveLexes, Live
  <2>3. (Live(x) <=> refs[x] > 0) /\ st'[x] = st[x]
    BY <1>1, IdleNothing
  <2>4. CASE x = u
    <3>1. x \in Lexes
      BY <1>2, <2>2, <2>4, OwnershipConstants
    <3> QED BY <1>12, <2>1, <2>2, <2>3, <2>4, <3>1 DEF Live
  <2>5. CASE x # u
    BY <1>12, <2>2, <2>3, <2>5 DEF Live
  <2> QED BY <2>4, <2>5
<1>16. LiveOuts'
  <2>1. \A o \in OStreams : refs'[o] = refs[o]
    BY <1>2, <1>12, OwnershipConstants DEF Objects
  <2> QED BY <1>1, <1>8, <2>1 DEF IInv, Holding, LiveOuts, Live
<1>17. LiveParts' /\ DoomedHeld'
  BY <1>1, <1>9 DEF IInv, Holding, LiveParts, DoomedHeld, Live
<1>18. Order'
  BY <1>3, <1>6, NothingPopped DEF Popping
<1>19. Root'
  BY <1>1, <1>3, <1>6 DEF Root, RootPush, RootOut, RootBind, Pushing
<1> QED BY <1>1, <1>13, <1>14, <1>15, <1>16, <1>17, <1>18, <1>19 DEF IInv, Holding
(* uls_create_ostream(): the stream is bound and counted before its header *)
(* is written; when that fails, nobody has seen it.                        *)
LEMMA CreateOutKeeps ==
  ASSUME IInv, NEW u \in Lexes, NEW o \in OStreams, CreateOstream(o, u)
  PROVE  IInv'
<1> DEFINE a == Do("free", o)
           b == Do("unlex", u)
<1>1. /\ Idle /\ ~Live(o) /\ Usable(u)
      /\ st' = [st EXCEPT ![o] = "live"] /\ refs' = [refs EXCEPT ![u] = @ + 1, ![o] = 1]
      /\ uls' = [uls EXCEPT ![o] = u] /\ UNCHANGED <<ctxs, lost, touched>>
      /\ \/ mine' = mine \cup {o} /\ fds' = fds \cup {o} /\ todo' = <<>>
         \/ mine' = mine /\ fds' = fds /\ todo' = <<b, a>>
  BY DEF CreateOstream, Live, Call, Idle
<1>2. /\ o \in Objects /\ o \in Bound /\ o \notin Lexes /\ o \notin Streams
      /\ u \in Objects /\ u \notin Bound /\ u # o
  BY OwnershipConstants DEF Objects, Bound
<1>3. /\ a \in Entries /\ a.op = "free" /\ a.x = o
      /\ b \in Entries /\ b.op = "unlex" /\ b.x = u
  BY DEF Entries, Ops, Objects, Do
<1> HIDE DEF a, b
<1>4. /\ Doomed = {} /\ Closing = {} /\ Rebinding = {} /\ Topping = {} /\ \A z : Givers(z) = {}
      /\ \A z \in OStreams : Live(z) => z \in mine \cup lost
  BY <1>1, IdleNothing
<1>5. o \notin mine \cup lost \cup fds /\ uls[o] = NONE
  BY <1>1, <1>2, NobodyKnows
<1>6. Live(u) /\ refs[u] > 0
  BY <1>1, <1>4, UsableLive DEF Usable
<1>7. /\ refs' \in [Objects -> Nat] /\ refs'[u] = refs[u] + 1 /\ refs'[o] = 1
      /\ \A z \in Objects : z \notin {u, o} => refs'[z] = refs[z]
      /\ st' \in [Objects -> {"none", "live", "freed"}] /\ st'[o] = "live"
      /\ \A z \in Objects : z # o => st'[z] = st[z]
      /\ uls' \in [Bound -> Lexes \cup {NONE}] /\ uls'[o] = u
      /\ \A z \in Bound : z # o => uls'[z] = uls[z]
  <2>1. /\ refs \in [Objects -> Nat] /\ st \in [Objects -> {"none", "live", "freed"}]
        /\ uls \in [Bound -> Lexes \cup {NONE}]
    BY DEF IInv, Typed
  <2>2. /\ refs' \in [Objects -> Nat] /\ refs'[u] = refs[u] + 1 /\ refs'[o] = 1
        /\ \A z \in Objects : z \notin {u, o} => refs'[z] = refs[z]
    BY <1>1, <1>2, <2>1
  <2>3. /\ st' \in [Objects -> {"none", "live", "freed"}] /\ st'[o] = "live"
        /\ \A z \in Objects : z # o => st'[z] = st[z]
    BY <1>1, <1>2, <2>1
  <2>4. /\ uls' \in [Bound -> Lexes \cup {NONE}] /\ uls'[o] = u
        /\ \A z \in Bound : z # o => uls'[z] = uls[z]
    BY <1>1, <1>2, <2>1
  <2> QED BY <2>2, <2>3, <2>4
<1>8. \A x \in Lexes \cup Streams : x # o /\ x \in Objects
  BY <1>2 DEF Objects
<1>9. \A u2 \in Lexes : u2 # NONE
  BY OwnershipConstants DEF Objects
<1>10. ASSUME NEW x \in Lexes \cup Streams
       PROVE  (refs'[x] > 0 => st'[x] = "live") /\ (st'[x] = "live" => refs'[x] > 0)
  <2>1. x \in Objects /\ x # o /\ st'[x] = st[x] /\ refs[x] \in Nat /\ (Live(x) <=> refs[x] > 0)
    BY <1>1, <1>7, <1>8, IdleNothing DEF IInv, Typed
  <2>2. CASE x = u
    BY <1>6, <1>7, <2>1, <2>2 DEF Live
  <2>3. CASE x # u
    BY <1>7, <2>1, <2>3 DEF Live
  <2> QED BY <2>2, <2>3
<1>11. CASE mine' = mine \cup {o} /\ fds' = fds \cup {o} /\ todo' = <<>>
  <2>1. todo' \in Seq(Entries) /\ \A k \in 1..Depth' : FALSE
    BY <1>11, StartNone
  <2>2. Doomed' = {} /\ Closing' = {} /\ Rebinding' = {} /\ Topping' = {} /\ \A z : Givers(z)' = {}
    BY <2>1 DEF Doomed, Closing, Rebinding, Topping, At, Givers
  <2>3. Typed'
    <3>1. mine' \subseteq Objects /\ fds' \subseteq Bound
      BY <1>2, <1>11 DEF IInv, Typed
    <3>2. \A k \in 1..Depth' : StepOK(Stack'[k])
      BY <2>1
    <3> QED BY <1>1, <1>7, <2>1, <3>1, <3>2 DEF IInv, Typed, StepOK
  <2>4. Counted'
    <3>1. ASSUME NEW w \in Lexes PROVE LexCount(w)'
      <4>1. LexCount(w) /\ Has(Binders(w)) \in Nat /\ Givers(w)' = Givers(w) /\ w # o /\ w \in Objects
            /\ (w \in mine' <=> w \in mine) /\ Has(Givers(w)) \in Nat
        BY <1>4, <1>8, <1>11, <2>2, CountedNat DEF IInv, Holding, Counted
      <4>2. CASE w = u
        <5>1. o \notin Binders(w) /\ Binders(w)' = Binders(w) \cup {o}
          BY <1>2, <1>4, <1>5, <1>7, <1>9, <2>2, <4>2 DEF Binders
        <5>2. IsFiniteSet(Binders(w)') /\ Has(Binders(w)') = Has(Binders(w)) + 1
          BY <4>1, <5>1, Gains DEF LexCount
        <5>3. refs'[w] = refs[w] + 1
          BY <1>7, <4>2
        <5> QED BY <4>1, <5>2, <5>3 DEF LexCount, One, Has
      <4>3. CASE w # u
        <5>1. Binders(w)' = Binders(w)
          BY <1>4, <1>5, <1>7, <1>9, <2>2, <4>3 DEF Binders
        <5>2. refs'[w] = refs[w]
          BY <1>7, <4>1, <4>3
        <5> QED BY <4>1, <5>1, <5>2 DEF LexCount, One
      <4> QED BY <4>2, <4>3
    <3>2. ASSUME NEW s \in Streams PROVE StreamCount(s)'
      <4>1. Covers(s)' = Covers(s) /\ StreamCount(s) /\ Givers(s)' = Givers(s) /\ s # o /\ s # u
            /\ s \in Objects /\ (s \in mine' \cup lost' <=> s \in mine \cup lost)
        BY <1>1, <1>2, <1>4, <1>8, <1>11, <2>2, CoversKept, OwnershipConstants
           DEF IInv, Holding, Counted
      <4>2. refs'[s] = refs[s]
        BY <1>7, <4>1
      <4> QED BY <4>1, <4>2 DEF StreamCount, One
    <3> QED BY <3>1, <3>2 DEF Counted
  <2>5. LiveLexes'
    BY <1>10 DEF LiveLexes, Live
  <2>6. LiveOuts'
    <3>1. \A z \in OStreams : z \in Objects /\ z \in Bound /\ z # u
      BY <1>2 DEF Objects, Bound
    <3> QED BY <1>1, <1>4, <1>7, <1>11, <3>1 DEF IInv, Holding, LiveOuts, Live
  <2>7. LiveParts'
    <3>1. mine' \cap lost' = {}
      BY <1>1, <1>5, <1>11 DEF IInv, Holding, LiveParts
    <3>2. \A z \in Bound : z \in Objects
      BY DEF Bound, Objects
    <3>3. \A z \in Bound : uls'[z] # NONE => st'[z] = "live"
      BY <1>7, <3>2 DEF IInv, Holding, LiveParts, Live
    <3>4. \A z \in fds' : st'[z] = "live"
      BY <1>7, <1>11, <3>2 DEF IInv, Typed, Holding, LiveParts, Live
    <3>5. \A w \in Lexes : st'[w] # "live" => ctxs'[w] = <<>>
      BY <1>1, <1>7, <1>8 DEF IInv, Holding, LiveParts, Live
    <3> QED BY <2>2, <3>1, <3>3, <3>4, <3>5 DEF LiveParts, Live
  <2>8. DoomedHeld'
    BY <2>2 DEF DoomedHeld
  <2>9. Order' /\ Root'
    BY <2>1, NothingPopped DEF Root, RootPush, RootOut, RootBind
  <2> QED BY <1>1, <2>3, <2>4, <2>5, <2>6, <2>7, <2>8, <2>9 DEF IInv, Holding
<1>12. CASE mine' = mine /\ fds' = fds /\ todo' = <<b, a>>
  <2>1. todo' \in Seq(Entries) /\ Depth' = 2 /\ Stack'[1] = a /\ Stack'[2] = b
    BY <1>3, <1>12, StartTwo
  <2>2. /\ \A k \in 1..Depth' : (k = 1 /\ Stack'[k] = a) \/ (k = 2 /\ Stack'[k] = b)
        /\ 1 \in 1..Depth' /\ 2 \in 1..Depth'
    BY <2>1
  <2>3. Doomed' = {o} /\ Closing' = {} /\ Rebinding' = {} /\ Topping' = {}
    <3>1. Closing' = {} /\ Rebinding' = {} /\ Topping' = {}
      BY <1>3, <2>2 DEF Closing, Rebinding, Topping, At
    <3>2. \A z \in Doomed' : z = o
      BY <1>3, <2>2 DEF Doomed, At
    <3>3. o \in Doomed'
      BY <1>2, <1>3, <2>1, <2>2 DEF Doomed, At
    <3> QED BY <3>1, <3>2, <3>3
  <2>4. \A z : Givers(z)' = IF z = u THEN {2} ELSE {}
    <3>1. \A z : (Gives(b, z) <=> z = u) /\ ~Gives(a, z)
      BY <1>3 DEF Gives
    <3>2. \A z : Givers(z)' = {k \in 1..Depth' : Gives(Stack'[k], z)}
      BY DEF Givers, Gives
    <3> QED BY <2>1, <2>2, <3>1, <3>2
  <2>5. Typed'
    <3>1. StepOK(a) /\ StepOK(b)
      BY <1>3 DEF StepOK, Popping, Pushing
    <3>2. \A k \in 1..Depth' : StepOK(Stack'[k])
      BY <2>2, <3>1
    <3> QED BY <1>1, <1>7, <1>12, <2>1, <3>2 DEF IInv, Typed, StepOK
  <2>6. Counted'
    <3>1. IsFiniteSet({2}) /\ Has({2}) = 1 /\ IsFiniteSet({}) /\ Has({}) = 0
      BY FS_Singleton, FS_EmptySet DEF Has
    <3>2. ASSUME NEW w \in Lexes PROVE LexCount(w)'
      <4>1. LexCount(w) /\ Has(Binders(w)) \in Nat /\ Givers(w) = {} /\ w # o /\ w \in Objects /\ mine' = mine
        BY <1>4, <1>8, <1>12, CountedNat DEF IInv, Holding, Counted
      <4>2. Binders(w)' = Binders(w)
        BY <1>4, <1>5, <1>7, <1>9, <2>3 DEF Binders
      <4>3. CASE w = u
        <5>1. Givers(w)' = {2} /\ refs'[w] = refs[w] + 1
          BY <1>7, <2>4, <4>3
        <5> QED BY <3>1, <4>1, <4>2, <5>1 DEF LexCount, One, Has
      <4>4. CASE w # u
        <5>1. Givers(w)' = {} /\ refs'[w] = refs[w]
          BY <1>7, <2>4, <4>1, <4>4
        <5> QED BY <4>1, <4>2, <5>1 DEF LexCount, One
      <4> QED BY <4>3, <4>4
    <3>3. ASSUME NEW s \in Streams PROVE StreamCount(s)'
      <4>1. Covers(s)' = Covers(s) /\ StreamCount(s) /\ Givers(s) = {} /\ s # o /\ s # u
            /\ s \in Objects /\ mine' = mine /\ lost' = lost
        BY <1>1, <1>2, <1>4, <1>8, <1>12, <2>3, CoversKept, OwnershipConstants
           DEF IInv, Holding, Counted
      <4>2. refs'[s] = refs[s] /\ Givers(s)' = {}
        BY <1>7, <2>4, <4>1
      <4> QED BY <4>1, <4>2 DEF StreamCount, One
    <3> QED BY <3>2, <3>3 DEF Counted
  <2>7. LiveLexes'
    BY <1>10 DEF LiveLexes, Live
  <2>8. LiveOuts'
    <3>1. \A z \in OStreams : z \in Objects /\ z \in Bound /\ z # u
      BY <1>2 DEF Objects, Bound
    <3> QED BY <1>1, <1>4, <1>5, <1>7, <1>12, <2>3, <3>1
               DEF IInv, Holding, LiveOuts, Live
  <2>9. LiveParts'
    <3>1. mine' \cap lost' = {}
      BY <1>1, <1>12 DEF IInv, Holding, LiveParts
    <3>2. \A z \in Bound : z \in Objects
      BY DEF Bound, Objects
    <3>3. \A z \in Bound : uls'[z] # NONE => st'[z] = "live"
      BY <1>7, <3>2 DEF IInv, Holding, LiveParts, Live
    <3>4. \A z \in fds' : st'[z] = "live" /\ z \notin Doomed'
      BY <1>5, <1>7, <1>12, <2>3, <3>2 DEF IInv, Typed, Holding, LiveParts, Live
    <3>5. \A w \in Lexes : st'[w] # "live" => ctxs'[w] = <<>>
      BY <1>1, <1>7, <1>8 DEF IInv, Holding, LiveParts, Live
    <3> QED BY <3>1, <3>3, <3>4, <3>5 DEF LiveParts, Live
  <2>10. DoomedHeld'
    BY <1>1, <1>2, <1>5, <1>7, <1>12, <2>3 DEF DoomedHeld, Live
  <2>11. Order'
    BY <1>3, <2>2
       DEF Order, OrderFree, OrderClose, OrderPop, OrderOnce, OrderAll, OrderTop, Popping
  <2>12. Root'
    BY <1>3, <2>2 DEF Root, RootPush, RootOut, RootBind, Pushing
  <2> QED BY <1>1, <2>5, <2>6, <2>7, <2>8, <2>9, <2>10, <2>11, <2>12 DEF IInv, Holding
<1> QED BY <1>1, <1>11, <1>12
-----------------------------------------------------------------------------
(* The invariant holds before the first call.                              *)
LEMMA InitHolds ==
  ASSUME Init
  PROVE  IInv
<1>1. /\ st = [x \in Objects |-> "none"] /\ refs = [x \in Objects |-> 0]
      /\ uls = [s \in Bound |-> NONE] /\ ctxs = [u \in Lexes |-> <<>>]
      /\ mine = {} /\ lost = {} /\ fds = {} /\ todo = <<>> /\ touched = FALSE
  BY DEF Init
<1>2. todo \in Seq(Entries) /\ \A k \in 1..Depth : FALSE
  BY <1>1 DEF Depth
<1>3. Doomed = {} /\ Rebinding = {} /\ \A z : Givers(z) = {}
  BY <1>2 DEF Doomed, Rebinding, At, Givers
<1>4. Typed
  BY <1>1, <1>2 DEF Typed
<1>5. Counted
  <2>1. IsFiniteSet({}) /\ Has({}) = 0
    BY FS_EmptySet DEF Has
  <2>2. ASSUME NEW u \in Lexes PROVE LexCount(u)
    <3>1. u # NONE /\ u \in Objects
      BY OwnershipConstants DEF Objects
    <3>2. Binders(u) = {} /\ Givers(u) = {}
      BY <1>1, <1>3, <3>1 DEF Binders
    <3> QED BY <1>1, <2>1, <3>1, <3>2 DEF LexCount, One
  <2>3. ASSUME NEW s \in Streams PROVE StreamCount(s)
    <3>1. Covers(s) = {} /\ Givers(s) = {} /\ s \in Objects
      <4>1. \A u \in Lexes : Len(ctxs[u]) = 0
        BY <1>1
      <4>2. Places = {}
        BY <4>1 DEF Places
      <4> QED BY <1>3, <4>2 DEF Covers, Objects
    <3> QED BY <1>1, <2>1, <3>1 DEF StreamCount, One
  <2> QED BY <2>2, <2>3 DEF Counted
<1>6. LiveLexes /\ LiveOuts /\ LiveParts /\ DoomedHeld
  <2>1. \A x \in Objects : ~Live(x) /\ refs[x] = 0
    BY <1>1 DEF Live
  <2> QED BY <1>1, <1>3, <2>1 DEF LiveLexes, LiveOuts, LiveParts, DoomedHeld, Objects
<1>7. Order /\ Root
  BY <1>2 DEF Order, OrderFree, OrderClose, OrderPop, OrderOnce, OrderAll, OrderTop,
              Root, RootPush, RootOut, RootBind
<1> QED BY <1>1, <1>4, <1>5, <1>6, <1>7 DEF IInv, Holding

(* Every call and every step of a call keeps the invariant.                *)
LEMMA NextKeeps ==
  ASSUME CarefulCaller, IInv, [Next]_vars
  PROVE  IInv'
<1>1. CASE UNCHANGED vars
  <2>1. /\ Depth' = Depth /\ Stack' = Stack /\ Doomed' = Doomed /\ Closing' = Closing
        /\ Rebinding' = Rebinding /\ Clearing' = Clearing /\ Topping' = Topping
        /\ \A z : Givers(z)' = Givers(z)
    BY <1>1
       DEF vars, Depth, Stack, Doomed, Closing, Rebinding, Clearing, At, Topping, Givers, Gives
  <2>2. UNCHANGED <<st, refs, uls, ctxs, mine, lost, fds, todo, touched>>
    BY <1>1 DEF vars
  <2>3. Typed'
    BY <2>1, <2>2 DEF IInv, Typed, StepOK
  <2>4. Counted'
    BY <2>1, <2>2, BindersKept, CoversKept
       DEF IInv, Holding, Counted, LexCount, StreamCount
  <2>5. LiveLexes' /\ LiveOuts' /\ LiveParts' /\ DoomedHeld'
    BY <2>1, <2>2 DEF IInv, Holding, LiveLexes, LiveOuts, LiveParts, DoomedHeld, Live
  <2>6. Order'
    BY <2>1, <2>2
       DEF IInv, Order, OrderFree, OrderClose, OrderPop, OrderOnce, OrderAll, OrderTop,
                      FreedBelow, Steady, Usable, UsableBut
  <2>7. Root'
    BY <2>1, <2>2 DEF IInv, Root, RootPush, RootOut, RootBind, UsableBut, Live
  <2> QED BY <2>2, <2>3, <2>4, <2>5, <2>6, <2>7 DEF IInv, Holding
<1>2. CASE Calls
  <2>1. ASSUME NEW u \in Lexes, Create(u) \/ PushLine(u) \/ Pop(u) \/ PopAll(u) PROVE IInv'
    BY <2>1, CreateKeeps, LineKeeps, PopCallKeeps
  <2>2. ASSUME NEW s \in Streams, OpenIstream(s) PROVE IInv'
    BY <2>2, OpenKeeps
  <2>3. ASSUME NEW u \in Lexes, NEW s \in Streams, PushIstream(u, s) \/ SetIstream(u, s) \/ PushFile(u, s)
        PROVE  IInv'
    BY <2>3, PushCallKeeps, FileKeeps
  <2>4. ASSUME NEW s \in Streams, NEW u \in Lexes \cup {NONE}, BindIstream(s, u) PROVE IInv'
    BY <2>4, BindCallKeeps
  <2>5. ASSUME NEW u \in Lexes, NEW o \in OStreams, CreateOstream(o, u) PROVE IInv'
    BY <2>5, CreateOutKeeps
  <2>6. ASSUME NEW x \in Objects, Destroy(x) PROVE IInv'
    BY <2>6, DestroyKeeps
  <2> QED BY <1>2, <2>1, <2>2, <2>3, <2>4, <2>5, <2>6 DEF Calls
<1>3. CASE Steps
  <2>1. CASE PopStep
    BY <2>1, PopKeeps
  <2>2. CASE FreeContext
    BY <2>2, FreeContextKeeps
  <2>3. CASE PopAllStep
    BY <2>3, PopAllKeeps
  <2>4. CASE UnrefLex
    BY <2>4, UnrefLexKeeps
  <2>5. CASE UnrefIstream
    BY <2>5, UnrefIstreamKeeps
  <2>6. CASE UnrefOstream
    BY <2>6, UnrefOstreamKeeps
  <2>7. CASE Close
    BY <2>7, CloseKeeps
  <2>8. CASE Free
    BY <2>8, FreeKeeps
  <2>9. CASE Bind
    BY <2>9, BindKeeps
  <2>10. CASE PushRefused
    BY <2>10, RefusedKeeps
  <2>11. CASE PushOn
    BY <2>11, PushOnKeeps
  <2>12. CASE PushUndone
    BY <2>12, UndoneKeeps
  <2>13. CASE PushDone
    BY <2>13, DoneKeeps
  <2> QED BY <1>3, <2>1, <2>2, <2>3, <2>4, <2>5, <2>6, <2>7, <2>8, <2>9, <2>10, <2>11, <2>12, <2>13
          DEF Steps
<1> QED BY <1>1, <1>2, <1>3 DEF Next

(* The contexts over a stream, numbered from the oldest or from the newest. *)
LEMMA CoversAsContexts ==
  ASSUME IInv, Topping = {}, NEW s \in Streams,
         NEW T, T = UNION {{<<u, k>> : k \in {k \in DOMAIN ctxs[u] : ctxs[u][k] = s}}
                           : u \in {u \in Lexes : Live(u)}}
  PROVE  Has(T) = Has(Covers(s))
<1> DEFINE S == Covers(s)
           f == [p \in S |-> <<p[1], Len(ctxs[p[1]]) + 1 - p[2]>>]
<1>1. \A u \in Lexes : /\ Len(ctxs[u]) \in Nat /\ DOMAIN ctxs[u] = 1..Len(ctxs[u])
                       /\ ~Live(u) => Len(ctxs[u]) = 0
  BY DEF IInv, Typed, Holding, LiveParts
<1>2. \A t : t \in T <=> \E u \in Lexes : \E k \in 1..Len(ctxs[u]) : t = <<u, k>> /\ ctxs[u][k] = s
  <2>1. ASSUME NEW t \in T
        PROVE  \E u \in Lexes : \E k \in 1..Len(ctxs[u]) : t = <<u, k>> /\ ctxs[u][k] = s
    BY <1>1
  <2>2. ASSUME NEW u \in Lexes, NEW k \in 1..Len(ctxs[u]), ctxs[u][k] = s
        PROVE  <<u, k>> \in T
    <3>1. Live(u) /\ k \in DOMAIN ctxs[u]
      BY <1>1
    <3> QED BY <2>2, <3>1
  <2> QED BY <2>1, <2>2
<1>3. \A p : p \in S <=> /\ p \in Lexes \X Nat /\ p[2] \in 1..Len(ctxs[p[1]])
                         /\ ctxs[p[1]][Len(ctxs[p[1]]) + 1 - p[2]] = s
  BY DEF Covers, Places, Source
<1> HIDE DEF S
<1>4. f \in [S -> T]
  <2> SUFFICES ASSUME NEW p \in S PROVE <<p[1], Len(ctxs[p[1]]) + 1 - p[2]>> \in T
    OBVIOUS
  <2>1. /\ p[1] \in Lexes /\ p[2] \in 1..Len(ctxs[p[1]]) /\ Len(ctxs[p[1]]) \in Nat
        /\ ctxs[p[1]][Len(ctxs[p[1]]) + 1 - p[2]] = s
    BY <1>1, <1>3
  <2>2. Len(ctxs[p[1]]) + 1 - p[2] \in 1..Len(ctxs[p[1]])
    BY <2>1
  <2> QED BY <1>2, <2>1, <2>2
<1>5. \A a, b \in S : f[a] = f[b] => a = b
  <2> SUFFICES ASSUME NEW a \in S, NEW b \in S, f[a] = f[b] PROVE a = b
    OBVIOUS
  <2>1. /\ a \in Lexes \X Nat /\ b \in Lexes \X Nat /\ a[1] \in Lexes /\ Len(ctxs[a[1]]) \in Nat
        /\ a[2] \in Nat /\ b[2] \in Nat
    BY <1>1, <1>3
  <2>2. a[1] = b[1] /\ Len(ctxs[a[1]]) + 1 - a[2] = Len(ctxs[b[1]]) + 1 - b[2]
    OBVIOUS
  <2>3. a[2] = b[2]
    BY <2>1, <2>2
  <2> QED BY <2>1, <2>2, <2>3
<1>6. \A t \in T : \E p \in S : f[p] = t
  <2> SUFFICES ASSUME NEW t \in T PROVE \E p \in S : f[p] = t
    OBVIOUS
  <2>1. PICK u \in Lexes : \E k \in 1..Len(ctxs[u]) : t = <<u, k>> /\ ctxs[u][k] = s
    BY <1>2
  <2>0. PICK k \in 1..Len(ctxs[u]) : t = <<u, k>> /\ ctxs[u][k] = s
    BY <2>1
  <2> DEFINE q == <<u, Len(ctxs[u]) + 1 - k>>
  <2>2. /\ q \in Lexes \X Nat /\ q[1] = u /\ q[2] \in 1..Len(ctxs[u])
        /\ Len(ctxs[u]) + 1 - q[2] = k
    BY <1>1
  <2>3. q \in S
    BY <1>3, <2>0, <2>2
  <2>4. f[q] = t
    BY <2>0, <2>2, <2>3
  <2> QED BY <2>3, <2>4
<1>7. ExistsBijection(S, T)
  <2> HIDE DEF f
  <2>1. f \in Bijection(S, T)
    BY <1>4, <1>5, <1>6 DEF Bijection, Injection, Surjection, IsInjective
  <2> QED BY <2>1 DEF ExistsBijection
<1>8. IsFiniteSet(S)
  BY DEF IInv, Holding, Counted, StreamCount, S
<1> QED BY <1>7, <1>8, FS_Bijection DEF Has, S

(* An object counts for one with a holder or for none.                     *)
LEMMA OneIsHas ==
  ASSUME NEW x, NEW S
  PROVE  Has({x} \cap S) = One(x \in S)
<1>1. Has({x}) = 1 /\ Has({}) = 0
  BY FS_Singleton, FS_EmptySet DEF Has
<1>2. {x} \cap S = IF x \in S THEN {x} ELSE {}
  OBVIOUS
<1> QED BY <1>1, <1>2 DEF One

(* What the invariant says of the state between two calls.                 *)
LEMMA CountsShown ==
  ASSUME IInv
  PROVE  HeldWhileUsed
<1>1. NotTouchedFreed
  BY DEF NotTouchedFreed, IInv, Holding, LiveParts
<1>2. ASSUME Idle, NEW u \in Lexes
      PROVE  refs[u] = Has({u} \cap mine) + Has({s \in Bound : Live(s) /\ uls[s] = u})
  <2>1. Doomed = {} /\ Rebinding = {} /\ Givers(u) = {} /\ u # NONE
    BY <1>2, IdleNothing, OwnershipConstants DEF Objects
  <2>2. Binders(u) = {s \in Bound : Live(s) /\ uls[s] = u}
    BY <2>1 DEF Binders, IInv, Holding, LiveParts
  <2>3. refs[u] = One(u \in mine) + Has(Binders(u)) + 0
    BY <2>1, FS_EmptySet DEF Has, IInv, Holding, Counted, LexCount
  <2>4. Has(Binders(u)) \in Nat /\ One(u \in mine) \in Nat
    BY CountedNat DEF IInv, Holding, One
  <2>5. refs[u] = One(u \in mine) + Has(Binders(u))
    BY <2>3, <2>4
  <2> QED BY <2>2, <2>5, OneIsHas
<1>3. ASSUME Idle, NEW s \in Streams
      PROVE  refs[s] = Has({s} \cap (mine \cup lost))
               + Has(UNION {{<<u, k>> : k \in {k \in DOMAIN ctxs[u] : ctxs[u][k] = s}}
                            : u \in {u \in Lexes : Live(u)}})
  <2>1. Topping = {} /\ Givers(s) = {}
    BY <1>3, IdleNothing
  <2>2. refs[s] = One(s \in mine \cup lost) + Has(Covers(s)) + 0
    BY <2>1, FS_EmptySet DEF Has, IInv, Holding, Counted, StreamCount
  <2>3. Has(Covers(s)) \in Nat /\ One(s \in mine \cup lost) \in Nat
    BY CountedNat DEF IInv, Holding, One
  <2>4. refs[s] = One(s \in mine \cup lost) + Has(Covers(s))
    BY <2>2, <2>3
  <2> QED BY <2>1, <2>4, OneIsHas, CoversAsContexts
<1> QED BY <1>1, <1>2, <1>3 DEF HeldWhileUsed, CountsHolders

(* What is left over when the caller holds nothing has a cause.            *)
LEMMA CauseShown ==
  ASSUME IInv
  PROVE  LeftOverHasCause
<1> SUFFICES ASSUME Idle, mine = {}, lost = {},
                    \A u \in Lexes : Live(u) => ToSet(ctxs[u]) \cap Streams = {},
                    NEW x \in Objects, Live(x)
             PROVE  FALSE
  BY DEF LeftOverHasCause
<1>1. /\ Topping = {} /\ \A z : Givers(z) = {}
      /\ \A o \in OStreams : ~Live(o)
      /\ \A z \in Lexes \cup Streams : Live(z) <=> refs[z] > 0
  BY IdleNothing
<1>2. Has({}) = 0
  BY FS_EmptySet DEF Has
<1>3. ASSUME NEW s \in Streams PROVE ~Live(s)
  <2> SUFFICES ASSUME refs[s] > 0 PROVE FALSE
    BY <1>1
  <2>1. Has(Covers(s)) \in Nat /\ refs[s] = 0 + Has(Covers(s)) + 0 /\ IsFiniteSet(Covers(s))
    BY <1>1, <1>2, CountedNat DEF IInv, Holding, Counted, StreamCount, One
  <2>2. Covers(s) # {}
    BY <2>1, HasNat
  <2>3. PICK p \in Covers(s) : TRUE
    BY <2>2
  <2>4. p[1] \in Lexes /\ p[2] \in 1..Len(ctxs[p[1]]) /\ ctxs[p[1]][Len(ctxs[p[1]]) + 1 - p[2]] = s
    BY <2>3 DEF Covers, Places, Source
  <2>5. ctxs[p[1]] \in Seq(Streams \cup {Line})
    BY <2>4 DEF IInv, Typed
  <2>6. Len(ctxs[p[1]]) + 1 - p[2] \in DOMAIN ctxs[p[1]] /\ ctxs[p[1]] # <<>>
    BY <2>4, <2>5
  <2>7. Live(p[1])
    BY <2>4, <2>6 DEF IInv, Holding, LiveParts
  <2>8. s \in ToSet(ctxs[p[1]])
    BY <2>4, <2>6 DEF ToSet
  <2> QED BY <2>4, <2>7, <2>8
<1>4. ASSUME NEW u \in Lexes PROVE ~Live(u)
  <2> SUFFICES ASSUME refs[u] > 0 PROVE FALSE
    BY <1>1
  <2>1. Has(Binders(u)) \in Nat /\ refs[u] = 0 + Has(Binders(u)) + 0 /\ IsFiniteSet(Binders(u))
    BY <1>1, <1>2, CountedNat DEF IInv, Holding, Counted, LexCount, One
  <2>2. PICK s \in Binders(u) : TRUE
    BY <2>1, HasNat
  <2>3. s \in Bound /\ Live(s)
    BY <2>2, OwnershipConstants DEF Binders, Objects, IInv, Holding, LiveParts
  <2> QED BY <1>1, <1>3, <2>3 DEF Bound
<1> QED BY <1>1, <1>3, <1>4 DEF Objects
-----------------------------------------------------------------------------
(* The invariant holds however the calls of a careful caller nest.         *)
THEOREM SpecIInv == CarefulCaller => (Spec => []IInv)
<1> SUFFICES ASSUME CarefulCaller PROVE Spec => []IInv
  OBVIOUS
<1>1. Init => IInv
  BY InitHolds
<1>2. IInv /\ [Next]_vars => IInv'
  BY NextKeeps
<1> QED BY <1>1, <1>2, PTL DEF Spec

(* No call touches an object or a context that is freed, an open           *)
(* descriptor belongs to a stream that exists, and between calls each      *)
(* ref_cnt is the number of those who hold the object.                     *)
THEOREM HeldWhileUsedHolds == CarefulCaller => (Spec => []HeldWhileUsed)
<1> SUFFICES ASSUME CarefulCaller PROVE Spec => []HeldWhileUsed
  OBVIOUS
<1>1. IInv => HeldWhileUsed
  BY CountsShown
<1> QED BY <1>1, SpecIInv, PTL

(* When the caller has given everything back, nothing is left over without *)
(* a cause that can be named.                                              *)
THEOREM LeftOverHasCauseHolds == CarefulCaller => (Spec => []LeftOverHasCause)
<1> SUFFICES ASSUME CarefulCaller PROVE Spec => []LeftOverHasCause
  OBVIOUS
<1>1. IInv => LeftOverHasCause
  BY CauseShown
<1> QED BY <1>1, SpecIInv, PTL
=============================================================================
