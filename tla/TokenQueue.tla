----------------------------- MODULE TokenQueue -----------------------------
(***************************************************************************)
(* What a lexical analyser of ULS promises its caller, with the stack of   *)
(* input contexts forgotten: there is one queue of tokens still to come.   *)
(* Pushing a source puts its tokens in front of what was pending, dismiss- *)
(* ing one drops what it still had, uls_get_tok() takes the front token,   *)
(* and the token that was just taken can be put back.                      *)
(*                                                                         *)
(* ERR is never taken off the queue: a source that failed answers ERR to   *)
(* every call until the caller dismisses it.  An empty queue answers EOI.  *)
(***************************************************************************)
EXTENDS Naturals, Sequences, SequencesExt

CONSTANTS EOI, EOF, ERR   \* the tokens with a meaning here

VARIABLES pending,  \* the tokens still to come, in order
          ret       \* the call that returned last, and its value

vars == <<pending, ret>>

Init == pending = <<>> /\ ret = [call |-> "none", val |-> EOI]

Returned(call, val) == ret' = [call |-> call, val |-> val]

(* Each action relates p, the queue before the call, to q, the one after.  *)

Get(p, q) ==
  /\ Returned("get_tok", IF p = <<>> THEN EOI ELSE Head(p))
  /\ q = IF p = <<>> \/ Head(p) = ERR THEN p ELSE Tail(p)

(* Only the token that the last call delivered can be put back.            *)
Unget(p, q) ==
  /\ ret.call = "get_tok" /\ Returned("unget", ret.val)
  /\ q = IF ret.val \in {EOI, ERR} THEN p ELSE <<ret.val>> \o p

(* Reading by character takes a token only when it returns that character; *)
(* after EOF, it returns none and EOF is to come again.                    *)
GetCh(p, q) ==
  /\ ret'.call = "get_ch"
  /\ \/ p = (IF ret'.val \in {"blank", "none"} THEN <<>> ELSE <<ret'.val>>) \o q
     \/ ret'.val = "none" /\ q = <<EOF>> \o p

PeekCh(p, q) == Returned("peek_ch", "ok") /\ q = p

Push(p, q) == ret'.call = "push" /\ IsSuffix(p, q)

Pop(p, q) == Returned("pop", "ok") /\ IsSuffix(q, p)

(* uls_set_*(): the current source is dismissed, then one is pushed.       *)
Set(p, q) == /\ ret'.call = "push"
             /\ \E n \in 0..Len(p) : IsSuffix(SubSeq(p, n + 1, Len(p)), q)

(* The caller asks for (or renounces) the EOF token of the current source. *)
WantEof(p, q) ==
  /\ Returned("want_eof", "ok")
  /\ \/ q = p
     \/ \E i \in 1..Len(p) + 1 : q = InsertAt(p, i, EOF)
     \/ \E i \in 1..Len(q) + 1 : p = InsertAt(q, i, EOF)

(* (Bound by a quantifier, pending is evaluated once per step by TLC.)     *)
Next == \E p \in {pending}, q \in {pending'} :
          \/ Get(p, q) \/ Unget(p, q) \/ GetCh(p, q) \/ PeekCh(p, q)
          \/ Push(p, q) \/ Pop(p, q) \/ Set(p, q) \/ WantEof(p, q)

Spec == Init /\ [][Next]_vars
=============================================================================
