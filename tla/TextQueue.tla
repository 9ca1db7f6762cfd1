------------------------------ MODULE TextQueue ------------------------------
(***************************************************************************)
(* What the push-back calls promise, with buffers and contexts forgotten:  *)
(* there is one queue of items (characters, literals, the EOF of a source) *)
(* still to come, and what a caller puts back is put in front of it.  The  *)
(* token put back last is kept beside the queue as a token, until the      *)
(* caller puts back or reads characters: then it becomes text again.       *)
(***************************************************************************)
EXTENDS Naturals, Sequences, SequencesExt

CONSTANTS
  SP,              \* the blank
  WordChars,       \* characters that make words
  EOF, EOI, NONE   \* tokens with a meaning here, each a sequence of one item

VARIABLES
  coming,   \* the items still to come, in order
  put,      \* the token that was put back, or NONE
  busy,     \* while uls_get_tok() runs
  ret       \* the call that returned last, and its value

vars == <<coming, put, busy, ret>>

Init == put = NONE /\ busy = FALSE /\ ret = [call |-> "none", val |-> NONE]

(* A token as text: a word is followed by a blank, EOI has no text.        *)
AsText(t) == IF t = NONE THEN <<>>
             ELSE IF t = EOI THEN <<SP>>
             ELSE IF ToSet(t) \subseteq WordChars THEN t \o <<SP>> ELSE t

Melted == AsText(put) \o coming

Returned(call, val) == busy' = FALSE /\ ret' = [call |-> call, val |-> val]

Blanks(n) == n <= Len(coming) /\ \A i \in 1..n : coming[i] = SP
After(n) == SubSeq(coming, n + 1, Len(coming))

Begin == ~busy /\ put = NONE /\ busy' = TRUE /\ UNCHANGED <<coming, put, ret>>

Skip == \E n \in 1..Len(coming) :
          busy /\ Blanks(n) /\ coming' = After(n) /\ UNCHANGED <<put, busy, ret>>

(* The first token after the blanks: a word that does not go on behind it, *)
(* a literal or EOF, or EOI when nothing is left.                          *)
TakeWord == \E n \in 0..Len(coming), m \in 1..Len(coming) :
  /\ busy /\ Blanks(n) /\ n + m <= Len(coming)
  /\ \A i \in n + 1..n + m : coming[i] \in WordChars
  /\ n + m = Len(coming) \/ coming[n + m + 1] \notin WordChars
  /\ Returned("get_tok", SubSeq(coming, n + 1, n + m)) /\ coming' = After(n + m)
  /\ UNCHANGED put

TakeItem == \E n \in 0..Len(coming) :
  /\ busy /\ Blanks(n) /\ n < Len(coming)
  /\ coming[n + 1] \notin WordChars \cup {SP}
  /\ Returned("get_tok", <<coming[n + 1]>>) /\ coming' = After(n + 1)
  /\ UNCHANGED put

TakeEoi == /\ Blanks(Len(coming)) /\ coming' = <<>>
           /\ busy \/ (coming = <<>> /\ put \in {NONE, EOI})
           /\ Returned("get_tok", EOI) /\ UNCHANGED put

TakePut == /\ ~busy /\ put # NONE /\ Returned("get_tok", put) /\ put' = NONE
           /\ UNCHANGED coming

(* The token that the last call delivered is put back as it is.            *)
Unget == /\ ~busy /\ ret.call = "get_tok" /\ ret.val # NONE
         /\ put' = ret.val /\ Returned("unget", ret.val) /\ UNCHANGED coming

(* Text, or a literal, is put in front of everything.                      *)
PutIn == /\ ~busy /\ Returned("put", ret'.val) /\ put' = NONE
         /\ coming' = ret'.val \o Melted

(* The next character; none before a literal, and at the end of the text   *)
(* that was put back, which ends the word there as a blank would.          *)
GetCh == /\ ~busy /\ put' = NONE
         /\ \/ Returned("get_ch", NONE) /\ coming' \in {Melted, <<SP>> \o Melted}
            \/ /\ Melted # <<>> /\ Head(Melted) \in WordChars \cup {SP}
               /\ Returned("get_ch", <<Head(Melted)>>) /\ coming' = Tail(Melted)

PeekCh == /\ ~busy /\ put' = NONE
          /\ \/ Returned("peek_ch", NONE) /\ coming' \in {Melted, <<SP>> \o Melted}
             \/ /\ Melted # <<>> /\ coming' = Melted
                /\ Returned("peek_ch", <<Head(Melted)>>)

Next == Begin \/ Skip \/ TakeWord \/ TakeItem \/ TakeEoi \/ TakePut
        \/ Unget \/ PutIn \/ GetCh \/ PeekCh

Spec == Init /\ [][Next]_vars
=============================================================================
