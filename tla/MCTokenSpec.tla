----------------------------- MODULE MCTokenSpec -----------------------------
(* A small instance of TokenSpec: three reserved tokens, two words, two    *)
(* characters whose codes the numbering of the body can reach; and, on its *)
(* own, the scanner with the tables a load leaves it.                      *)
EXTENDS Dump, MCLexemes

CONSTANTS word1, word2, plus, minus

MCRsvd == <<3, 4, 6>>
MCRsvdId == <<0, -1, -2>>
\* A reserved token has the first; the second is the code of a character,
\* and the numbering comes to it.
MCNumbers == {-1, 2}
MCSymmetry == Permutations({word1, word2})
MCCode == (plus :> 2) @@ (minus :> 3)

VARIABLE part
LoadInit ==
  /\ part \in {"tokens", "scan"}
  /\ Init /\ ScanInit
  /\ part = "tokens" => input.spec = Numerals1 /\ input.line = <<"0">>
LoadNext ==
  /\ UNCHANGED part
  /\ \/ part = "tokens" /\ Next /\ UNCHANGED scanVars
     \/ part = "scan" /\ ScanNext /\ UNCHANGED vars
=============================================================================
