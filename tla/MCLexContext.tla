---------------------------- MODULE MCLexContext ----------------------------
(* The constants of LexContext for TLC.                                    *)
EXTENDS LexContext

CONSTANTS a, b, q

(* Sources: empty, two buffers of text with a literal and a blank at the   *)
(* end, a filler that fails at once, one that fails later, and a lexeme in *)
(* error with text after it.                                               *)
MCSources ==
  { <<>>,
    << <<Char(b)>>, <<Lit(q), Blank>> >>,
    << Fail >>,
    << <<Char(a)>>, Fail, <<Char(b)>> >>,
    << <<Bad, Char(b)>> >> }
=============================================================================
