----------------------------- MODULE MCOwnership -----------------------------
(* Who holds what, in three parts: two analysers, two input streams and one*)
(* output stream, contexts two deep (Ownership); a program of wide         *)
(* characters with a file, a language of one keyword and a text that its   *)
(* locale cannot show (WideLex); and lists of template variables, as       *)
(* programs in C, in wide characters and in C++ keep them (WideTmpls).     *)
EXTENDS Ownership, WideLex, WideTmpls, TLC

CONSTANTS l1, l2, s1, s2, o1
MCLexes    == {l1, l2}
MCStreams  == {s1, s2}
MCOStreams == {o1}
Careful  == {}
Alike == Permutations(MCLexes) \cup Permutations(MCStreams)

MCWideTexts == {<<>>, <<"a", "b">>, <<"w">>}
MCFileTokens == <<"a", "b">> :> <<Tok(<<"a">>, <<"k">>), Tok(<<"a", "0", "b">>, <<"a", "0", "b">>), Tok(<<"w">>, <<"w">>)>>
MCKeywords == "k" :> <<"e">>
MCNames == "k" :> <<"K">>
MCNewNames == "k" :> <<"N">>

VARIABLE part
NoShell == utf8 = TRUE /\ lex = 0 /\ shell = 0 /\ since = 0 /\ said = 0 /\ calls = 0
NoList == list = 0 /\ ext = 0 /\ bufs = 0 /\ maps = 0 /\ meant = 0 /\ twice = 0 /\ reset = 0 /\ apart = 0 /\ exported = 0 /\ tcalls = 0
PartsInit ==
  \/ part = "owners" /\ Init /\ NoShell /\ NoList
  \/ part = "wide" /\ WideInit /\ Init /\ NoList
  \/ part = "tmpls" /\ TmplInit /\ Init /\ NoShell
PartsNext ==
  /\ UNCHANGED part
  /\ \/ part = "owners" /\ Next /\ UNCHANGED <<wideVars, tmplVars>>
     \/ part = "wide" /\ WideStep /\ UNCHANGED <<vars, tmplVars>>
     \/ part = "tmpls" /\ TmplStep /\ UNCHANGED <<vars, wideVars>>
PartsSpec == PartsInit /\ [][PartsNext]_<<part, vars, wideVars, tmplVars>>

(* What a program of wide characters or of C++ is told, and what its       *)
(* streams replay, is what the core holds: the exceptions are those that   *)
(* WideAsCore and TmplsAgree name (uls_wlex.c, uls_istream_wstr.c and      *)
(* UlsIStream.cpp).                                                        *)
WrappersAgree == (part = "wide" => WideAsCore) /\ (part = "tmpls" => TmplsAgree)
=============================================================================
