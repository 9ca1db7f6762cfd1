----------------------------- MODULE MCEscapes ------------------------------
(* Lines of all the categories, alone and next to one that changes the     *)
(* same map, with the short texts that tell their escapes apart.           *)
EXTENDS Escapes

L == "lf"
R == "cr"
MCDigit == "0" :> 0 @@ "1" :> 1 @@ "8" :> 8 @@ "a" :> 10 @@ "A" :> 10
MCUpperDigits == {"A"}
MCEscChars == DOMAIN MCDigit \cup {"n", "x", "u", "U", "?", "z", "q", "\\", L}
MCNUni == "u" :> 3 @@ "U" :> 4

Quoted(cat, adders, mappings) ==
  [cat |-> cat, adders |-> adders, maps |-> mappings,
   end |-> <<"q">>, esc |-> "\\", multiline |-> FALSE]
Add(c, as) == [op |-> "add", c |-> c, as |-> as]
Del(c) == [op |-> "del", c |-> c]
All(op) == [op |-> op, c |-> "z"]

Bare == Quoted("", <<>>, <<>>)
Mapped == Quoted("", <<>>, <<Add("z", Str(<<"u", "n">>)), Del("n")>>)
Etc == Quoted("legacy", <<"etc", "?", "eol">>, <<>>)
NoNumerals == Quoted("legacy", <<>>, <<All("~oct"), All("~hex"), Add("0", Str(<<>>))>>)
Modern == [Quoted("modern", <<>>, <<>>) EXCEPT !.multiline = TRUE]
Short == Quoted("modern", <<"u04", "u4", "U8">>,
                <<Add("8", Num("hex", 2, FALSE, "upper")), All("~u04")>>)
Whole == Quoted("modern", <<"eol", "U08">>, <<Add("z", Num("oct", 3, TRUE, "uniform"))>>)
Verbatim == Quoted("verbatim", <<>>, <<Add("n", Num("hex", 2, TRUE, "both")), Add("8", Num("hex", 1, FALSE, "both"))>>)
Verbatim1 == [Quoted("verbatim1", <<>>, <<>>) EXCEPT !.esc = "q"]
Long == [Quoted("legacy", <<"esc">>, <<>>) EXCEPT !.end = <<"z", "z", "z">>, !.multiline = TRUE]
Refused == {Quoted("verbatim1", <<"eos">>, <<>>), Quoted("legacy", <<"eol", "!">>, <<>>),
            Quoted("", <<>>, <<Add(R, Str(<<"n">>))>>)}

Lines == {Bare, Mapped, Etc, NoNumerals, Modern, Short, Whole, Verbatim, Verbatim1, Long}
MCSpecs == {<<l>> : l \in Lines \cup Refused}
           \cup {<<k, l>> : k \in {Mapped, NoNumerals, Short, Verbatim} \cup Refused,
                            l \in {Bare, Modern, Verbatim1}}

\* After some characters, an escape and what may belong to it.
Upto(alphabet, n) == UNION {[1..k -> alphabet] : k \in 0..n}
Escaped(alphabet, n) == {<<"\\">> \o t : t \in Upto(alphabet, n)}
MCTextsOf(line) ==
  CASE line \in {Bare, Mapped} -> Escaped({"q", "n", "z", "\\", "1"}, 3)
    [] line = Etc              -> Escaped({"q", "?", "z", L, R}, 3)
    [] line = NoNumerals       -> Escaped({"q", "0", "x"}, 3)
    [] line = Modern           -> Upto({"q", L, R, "\\"}, 4)
                                  \cup {<<"\\", "u">> \o t : t \in Upto({"q", "1", "a", "A"}, 4)}
    [] line \in {Short, Whole} ->
         {<<"\\", c>> \o t : c \in {"u", "U", "8", "z"}, t \in Upto({"q", "1", "A"}, 5)}
    [] line = Verbatim         -> Escaped({"q", "n", "8", "a", "A"}, 4)
    [] line = Verbatim1        -> Upto({"q", "z"}, 5)
    [] line = Long             -> Upto({"z", "\\", "0", "1", L}, 4) \cup {<<"\\", "x", "1", "a", "z", "z", "z">>}
    [] OTHER                   -> {<<"q">>}
=============================================================================
