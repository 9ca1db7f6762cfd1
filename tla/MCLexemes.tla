------------------------------ MODULE MCLexemes ------------------------------
(* Specifications to scan with: numerals of three kinds, marks that        *)
(* are prefixes of each other, and keywords in a table of three buckets.   *)
EXTENDS Lexemes

MCDigits == <<"0", "1", "2", "3", "4", "5", "6", "7",
              "8", "9", "A", "B", "C", "D", "E", "F">>
MCCharCode == [v \in ToSet(SubSeq(MCDigits, 1, 10)) |-> 48 + DigitVal(v)]
          @@ [v \in ToSet(SubSeq(MCDigits, 11, 16)) |-> 55 + DigitVal(v)]
          @@ "&" :> 38 @@ "|" :> 124 @@ "." :> 46 @@ "-" :> 45 @@ "_" :> 95
          @@ "a" :> 97 @@ "b" :> 98 @@ "o" :> 111 @@ "q" :> 113
          @@ "t" :> 116 @@ "x" :> 120
MCUpper == [c \in DOMAIN MCCharCode |-> IF c = "a" THEN "A"
                                    ELSE IF c = "b" THEN "B" ELSE c]
MCIdFirst == {"a", "b", "A", "B", "E", "x", "_"}
MCIdChars == MCIdFirst \cup {"0", "1", "8"}

Texts(alphabet, n) == UNION {[1..k -> alphabet] : k \in 0..n}
Numeric(alphabet, n) == {t \in Texts(alphabet, n) :
                           t # <<>> /\ t[1] \in {"0", "1", "."}}
W(text, token) == [text |-> text, token |-> token]
SpecOf(words, nocase, prefixes, suffixes, sep) ==
  [words |-> words, nocase |-> nocase, prefixes |-> prefixes,
   suffixes |-> suffixes, sep |-> sep]

\* No .ulf file, and the ones that ask for weights and frequencies.
NoUlf == [file |-> "none", weights |-> <<1, 1, 1>>, lines |-> <<>>]
UlfLines == {[text |-> t, freq |-> f] :
               t \in {<<"A">>, <<"B", "A">>, <<"B">>}, f \in {-1, 0, 5}}
Ulfs == {[file |-> f, weights |-> w, lines |-> l] :
           f \in {"good", "refused"}, w \in {<<1, 1, 1>>, <<2, -3, 1>>},
           l \in UNION {[1..n -> UlfLines] : n \in 0..2}}

Numerals1 == SpecOf(<<>>, FALSE, <<>>, <<<<"x">>>>, "_")
Numerals2 == SpecOf(<<>>, FALSE,
  <<[text |-> <<"0", "x">>, radix |-> 16], [text |-> <<"0">>, radix |-> 8]>>,
  <<>>, "_")
\* ... numerals of every prefix the library has a standard form for.
Prefixes3 == <<[text |-> <<"0", "x">>, radix |-> 16], [text |-> <<"0", "b">>, radix |-> 2],
               [text |-> <<"0", "t">>, radix |-> 3], [text |-> <<"0", "q">>, radix |-> 4],
               [text |-> <<"0", "o">>, radix |-> 8]>>
Numerals3 == SpecOf(<<>>, FALSE, Prefixes3, <<>>, "_")
WithPrefix(k, digits, n) == {Prefixes3[k].text \o t : t \in Texts(digits, n)}
Radices == WithPrefix(1, {"0", "1", "A", "F"}, 4) \cup WithPrefix(2, {"0", "1"}, 9)
           \cup WithPrefix(3, {"0", "1", "2"}, 6) \cup WithPrefix(4, {"0", "1", "3"}, 5)
           \cup WithPrefix(5, {"0", "1", "5", "7"}, 5)
Decimals == {t \in Texts({"1", "0", "9", "."}, 5) : t # <<>> /\ t[1] # "0"}
            \cup {t \o <<"E">> \o e : t \in {<<"9">>, <<".", "9", "1">>},
                                       e \in Texts({"-", "6", "1"}, 2)}
Marks == SpecOf(<<W(<<"a", "a", "a">>, "AND"), W(<<"&", "&">>, "AND"),
                  W(<<"&", "|">>, "NOR"), W(<<"&", "&", "|", "|">>, "MIX"),
                  W(<<"|", "&">>, "XOR")>>, FALSE, <<>>, <<>>, NUL)
Keywords == SpecOf(<<W(<<"A">>, "IF"), W(<<"A", "B">>, "DO"), W(<<"B", "A">>, "OF"),
                     W(<<"A", "A">>, "OR")>>, TRUE, <<>>, <<>>, NUL)

Scan(spec_, ulfs, lines) == [spec |-> spec_, ulfs |-> ulfs, lines |-> lines]
MCInputs ==
  {Scan(Numerals1, {NoUlf}, Numeric({"0", "1", ".", "E", "-", "_"}, 5)
                            \cup {t \o <<"x">> : t \in Numeric({"0", "1", ".", "E", "_", "x"}, 4)}),
   Scan(Numerals2, {NoUlf}, Numeric({"0", "1", ".", "E", "8", "_"}, 5)
                            \cup {<<"0", "x">> \o t : t \in Texts({"0", "1", ".", "E", "8", "_", "x"}, 3)}),
   Scan(Numerals3, {NoUlf}, Radices \cup Decimals),
   Scan(Marks, {NoUlf}, Texts({"&", "|", "a", " "}, 5)),
   Scan(Keywords, {NoUlf} \cup Ulfs,
        {<<"a", " ", "A", "b">>, <<"b", "A", "b", " ", "b", "a">>,
         <<"B", " ", "a", "A", " ", "b", "a", "b", "b">>})}
=============================================================================
