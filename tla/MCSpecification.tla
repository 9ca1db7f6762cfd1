-------------------------- MODULE MCSpecification --------------------------
(* What a specification goes through, each part on its own: the files it   *)
(* is read from, its attributes and keywords, the escapes of its literals, *)
(* and the sources emitted for it.                                         *)
EXTENDS MCEscapes, SpecFiles, SpecHeader, Emission, TLC
MCUpper == "a" :> "A"
MCCode == "nl" :> 10 @@ "tab" :> 9 @@ "^" :> 1 @@ " " :> 32 @@ "\"" :> 34 @@ "/" :> 47 @@ "." :> 46
  @@ "-" :> 45 @@ "_" :> 95 @@ "0" :> 48 @@ "1" :> 49 @@ "A" :> 65 @@ "b" :> 98 @@ "a" :> 97
  @@ "X" :> 88 @@ "+" :> 43 @@ "w1" :> 200 @@ "w2" :> 300 @@ "w3" :> 400 @@ "del" :> 127 @@ "grave" :> 96
Q == "\""
IdsOf(attr, rs) == [attr |-> attr, ranges |-> rs]
Val(attr, v) == [attr |-> attr, value |-> v]
Words(attr, ws) == [attr |-> attr, words |-> ws]
Pfx(p, r) == [prefix |-> p, radix |-> r]
Comm(fl, m, e) == [attr |-> "COMMENT_TYPE", flags |-> fl, mark |-> m, end |-> e]
Quo(fl, m, e, i, n) == [attr |-> "QUOTE_TYPE", flags |-> fl, mark |-> m, end |-> e, id |-> i, name |-> n]
Pre(q, c, t, s) == [attr |-> "PREPEND_INPUT", quote |-> q, closed |-> c, text |-> t, saved |-> s]
NCT(ws, m) == [attr |-> "NOT_CHAR_TOK", words |-> ws, multibytes |-> m]
Slash == <<"/">>
IdF == IdsOf("ID_FIRST_CHARS", <<<<95, 98>>>>)
IdF2 == IdsOf("ID_FIRST_CHARS", <<<<65, 65>>, <<150, 250>>>>)
IdF3 == IdsOf("ID_FIRST_CHARS", <<<<65, 126>>, <<300, 300>>>>)
IdC == IdsOf("ID_CHARS", <<<<48, 49>>, <<95, 95>>, <<97, 98>>, <<300, 300>>>>)
IdC2 == IdsOf("ID_CHARS", <<<<65, 65>>, <<200, 200>>>>)
Simple == {Val("CASE_SENSITIVE", "false"), Val("CASE_SENSITIVE", "true"), Val("CASE_SENSITIVE", "maybe"),
   Val("DECIMAL_SEPARATOR", {}), Val("DECIMAL_SEPARATOR", {"_"}), Val("DECIMAL_SEPARATOR", {"."}),
   Val("ID_MAX_LENGTH", <<8>>), Val("ID_MAX_LENGTH", <<8, 4>>), Val("ID_MAX_LENGTH", <<0>>),
   NCT(<<<<"+", "a">>, Slash>>, ""), NCT(<<<<"+">>>>, "false"), NCT(<<>>, "true"),
   Pre("double", TRUE, <<"a">>, 0), Pre("double", TRUE, <<"a", "b">>, 1), Pre("single", TRUE, <<"b">>, 0),
   Pre("single", TRUE, <<>>, 0), Pre("none", TRUE, <<"a">>, 0), Pre("double", FALSE, <<"a">>, 2)}
IdLines == {IdF, IdF2, IdF3, IdC, IdC2, IdsOf("ID_CHARS", <<<<43, 43>>>>), IdsOf("ID_FIRST_CHARS", <<<<98, 97>>>>),
   IdsOf("ID_FIRST_CHARS", <<<<48, 49>>>>), IdsOf("ID_FIRST_CHARS", <<<<65, 300>>>>), IdsOf("ID_CHARS", <<<<95, 98>>>>)}
Nums == {Words("NUMBER_PREFIXES", <<Pfx(<<"0">>, 8), Pfx(<<"0", "X">>, 16)>>), Words("NUMBER_PREFIXES", <<Pfx(<<"X">>, 16)>>),
   Words("NUMBER_PREFIXES", <<Pfx(<<"0", "b">>, 2), Pfx(<<"0", "a">>, 5)>>), Words("NUMBER_PREFIXES", <<>>),
   Words("NUMBER_PREFIXES", <<Pfx(<<"0", "b">>, 2), Pfx(<<"0", "a">>, 3), Pfx(<<"0", "A">>, 3)>>),
   Words("NUMBER_PREFIXES", <<Pfx(<<"0", "X", "X", "b">>, 2)>>),
   Words("NUMBER_SUFFIXES", <<<<"a">>, <<"a", "b">>, <<"b">>>>), Words("NUMBER_SUFFIXES", <<<<"a", "1", "0">>, <<"b">>>>),
   Words("NUMBER_SUFFIXES", <<<<"a", "1">>, <<"b", "b", "b">>, <<"+">>, <<"+">>>>),
   Words("NUMBER_SUFFIXES", <<<<"a", "b">>, <<"b", "a">>, <<"A", "A">>>>)}
Comms == {Comm({}, Slash, Slash), Comm({"oneline"}, Slash \o Slash, <<>>), Comm({"nested"}, <<"/", "+">>, <<"+", "/">>),
   Comm({"column0", "oneline"}, Slash, <<>>), Comm({"column0", "oneline"}, <<"+">>, <<>>), Comm({"twice"}, Slash, Slash),
   Comm({"oneline"}, <<"A", "a">>, <<>>), Comm({}, <<"/", "/", "/", "/">>, Slash)}
Quos == {Quo({}, <<Q>>, <<>>, 0, "DQ"), Quo({"multiline"}, <<Q, Q, Q>>, <<>>, 0, ""), Quo({"multiline"}, <<Q, Q, Q>>, <<>>, 300, "TQ"),
   Quo({"asymmetric"}, <<"/", "+">>, <<"+">>, 301, "AQ"), Quo({"open"}, <<Q>>, <<>>, 300, "DQ"), Quo({"nothing"}, <<"+">>, <<>>, 302, "N"),
   Quo({}, <<".">>, <<>>, 0, "P"), Quo({"asymmetric"}, <<"/">>, <<".">>, 303, "S"), Quo({"raw"}, <<"/">>, <<>>, 0, "S"),
   Quo({}, <<"+">>, <<>>, -3, "NEG"), Quo({}, <<"+">>, <<>>, -3, ""), Quo({}, <<"+">>, <<>>, 304, "NUMBER")}
MCReservedNames == {"EOI", "EOF", "ID", "NUMBER", "LINENUM", "TMPL", "LINK", "NONE", "ERR"}
MCReservedIds == -8..0
Other == {Val("DOMAINS", "x"), [attr |-> "DOMAIN", ours |-> TRUE], [attr |-> "DOMAIN", ours |-> FALSE]}
AnyLine == Simple \cup IdLines \cup Nums \cup Comms \cup Quos \cup Other
AttrsOf(S) == {l.attr : l \in S}
MCHeaders ==
  {<<>>} \cup {<<l>> : l \in AnyLine}
  \cup {<<k, l>> : k \in AnyLine, l \in AnyLine}
  \cup {<<k, l, m>> : k \in Comms \cup Quos, l \in Comms \cup Quos, m \in Comms \cup Quos}
  \cup {<<k, IdF, l>> : k \in IdLines \cup Simple, l \in IdLines \cup Comms \cup Quos}
MCKeywords == {<<>>, <<"1", "0">>, <<"a">>, <<"a", "1">>, <<"a", "-", "b">>, <<"A", "a">>, <<"1", "+">>, <<".", "1">>, <<".">>, <<"/">>,
  <<"+", "/", "/">>, <<"+", "a">>, <<"w1", "w2">>, <<"w3">>, <<"nl">>, <<"^">>, <<"+", "^">>, <<"+", " ">>, <<"+", "+", "+", "+">>, <<Q, "+">>}
T(lines, last) == [lines |-> lines, last |-> last]
MCBase == "a" :> "a" @@ "b" :> "b" @@ "d:a" :> "a"
MCTexts ==
  {T(<<"attr", "mark", "word">>, "eof"), T(<<"mark", "note", "bad">>, "eof"),
   T(<<"attr", "word", "word">>, "eof"), T(<<"attr">>, "eof"),
   T(<<"note", "word">>, "fail"), T(<<"bad">>, "fail")}
MCHolds == "env" :> {"b"} @@ "sys" :> {"a", "b", "d:a"} @@ "pwd" :> {"a"}
MCAsked == [typ : {"name", "path"}, name : {"a", "b", "d:a"}, uld : {"none"}, ulf : BOOLEAN]
   \cup [typ : {"uld"}, name : {"a"}, uld : {"ok", "bad", "nospec"}, ulf : BOOLEAN]
MCSP == <<"env", "sys">>
MCFP == <<"pwd">>

MCAsked2Class == {a \in [lang : {"c", "cpp", "cppcli", "cs", "java"}, conf : {"ulc", "uld", "name"}, out : {"none", "f", "o"},
   other : BOOLEAN, cls : BOOLEAN, enum : BOOLEAN, enc : BOOLEAN] : (a.other => a.out = "o") /\ (a.enc => a.conf = "ulc")}
MCBefore == {{}, {"class", "impl"}, {"impl", "asked"}, {"class", "impl", "asked"}}
MCUldLines == <<"line 1", "line 2">>

VARIABLE part

SpecificationInit ==
  /\ part \in {"literal", "files", "header", "emission"}
  /\ IF part = "literal" THEN Init ELSE spec = <<CHOOSE l \in Refused : TRUE>> /\ Init
  /\ IF part = "files" THEN FilesInit ELSE conf = (CHOOSE c \in Asked : TRUE) /\ FilesInit
  /\ IF part = "emission" THEN EmissionInit
     ELSE ask = (CHOOSE a \in Asked2Class : ~Uld(a)) /\ again = "same" /\ at = "create" /\ code = 0 /\ files = <<>>
  /\ hlines \in (IF part = "header" THEN Headers ELSE {<<>>}) /\ HeaderStart
SpecificationNext ==
  /\ UNCHANGED part
  /\ \/ part = "literal" /\ Next /\ UNCHANGED <<filesVars, headerVars, emitVars>>
     \/ part = "files" /\ LoadStep /\ UNCHANGED <<vars, headerVars, emitVars>>
     \/ part = "header" /\ HeaderStep /\ UNCHANGED <<vars, filesVars, emitVars>>
     \/ part = "emission" /\ EmissionStep /\ UNCHANGED <<vars, filesVars, headerVars>>
=============================================================================
