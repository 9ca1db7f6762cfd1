--------------------------- MODULE MCTokenStream ----------------------------
(* Streams for TLC, in two parts: the packets of a stream, written and read*)
(* (TokenStream), and how streams and texts are opened and pushed.         *)
EXTENDS TokenStream, StreamPush, TLC

MCTextLen ==
  [t \in {"", "a", "b", "u", "v", "w", "s", "t"} |-> IF t = "" THEN 0 ELSE 1]
    @@ [t \in {"long"} |-> 30]

(* "v" has a value of two packets, "u" none, and "w" is no variable. *)
MCTemplates ==
  [t \in {"u", "v"} |-> IF t = "u" THEN {} ELSE
     {<< [tok |-> "ID", txt |-> "x"], [tok |-> "KW", txt |-> "k"] >>}]

Prints == {[op |-> "print", tok |-> "ID", txt |-> "a"],
           [op |-> "print", tok |-> "ID", txt |-> "long"],
           [op |-> "print", tok |-> TMPL, txt |-> "v"],
           [op |-> "print", tok |-> TMPL, txt |-> "u"],
           [op |-> "print", tok |-> TMPL, txt |-> "w"],
           [op |-> "linenum", note |-> Note("s", 2)],
           [op |-> "linenum", note |-> Note(NoTag, 3)],
           [op |-> "linenum", note |-> Note("", 1)]}

Notes == {Note("s", 1), Note("s", 2), Note("t", 2), Note("", 2)}
Lexed == {Tok("ID", txt, note) : txt \in {"a", "long"}, note \in Notes}
Ends  == {Tok(EOF, "", Note("s", 2)), Tok(ERR, "", Note("s", 1))}
Start(src, numbering) ==
  [op |-> "start", src |-> src, numbering |-> numbering]

(* Up to three calls that print, with or without giving up after them, or  *)
(* one source of up to three tokens.                                       *)
MCScripts ==
  UNION {[1..n -> Prints] : n \in 0..3}
  \cup {Append(s, [op |-> "giveup"]) : s \in UNION {[1..n -> Prints] : n \in 0..2}}
  \cup {<<Start(Append(toks, end), numbering)>> :
          toks \in UNION {[1..n -> Lexed] : n \in 0..2},
          end \in Ends, numbering \in BOOLEAN}

Ren(ts) == [k \in DOMAIN ts |-> [from |-> ts[k], to |-> k]]
WriterOf(names, tolds, tags, rens, types) ==
  [kind : {"writer"}, name : names, told : tolds, tag : tags, ren : rens, type : types]
MCWriters ==
  WriterOf({<<"s">>, <<"s", "t">>, <<"u">>}, BOOLEAN, {<<>>}, {<<>>, Ren(<<"A">>), Ren(<<"A", "B">>)}, {"BIN/LITTLE"})
  \cup WriterOf({<<"s">>}, {TRUE}, {<<>>, <<"v", "w">>}, {<<>>, Ren(<<"A", "B", "C">>)}, {"BIN/LITTLE", "BIN/BIG", "other"})
Lines(ls, last) == ls \o [i \in 1..HdrLen - Len(ls) - 1 |-> Fill] \o <<last>>
Remap(n, blocks) == Line("TOKEN_REMAP:", [n |-> n, blocks |-> blocks])
SpecS == Line("SPEC:", <<"s">>)
RenA == <<"ren", [from |-> "A", to |-> 1]>>
MCForeign ==
  [kind : {"foreign"},
   lines : {Lines(<<Line("FILE_VERSION:", "none")>>, Boundary), Lines(<<Line("FILE_VERSION:", "old"), SpecS, Line("TYPE:", Host)>>, Boundary),
     Lines(<<SpecS, Line("TYPE:", "other")>>, Boundary), Lines(<<SpecS, Remap(1, 1), Line("unknown:", "")>>, Boundary),
     Lines(<<SpecS, Remap(1, 1)>>, Fill), Lines(<<SpecS, Remap(3, 1)>>, Boundary), Lines(<<SpecS, Remap(1, 2)>>, Boundary)},
   blocks : {<<>>, <<RenA, Boundary>>, <<RenA, Fill>>}]
RawOf(encs, bom, texts) == [kind : {"raw"}, enc : encs, bom : bom, text : texts]
Texts == UNION {[1..n -> {"x", "wide", NUL}] : n \in 0..2} \cup {<<"x", "x", "x", "wide", "x">>, <<"x", "x", "x", "x", "x", "x">>}
MCRawTexts == RawOf({Enc(8, FALSE)}, BOOLEAN, Texts) \cup RawOf([fmt : {16, 32}, reverse : BOOLEAN], {TRUE}, Texts)
MCCutSets == {{}, {2, 7}} \cup {{c} : c \in {1, 4, 5, 8, 12}}
MCInstalled == <<"s">> :> {"A", "B", "C"} @@ <<"u">> :> {"A"}
MCPushedFiles ==
  {w \in MCWriters : w.tag = <<>> /\ w.told /\ w.name = <<"s">> /\ w.ren = <<>>}
  \cup {f \in MCForeign : f.blocks = <<>>}
  \cup {r \in MCRawTexts : r.text = <<"x", "x", "x", "wide", "x">>}
MCReaders == {<<"s">>, <<"u">>}
Adds == {[name |-> n, value |-> v] : n \in {"V", "W"}, v \in {"two", Unset, FailsFirst, FailsLater}}
MCTmplLists == [room : {2}, adds : {<<>>} \cup {<<a>> : a \in Adds}]
  \cup {[room |-> r, adds |-> <<a, [name |-> "W", value |-> Unset], [name |-> "V", value |-> "one"], [name |-> "X", value |-> "two"]>>] :
           r \in {2, 3}, a \in Adds}
MCTokensOf == "one" :> <<"x">> @@ "two" :> <<"y", "z">>
MCPrepended == {<<>>, <<<<"byte", "p">>>>}

VARIABLE part
streamsVars == <<vars, openVars, pushVars, part>>
StreamsInit ==
  /\ part \in {"replay", "open"}
  /\ Init /\ (part = "open" => fmt = "bin" /\ ostr.calls = <<>> /\ disk.space = 10)
  /\ push = NoPush
  /\ IF part = "open" THEN OpenInit
     ELSE /\ istr = NoIstr /\ left = {} /\ by = (CHOOSE w \in Writers : TRUE) /\ creation = "create" /\ file = <<>>
          /\ fd = [kind |-> "disk", room |-> 0, cuts |-> {}, pos |-> 0, start |-> 0]
Pushed == push.at \in {"done", "spin"} \/ (istr.at \in {"opened", "failed"} /\ by \notin PushedFiles)
StreamsNext ==
  /\ UNCHANGED part
  /\ \/ part = "replay" /\ Next /\ UNCHANGED <<openVars, pushVars>>
     \/ part = "open" /\ OpenStep /\ UNCHANGED <<vars, pushVars>>
     \/ part = "open" /\ PushStep /\ UNCHANGED vars
     \/ part = "open" /\ Pushed /\ UNCHANGED <<vars, openVars, pushVars>>
StreamsSpec == StreamsInit /\ [][StreamsNext]_streamsVars /\ WF_streamsVars(part = "replay" /\ Read /\ UNCHANGED <<openVars, pushVars, part>>)
=============================================================================
