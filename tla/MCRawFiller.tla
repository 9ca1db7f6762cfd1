---------------------------- MODULE MCRawFiller -----------------------------
(* The constants of RawFiller for TLC, and the two layers of a source, each *)
(* on its own: the filler over its buffer, and the decoder under it.       *)
EXTENDS RawFiller, MCUtfSource

CONSTANT MaxLen

UptoLen(A, n) == UNION {[1..k -> A] : k \in 0..n}

None      == <<>>
CommentsC == << [start |-> <<"/", "*">>, end |-> <<"*", "/">>],
                [start |-> <<"/", "/">>, end |-> <<"lf">>] >>
Column0   == << [start |-> <<"lf", "/">>, end |-> <<"lf">>] >>

(* A literal over several lines, and one that ends before its end mark.    *)
LiteralsQ == << [start |-> <<"q">>, end |-> <<"q">>,
                 multiline |-> TRUE, exclusive |-> FALSE],
                [start |-> <<"#">>, end |-> <<"lf">>,
                 multiline |-> FALSE, exclusive |-> TRUE] >>

Config(cs, qs, lf, line) == [commtypes |-> cs, quotetypes |-> qs,
                             lf_is_token |-> lf, start_line |-> line,
                             spaces |-> SpacesOf(cs, qs, lf)]
Comments    == Config(CommentsC, None, FALSE, 1)
Literals    == Config(None, LiteralsQ, FALSE, 1)
LfAndLine   == Config(CommentsC, LiteralsQ, TRUE, 0)    \* one prepended line
FirstColumn == Config(Column0, None, FALSE, 1)

MCConfigs == {Comments, Literals, LfAndLine, FirstColumn}

MCTextsOf(cf) ==
  CASE cf = Comments    -> UptoLen({"x", " ", "lf", "/", "*"}, MaxLen - 1)
    [] cf = Literals    -> UptoLen({"x", "lf", "q", "#", "esc"}, MaxLen)
    [] cf = LfAndLine   -> {<<"x", "lf">> \o t :
                              t \in UptoLen({"x", " ", "lf", "/", "q"}, MaxLen - 2)}
    [] cf = FirstColumn -> UptoLen({"x", "lf", "/"}, MaxLen)

VARIABLE part
sourcesVars == <<fillerVars, vars, part>>

(* The layer that is not looked at stands still: a filler at the end of an *)
(* empty text, or a decoder nobody calls.                                  *)
FillerRests ==
  /\ conf = Comments /\ text = <<>>
  /\ ibuf = [src |-> <<>>, fails |-> FALSE, buf |-> <<>>, st |-> "eof",
             line_num |-> StartLine]
  /\ loop = "eof" /\ proc = NoProc /\ zbuf = <<>>
  /\ ctx = [line |-> <<>>, lineno |-> StartLine, delta |-> 0, eof |-> TRUE]
  /\ out = <<>>
SourcesInit ==
  /\ part \in {"filler", "decoder"}
  /\ IF part = "filler" THEN FillerInit ELSE FillerRests
  /\ IF part = "decoder" THEN Init
     ELSE file = [chars |-> <<>>, cut |-> 0, fails |-> FALSE] /\ Init
SourcesNext ==
  /\ UNCHANGED part
  /\ \/ part = "filler" /\ FillerNext /\ UNCHANGED vars
     \/ part = "decoder" /\ Next /\ UNCHANGED fillerVars
Works ==
  /\ UNCHANGED part
  /\ \/ part = "filler" /\ FillerNext /\ UNCHANGED vars
     \/ part = "decoder" /\ InCall /\ UNCHANGED fillerVars
SourcesSpec == SourcesInit /\ [][SourcesNext]_sourcesVars /\ WF_sourcesVars(Works)
=============================================================================
