----------------------------- MODULE MCPushBack -----------------------------
(* Small sources to put text back in front of, and the texts to put back.  *)
EXTENDS PushBack

MCWordChars == {"a", "b"}
MCLiterals  == {"Q"}
MCEof  == <<"EOF">>
MCEoi  == <<"EOI">>
MCNone == <<"NONE">>
MCTexts == {<<"a", "b">>}
InOneLine   == Source("initial", FALSE, << <<"a", "b">> >>, <<>>)
WithLiteral == Source("initial", FALSE, << <<"a">>, <<" ", "b">> >>, <<"Q">>)
Line        == Source("line", TRUE, << <<"a", "b">> >>, <<>>)
Ended       == Source("initial", FALSE, << <<>> >>, <<>>)
MCStacks == {<<InOneLine>>, <<WithLiteral>>, <<Line, Ended>>}
=============================================================================
