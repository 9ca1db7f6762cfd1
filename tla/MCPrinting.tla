----------------------------- MODULE MCPrinting -----------------------------
(* Every conversion with its flags, width and precision, followed by a "%d"  *)
(* that shows whether the arguments are in step; buffers that are too short; *)
(* names that are registered; and every pair of twelve small programs.       *)
EXTENDS Printing

Case(name, arg) == [name |-> name, arg |-> arg]
Ints == {[int |-> -128], [int |-> 0], [int |-> 93]}
Dbl(neg, ip, fp, special) == [dbl |-> [neg |-> neg, ip |-> ip, fp |-> fp, special |-> special]]
Dbls == {Dbl(FALSE, <<>>, <<>>, <<>>), Dbl(TRUE, <<"1", "0">>, <<"2", "5">>, <<>>),
         Dbl(FALSE, <<>>, <<"0", "0", "4">>, <<>>), Dbl(FALSE, <<>>, <<>>, <<"I">>)}
Lex(long) == [uls |-> [long |-> long, coord |-> <<"i", ":", "7">>, tokname |-> <<"T">>, lexeme |-> <<"k">>]]
MCCore == Lex(FALSE).uls
Cases ==
  {Case(n, a) : n \in {<<"d">>, <<"u">>, <<"x">>, <<"X">>, <<"o">>, <<"l", "l", "d">>, <<"L", "X">>}, a \in Ints}
  \cup {Case(<<"p">>, [int |-> 93])}
  \cup {Case(n, a) : n \in {<<"f">>, <<"e">>, <<"l", "g">>}, a \in Dbls}
  \cup {Case(n, [str |-> <<"s", "t">>]) : n \in {<<"s">>, <<"w", "s">>}}
  \cup {Case(<<"c">>, [str |-> <<"s">>]), Case(<<"z">>, Nothing)}

None == [how |-> "none", n |-> 0]
Num(n) == [how |-> "num", n |-> n]
Dynamic(n) == [how |-> "star", n |-> n]
Conv(flags, width, prec, c) ==
  [flags |-> flags, width |-> width, prec |-> prec, name |-> c.name, arg |-> c.arg]
Plain(c) == Conv(<<>>, None, None, c)
D(n) == Plain(Case(<<"d">>, [int |-> n]))

\* A call with its parts; `procs' says what the names stand for.
Prints(op, parts, procs, more) ==
  [op |-> op, fmt |-> Format(parts), args |-> Arguments(parts, procs), says |-> parts] @@ more
Sized(n) == [size |-> n]

OneConversion ==
  {<<Prints("snprintf", <<Text(<<"(">>), Conv(f, w, p, c), [percent |-> TRUE], D(5)>>, Standard, Sized(40))>> :
     f \in {<<>>, <<"-">>, <<"0">>, <<"-", "0", "+">>, <<"#", "+">>, <<"#", "0">>},
     w \in {None, Num(5), Dynamic(6), Dynamic(-6)}, p \in {None, Dynamic(-1)}, c \in Cases}
  \cup {<<Prints("snprintf", <<Conv(f, w, p, c), D(5)>>, Standard, Sized(40))>> :
     f \in {<<>>, <<"-", "0">>, <<"0">>, <<"#">>}, w \in {None, Num(9)}, p \in {Num(0), Num(2), Dynamic(1)},
     c \in {x \in Cases : "dbl" \in DOMAIN x.arg}}
Short ==
  {<<Prints("snprintf", <<Text(<<"(", "a">>), Conv(<<"-">>, Num(4), None, Case(<<"d">>, [int |-> -3])), D(7)>>,
            Standard, Sized(n))>> : n \in 0 .. 10}
Registers(n, p) == [op |-> "register", name |-> n, proc |-> p]
NewNames == {<<"q">>, <<"q", "q">>, <<"d">>, <<"d", "x">>, <<"x">>, <<"q", "q", "q", "q">>}
Registering ==
  {<<Registers(n, p),
     Prints("snprintf", <<D(6), Plain(Case(u, [int |-> 4])), D(5)>>, (n :> MeaningOf(n, p)) @@ Standard, Sized(20))>> :
     n \in NewNames, u \in {<<"q">>, <<"d", "x">>, <<"x">>, <<"d">>}, p \in {"user", "nil"}}
  \cup {<<Registers(<<"q">>, "x"), Registers(<<"q", "q">>, "user"),
          Prints("snprintf", <<Plain(Case(<<"q", "q">>, [int |-> 1])), Plain(Case(<<"q">>, [int |-> 3]))>>,
                 <<"q", "q">> :> "user" @@ <<"q">> :> "x" @@ Standard, Sized(20))>>}
Alone == OneConversion \cup Short \cup Registering

\* Pairs of programs.
Msg == <<Text(<<"a">>), D(1), Text(<<"cr", "lf">>)>>
On(op, p) == Prints(op, Msg, Standard, [port |-> p])
Logs == Prints("uls_log", <<Plain(Case(<<"t">>, Nothing)), D(1)>>, <<"t">> :> "logtokname" @@ Standard, <<>>)
Errs == Prints("err_log", <<Plain(Case(<<"w">>, Lex(FALSE))), D(2)>>, <<"w">> :> "coord" @@ Standard, <<>>)
Change(op, p, how) == [op |-> op, port |-> p, puts |-> how]
Close(p) == [op |-> "close", port |-> p]
Sysprn(p, how, size, n) ==
  <<[op |-> "sysprn_open", port |-> p, puts |-> how], [op |-> "sysprn_set_tabsiz", n |-> size],
    [Prints("sysprn", <<Text(<<"a">>), D(1)>>, Standard, [tabs |-> n])
     EXCEPT !.says = <<Text(Times(" ", n * Min({size, TabBufSize})))>> \o @],
    [op |-> "sysprn_close"]>>
Small ==
  <<<<Errs, Errs>>, <<Logs, Logs>>, <<On("printf", "out"), On("fprintf", "out")>>,
    <<On("printf", "disk")>>, <<On("fprintf", "disk"), On("fprintf", "tty")>>,
    <<Change("err_change_port", "out", Nil), Close("err"), Errs>>,
    <<Change("uls_log_change", "text", "puts_csz"), Close("err"), Logs>>,
    <<Change("err_change_port", "text", "puts_csz")>>, <<Change("uls_log_change", Nil, Nil)>>,
    Sysprn("out", Nil, 3, 2), Sysprn("tty", "puts_cons", 5, 3),
    <<Prints("snprintf", Msg, Standard, Sized(9)), Logs>>>>
MCThreads == {"A", "B"}
Pairs == UNION {{[t \in MCThreads |-> IF t = "A" THEN Small[i] ELSE Small[j]] : j \in i .. Len(Small)} :
                  i \in DOMAIN Small}
MCPrograms == Pairs \cup {[t \in MCThreads |-> IF t = "A" THEN p ELSE <<>>] : p \in Alone}
MCStreams == {"out", "disk", "tty", "err"}
MCRoomOf == [p \in MCStreams |-> CASE p = "out" -> 60 [] p = "disk" -> 3 [] p = "tty" -> 2 [] OTHER -> 60]
=============================================================================
