------------------------------ MODULE Printing ------------------------------
(* The printing calls of the library, made by several threads: uls_log.c,   *)
(* uls_print.c and the puts of uls_lf_xputs.c. Each has a format context    *)
(* with a lock of its own; ports and formats are as in Formats.             *)
EXTENDS Directives

CONSTANTS
  Threads,
  Programs,     \* what the threads call: functions from Threads to sequences
  Streams,      \* ports that are FILEs
  Stderr,       \* one of them
  Buffered,     \* those of them that write when they are flushed
  Others,       \* ports of another kind: strings that grow
  RoomOf,       \* what fits into a stream: the disk may be full
  TabBufSize,   \* ULS_SYSPRN_TABBUF_SIZE
  Core          \* what the log's analyser prints for %w, %t and %k

ASSUME PrintingConstants ==
  /\ TabBufSize \in Nat \ {0}
  /\ RoomOf \in [Streams -> Nat] /\ Buffered \subseteq Streams /\ Stderr \in Streams
  /\ Threads \cap (Streams \cup Others) = {} /\ "nil" \notin Threads \cup Streams \cup Others

Nil == "nil"
Ports == Streams \cup Others \cup Threads    \* a thread has a buffer of its own
Locks == {"lf_syserr", "log", "log_lf", "sysprn_lf", "str_lf", "file_lf"}
ErrMap == uls_add_default_convspecs(DefaultMap)
LogMap == uls_add_default_log_convspecs(DefaultMap)

VARIABLES
  stray,      \* texts given to a port that was closed or of another kind
  given,      \* the procedures that were registered, by name
  todo,       \* the calls a thread has still to make
  act,        \* what it is doing
  holder,     \* of each lock
  map,        \* dfl_convspec_map
  syserr,     \* fp_lf_syserr, and the puts of lf_syserr; how often they were
              \* changed, and whether two changes were made at a time
  log,        \* log_port and log_puts, and the puts of its format context
  sysprn,     \* sysprn_opened, dfl_sysprn_xdat, the puts, the width of a tab
  filelf,     \* the puts of dfl_file_lf
  port        \* what each port has been given, its room, whether it is open

vars == <<stray, given, todo, act, holder, map, syserr, log, sysprn, filelf, port>>

Free(t, l) == holder[l] \in {Nil, t}
Idle == [pc |-> "idle"]

(* -------- ports -------- *)

\* A console takes the two characters of a line's end for one.
Joined(text) ==
  LET begins[i \in 0 .. Len(text)] ==
        /\ i \in 1 .. Len(text) - 1
        /\ {text[i], text[i + 1]} = {"cr", "lf"}
        /\ ~begins[i - 1]
      kept == SelectSeq([i \in DOMAIN text |-> i], LAMBDA i : ~begins[i - 1])
  IN [k \in DOMAIN kept |-> IF begins[kept[k]] THEN "lf" ELSE text[kept[k]]]

\* What one call of a puts leaves at a port with this room, and whether it
\* succeeded. A string of fixed size takes all or nothing, a buffered stream
\* takes all and may lose it: the result of its fflush() is not looked at.
Write(p, room, text) ==
  [did |-> SubSeq(text, 1, Min({room, Len(text)})), ok |-> Len(text) <= room \/ p \in Buffered]
puts(how, p, room, text) ==
  CASE how = "puts_null" -> [did |-> <<>>, ok |-> TRUE]
    [] how = "puts_str"  -> IF room <= Len(text) THEN [did |-> <<>>, ok |-> FALSE]
                            ELSE [did |-> text, ok |-> TRUE]
    [] how = "puts_csz"  -> [did |-> text, ok |-> TRUE]
    [] how = "puts_file" -> Write(p, room, text)
    [] how = "puts_cons" -> Write(p, room, Joined(text))

\* Several, up to the first that fails.
PutAll(how, p, room, texts) ==
  FoldLeft(LAMBDA done, text :
             IF ~done.ok THEN done
             ELSE LET w == puts(how, p, room - Len(done.did), text)
                  IN [did |-> done.did \o w.did, ok |-> w.ok],
           [did |-> <<>>, ok |-> TRUE], texts)

\* Which ports a puts is for; a text given to another, or to one that is
\* closed, is not stored.
Suits(how, p) ==
  CASE how = "puts_null" -> TRUE
    [] how = "puts_str"  -> p \in Threads
    [] how = "puts_csz"  -> p \in Others
    [] OTHER             -> p \in Streams
Fits(how, p) ==
  Suits(how, p) /\ (how # "puts_null" /\ p \in Streams \cup Others => port[p].open)
RoomAt(p) == IF p = Nil THEN 0 ELSE port[p].room
Given(a, how, texts) ==
  IF Fits(how, a.port) THEN PutAll(how, a.port, RoomAt(a.port), texts) ELSE [did |-> <<>>, ok |-> TRUE]
\* The pieces of a message carry the call they are of.
Stored(t, a, did) ==
  IF did = <<>> THEN port
  ELSE [port EXCEPT
          ![a.port].got = Append(@, [by |-> t, left |-> a.left, way |-> a.way, text |-> did]),
          ![a.port].room = Max({0, @ - Len(did)})]
\* Texts at ports that do not take them, with what explains it: the message
\* overlaps a change of the port, or a change is being made, or two were.
Changing(pc) == \E u \in Threads : act[u].pc = pc
Strayed(a, how) ==
  IF Fits(how, a.port) THEN stray
  ELSE stray \cup {[way |-> a.way, overlaps |-> a.changes # syserr.changes,
                    changing |-> Changing("change_log"), crossed |-> syserr.crossed \/ log.crossed]}
Put(t, a, how, texts) ==
  /\ port' = Stored(t, a, Given(a, how, texts).did)
  /\ stray' = Strayed(a, how)

(* -------- a call and its formatting -------- *)

Calls(t, op) == act[t].pc = "idle" /\ todo[t] # <<>> /\ Head(todo[t]).op = op
Begun(t) == todo' = [todo EXCEPT ![t] = Tail(@)]
Does(t, a) == act' = [act EXCEPT ![t] = a]
Returns(t) == Does(t, Idle)
Locked(t, l) == Free(t, l) /\ holder' = [holder EXCEPT ![l] = t]
Releases(ls) == holder' = [l \in Locks |-> IF l \in ls THEN Nil ELSE holder[l]]

\* A message on its way: where to, by which puts, how far its format is, what
\* was said of each of its parts, how often the port had been changed, and a
\* puts that is kept for its end.
Message(t, way, p, how, pc) ==
  [pc |-> pc, way |-> way, port |-> p, puts |-> how, call |-> Head(todo[t]), left |-> Len(todo[t]),
   fr |-> [wrd |-> 1, at |-> 1, args |-> Head(todo[t]).args], said |-> <<>>, ok |-> TRUE,
   changes |-> IF Changing("change_err") THEN -1 ELSE syserr.changes, kept |-> Nil]
MapOf(way) == CASE way = "err_log" -> ErrMap [] way = "uls_log" -> LogMap [] OTHER -> map

\* Texts next to each other are one.
Say(said, is, text) ==
  IF is = "text" /\ said # <<>> /\ Last(said).is = "text"
  THEN Append(Front(said), [is |-> is, text |-> Last(said).text \o text])
  ELSE Append(said, [is |-> is, text |-> text])
SaidOf(said, r) ==
  LET before == IF r.chunk = <<>> THEN said ELSE Say(said, "text", FlattenSeq(r.chunk))
  IN IF r.is = "conv" THEN Say(before, "conv", FlattenSeq(r.conv)) ELSE before

\* __uls_lf_vxprintf(): up to the end or to a puts that fails.
vxprintf(t) ==
  /\ act[t].pc = "rounds"
  /\ \E fmt \in {act[t].call.fmt}, fr \in {act[t].fr} :
     \E stop \in {Percent(fmt, fr)} :
     \E pf \in {uls_pars_perfmt(fmt, stop + 1)} :
     \E found \in {FindProc(fmt, stop + 1, pf, MapOf(act[t].way))} :
     \E c \in {Converted(found.proc, pf, fr.args, Core)} :
     \E r \in {Round(fmt, fr, stop, found, c)} :
     \E w \in {Given(act[t], act[t].puts, r.chunk \o r.conv)} :
       /\ Does(t, [act[t] EXCEPT !.fr = r.fr, !.said = SaidOf(@, r), !.ok = w.ok,
                                 !.pc = IF r.end \/ ~w.ok THEN "printed" ELSE "rounds"])
       /\ IF r.chunk \o r.conv = <<>> THEN UNCHANGED <<port, stray>>
          ELSE /\ port' = Stored(t, act[t], w.did)
               /\ stray' = Strayed(act[t], act[t].puts)
  /\ UNCHANGED <<given, todo, holder, map, syserr, log, sysprn, filelf>>

(* -------- err_log() -------- *)

\* The port and the puts for the line's end are read before the lock is taken.
err_vlog(t) ==
  /\ Calls(t, "err_log") /\ Begun(t)
  /\ Does(t, [Message(t, "err_log", syserr.fp, syserr.puts, "lock_err")
              EXCEPT !.kept = syserr.puts])
  /\ UNCHANGED <<stray, given, holder, map, syserr, log, sysprn, filelf, port>>
ErrLock_Passes(t) ==                  \* mutant: the lock is not waited for
  /\ act[t].pc = "lock_err" /\ holder' = [holder EXCEPT !["lf_syserr"] = t]
  /\ Does(t, [act[t] EXCEPT !.pc = "rounds", !.puts = syserr.puts])
  /\ UNCHANGED <<stray, given, todo, map, syserr, log, sysprn, filelf, port>>
ErrLock(t) ==
  /\ act[t].pc = "lock_err" /\ Locked(t, "lf_syserr")
  /\ Does(t, [act[t] EXCEPT !.pc = "rounds", !.puts = syserr.puts])
  /\ UNCHANGED <<stray, given, todo, map, syserr, log, sysprn, filelf, port>>
ErrEnd(t) ==
  /\ act[t].pc = "printed" /\ act[t].way = "err_log"
  /\ Put(t, act[t], act[t].kept, <<<<"lf">>>>)
  /\ Releases({"lf_syserr"}) /\ Returns(t)
  /\ UNCHANGED <<given, todo, map, syserr, log, sysprn, filelf>>

\* err_change_port(): the port without the lock, the puts under it.
NullPuts(p, how) == CASE how # Nil -> how [] how = Nil /\ p = Nil -> "puts_null" [] OTHER -> "puts_cons"
err_change_port(t) ==
  /\ Calls(t, "err_change_port") /\ Begun(t)
  /\ syserr' = [syserr EXCEPT !.fp = Head(todo[t]).port, !.changes = @ + 1,
                              !.crossed = @ \/ Changing("change_err")]
  /\ Does(t, [pc |-> "change_err", puts |-> NullPuts(Head(todo[t]).port, Head(todo[t]).puts)])
  /\ UNCHANGED <<stray, given, holder, map, log, sysprn, filelf, port>>
ErrChange(t) ==
  /\ act[t].pc = "change_err" /\ Free(t, "lf_syserr")
  /\ syserr' = [syserr EXCEPT !.puts = act[t].puts] /\ Returns(t)
  /\ UNCHANGED <<stray, given, todo, holder, map, log, sysprn, filelf, port>>

(* -------- uls_log() -------- *)

\* The tag and the line come first, if they fit into N_LOGBUF_CHARS.
uls_vlog(t) ==
  /\ Calls(t, "uls_log") /\ Begun(t) /\ Locked(t, "log") /\ Free(t, "str_lf")
  /\ \E a \in {Message(t, "uls_log", log.port, log.puts, "lock_log_lf")} :
       /\ Does(t, a)
       /\ Put(t, a, log.puts, IF Core.long THEN <<>> ELSE <<Core.coord>>)
  /\ UNCHANGED <<given, map, syserr, log, sysprn, filelf>>
LogLf(t) ==
  /\ act[t].pc = "lock_log_lf" /\ Locked(t, "log_lf")
  /\ Does(t, [act[t] EXCEPT !.pc = "rounds", !.puts = log.lf])
  /\ UNCHANGED <<stray, given, todo, map, syserr, log, sysprn, filelf, port>>
LogEnd(t) ==
  /\ act[t].pc = "printed" /\ act[t].way = "uls_log"
  /\ Put(t, act[t], log.puts, <<<<"lf">>>>)
  /\ Releases({"log", "log_lf"}) /\ Returns(t)
  /\ UNCHANGED <<given, todo, map, syserr, log, sysprn, filelf>>

\* uls_log_change(): port and puts, and after unlocking the format context's.
uls_log_change(t) ==
  /\ Calls(t, "uls_log_change") /\ Begun(t) /\ Free(t, "log")
  /\ \E how \in {NullPuts(Head(todo[t]).port, Head(todo[t]).puts)} :
       /\ log' = [log EXCEPT !.port = Head(todo[t]).port, !.puts = how,
                             !.crossed = @ \/ Changing("change_log")]
       /\ Does(t, [pc |-> "change_log", puts |-> how])
  /\ UNCHANGED <<stray, given, holder, map, syserr, sysprn, filelf, port>>
LogChange(t) ==
  /\ act[t].pc = "change_log" /\ Free(t, "log_lf")
  /\ log' = [log EXCEPT !.lf = act[t].puts] /\ Returns(t)
  /\ UNCHANGED <<stray, given, todo, holder, map, syserr, sysprn, filelf, port>>

(* -------- uls_sysprn() -------- *)

\* The lock is held from open to close; that it is open is seen without it.
\* A caller that is refused goes on after its close.
Skipped(calls) ==
  LET close == {k \in DOMAIN calls : calls[k].op = "sysprn_close"}
  IN SubSeq(calls, Min(close) + 1, Len(calls))
Tab(n) ==
  IF n > 0 THEN [ch |-> " ", siz |-> Min({n, TabBufSize})] ELSE [ch |-> "tab", siz |-> 1]
uls_sysprn_open(t) ==
  /\ Calls(t, "sysprn_open")
  /\ \/ /\ sysprn.opened
        /\ todo' = [todo EXCEPT ![t] = Skipped(@)]
        /\ UNCHANGED act
     \/ /\ ~sysprn.opened /\ Begun(t)
        /\ Does(t, [pc |-> "lock_sysprn", call |-> Head(todo[t])])
  /\ UNCHANGED <<stray, given, holder, map, syserr, log, sysprn, filelf, port>>
SysprnLock(t) ==
  /\ act[t].pc = "lock_sysprn" /\ Locked(t, "sysprn_lf")
  /\ sysprn' = [opened |-> TRUE, xdat |-> act[t].call.port, tab |-> Tab(0),
                puts |-> IF act[t].call.puts # Nil THEN act[t].call.puts ELSE "puts_file"]
  /\ Returns(t)
  /\ UNCHANGED <<stray, given, todo, map, syserr, log, filelf, port>>
uls_sysprn_set_tabsiz(t) ==
  /\ Calls(t, "sysprn_set_tabsiz") /\ Begun(t)
  /\ sysprn' = IF sysprn.opened THEN [sysprn EXCEPT !.tab = Tab(Head(todo[t]).n)] ELSE sysprn
  /\ UNCHANGED <<stray, given, act, holder, map, syserr, log, filelf, port>>

\* uls_sysprn_tabs(): n tabs from a buffer that holds a whole number of them,
\* then the message, both without the lock.
Tabs(n, tab) ==
  LET ntabs == TabBufSize \div tab.siz
      full == Times(Times(tab.ch, tab.siz * ntabs), n \div ntabs)
  IN IF n <= 0 THEN <<>>
     ELSE NonEmpty(Append(full, Times(tab.ch, (n % ntabs) * tab.siz)))
uls_sysprn_tabs(t) ==
  /\ Calls(t, "sysprn") /\ Begun(t)
  /\ \E a \in {Message(t, "sysprn", sysprn.xdat, sysprn.puts, "rounds")} :
     \E tabs \in {Tabs(Head(todo[t]).tabs, sysprn.tab)} :
       /\ Does(t, [a EXCEPT !.said = IF tabs = <<>> THEN <<>> ELSE Say(<<>>, "text", FlattenSeq(tabs))])
       /\ Put(t, a, sysprn.puts, tabs)
  /\ UNCHANGED <<given, holder, map, syserr, log, sysprn, filelf>>
SysprnEnd(t) ==
  /\ act[t].pc = "printed" /\ act[t].way = "sysprn" /\ Returns(t)
  /\ UNCHANGED <<stray, given, todo, holder, map, syserr, log, sysprn, filelf, port>>
uls_sysprn_close_Holds(t) ==          \* mutant: the lock is not released
  /\ Calls(t, "sysprn_close") /\ Begun(t)
  /\ sysprn' = [sysprn EXCEPT !.opened = FALSE, !.xdat = Nil, !.puts = "puts_null"]
  /\ UNCHANGED <<stray, given, act, holder, map, syserr, log, filelf, port>>
uls_sysprn_close(t) ==
  /\ Calls(t, "sysprn_close") /\ Begun(t)
  /\ IF sysprn.opened
     THEN /\ sysprn' = [sysprn EXCEPT !.opened = FALSE, !.xdat = Nil, !.puts = "puts_null"]
          /\ Releases({"sysprn_lf"})
     ELSE UNCHANGED <<sysprn, holder>>
  /\ UNCHANGED <<stray, given, act, map, syserr, log, filelf, port>>

(* -------- uls_printf(), uls_fprintf(), uls_snprintf() -------- *)

\* uls_printf() has the puts of the file's context changed for its time.
uls_vprintf(t) ==
  /\ Calls(t, "printf") /\ Begun(t) /\ Locked(t, "file_lf")
  /\ filelf' = "puts_cons"
  /\ Does(t, [Message(t, "printf", Head(todo[t]).port, "puts_cons", "rounds")
              EXCEPT !.kept = filelf])
  /\ UNCHANGED <<stray, given, map, syserr, log, sysprn, port>>
PrintfEnd_Keeps(t) ==                 \* mutant: the puts of printf stays
  /\ act[t].pc = "printed" /\ act[t].way = "printf"
  /\ Releases({"file_lf"}) /\ Returns(t)
  /\ UNCHANGED <<stray, given, todo, map, syserr, log, sysprn, filelf, port>>
PrintfEnd(t) ==
  /\ act[t].pc = "printed" /\ act[t].way = "printf"
  /\ filelf' = act[t].kept /\ Releases({"file_lf"}) /\ Returns(t)
  /\ UNCHANGED <<stray, given, todo, map, syserr, log, sysprn, port>>
uls_vfprintf(t) ==
  /\ Calls(t, "fprintf") /\ Begun(t) /\ Locked(t, "file_lf")
  /\ Does(t, Message(t, "fprintf", Head(todo[t]).port, filelf, "rounds"))
  /\ UNCHANGED <<stray, given, map, syserr, log, sysprn, filelf, port>>

\* A buffer of `size' bytes keeps one for the NUL and one more.
uls_vsnprintf(t) ==
  /\ Calls(t, "snprintf") /\ Begun(t)
  /\ port' = [port EXCEPT ![t] = [got |-> <<>>, room |-> Max({0, Head(todo[t]).size - 1}), open |-> TRUE]]
  /\ IF Head(todo[t]).size <= 1 THEN UNCHANGED <<act, holder>>
     ELSE /\ Locked(t, "str_lf")
          /\ Does(t, Message(t, "snprintf", t, "puts_str", "rounds"))
  /\ UNCHANGED <<stray, given, map, syserr, log, sysprn, filelf>>
LockedEnd(t) ==
  /\ act[t].pc = "printed" /\ act[t].way \in {"fprintf", "snprintf"}
  /\ Releases({IF act[t].way = "fprintf" THEN "file_lf" ELSE "str_lf"}) /\ Returns(t)
  /\ UNCHANGED <<stray, given, todo, map, syserr, log, sysprn, filelf, port>>

(* -------- the rest -------- *)

Register(t) ==
  /\ Calls(t, "register") /\ Begun(t)
  /\ map' = uls_lf_register_convspec(map, map, Head(todo[t]).name, Head(todo[t]).proc)
  /\ given' = IF IsName(Head(todo[t]).name)
              THEN (Head(todo[t]).name :> Head(todo[t]).proc) @@ given ELSE given
  /\ UNCHANGED <<stray, act, holder, syserr, log, sysprn, filelf, port>>

\* The caller closes a port that no context is set to (external).
ClosePort(t) ==
  /\ Calls(t, "close") /\ Begun(t)
  /\ \E p \in {Head(todo[t]).port} :
       port' = IF p \in {syserr.fp, log.port, sysprn.xdat} THEN port ELSE [port EXCEPT ![p].open = FALSE]
  /\ UNCHANGED <<stray, given, act, holder, map, syserr, log, sysprn, filelf>>

(* -------- the programs -------- *)

\* The calls that name a port, and the puts each will have there.
Naming == {"printf", "fprintf", "err_change_port", "uls_log_change", "sysprn_open"}
Procs == {"puts_null", "puts_str", "puts_csz", "puts_file", "puts_cons"}
PutsOf(c) ==
  CASE c.op \in {"err_change_port", "uls_log_change"} -> NullPuts(c.port, c.puts)
    [] c.op = "sysprn_open" /\ c.puts # Nil -> c.puts
    [] OTHER -> "puts_file"

\* Between sysprn_open and sysprn_close: a close comes before the next open.
Inside(calls, k) ==
  \E m \in k .. Len(calls) : /\ calls[m].op = "sysprn_close"
                           /\ \A j \in k .. m - 1 : calls[j].op # "sysprn_open"
InSections(calls) ==
  \A k \in DOMAIN calls :
    /\ calls[k].op = "sysprn" => Inside(calls, k)
    /\ calls[k].op = "sysprn_open" => Inside(calls, k + 1)
    /\ calls[k].op = "sysprn_close" => ~Inside(calls, k + 1)
\* A port that is closed is named by no other thread, nor later by the same.
ClosedLast(program) ==
  \A t, u \in Threads : \A i \in DOMAIN program[t], k \in DOMAIN program[u] :
    (/\ program[t][i].op = "close" /\ program[u][k].op \in Naming
     /\ program[t][i].port = program[u][k].port) => t = u /\ k < i

\* What uls_lf_puts_*() and the console's lock take for granted: ports are of
\* the kind of their puts and not closed, and uls_sysprn() is called between
\* an open and its close.
OrderlyCall(c) ==
  c.op \in Naming => PutsOf(c) \in Procs /\ Suits(PutsOf(c), c.port)
ASSUME ProgramsAreOrderly ==
  \A program \in Programs :
    /\ program = [t \in Threads |-> program[t]] /\ ClosedLast(program)
    /\ \A t \in Threads :
         /\ program[t] \in Seq(Range(program[t])) /\ \A c \in Range(program[t]) : OrderlyCall(c)
         /\ InSections(program[t]) /\ ~Inside(program[t], 1)

Init ==
  /\ todo \in Programs
  /\ act = [t \in Threads |-> Idle]
  /\ holder = [l \in Locks |-> Nil]
  /\ map = DefaultMap /\ given = <<>> /\ stray = {}
  /\ syserr = [fp |-> Stderr, puts |-> "puts_cons", changes |-> 0, crossed |-> FALSE]
  /\ log = [port |-> Stderr, puts |-> "puts_cons", lf |-> "puts_cons", crossed |-> FALSE]
  /\ sysprn = [opened |-> FALSE, xdat |-> Nil, puts |-> "puts_null", tab |-> Tab(0)]
  /\ filelf = "puts_file"
  /\ port = [p \in Ports |-> [got |-> <<>>, open |-> TRUE,
                              room |-> IF p \in Streams THEN RoomOf[p] ELSE 0]]

Step(t) ==
  \/ vxprintf(t)
  \/ err_vlog(t) \/ ErrLock(t) \/ ErrEnd(t) \/ err_change_port(t) \/ ErrChange(t)
  \/ uls_vlog(t) \/ LogLf(t) \/ LogEnd(t) \/ uls_log_change(t) \/ LogChange(t)
  \/ uls_sysprn_open(t) \/ SysprnLock(t) \/ uls_sysprn_set_tabsiz(t) \/ uls_sysprn_tabs(t)
  \/ SysprnEnd(t) \/ uls_sysprn_close(t)
  \/ uls_vprintf(t) \/ PrintfEnd(t) \/ uls_vfprintf(t) \/ uls_vsnprintf(t) \/ LockedEnd(t)
  \/ Register(t) \/ ClosePort(t)
Next == \E t \in Threads : Step(t)
Spec == Init /\ [][Next]_vars /\ \A t \in Threads : WF_vars(Step(t))

-----------------------------------------------------------------------------
(* -------- properties -------- *)

\* What the names of a message's conversions stand for. (uls_log's tokens
\* take no argument.)
ProcsFor(way) ==
  CASE way = "err_log" -> (<<"w">> :> "coord" @@ <<"t">> :> "tokname" @@ <<"k">> :> "keyword") @@ Standard
    [] way = "uls_log" -> (<<"w">> :> "logcoord" @@ <<"t">> :> "logtokname" @@ <<"k">> :> "logkeyword")
                          @@ Standard
    [] OTHER -> [n \in DOMAIN given |-> MeaningOf(n, given[n])] @@ Standard

\* A message as it was meant, texts next to each other taken together.
Meaning(parts, procs) ==
  FoldLeft(LAMBDA m, p :
             IF IsConv(p) /\ p.name \in DOMAIN procs THEN Append(m, p)
             ELSE LET t == IF IsText(p) THEN p.text ELSE IF IsConv(p) THEN FmtOf(p) ELSE <<"%">>
                  IN IF m # <<>> /\ IsText(Last(m)) THEN Append(Front(m), Text(Last(m).text \o t))
                     ELSE Append(m, Text(t)),
           <<>>, SelectSeq(parts, LAMBDA p : FmtOf(p) # <<>>))

\* A format the library reads otherwise than its author: a listed name that
\* was given back, or a name that begins with a listed one.
OutOfStep(parts) ==
  \/ \E n \in DOMAIN given \cap ListedNames : given[n] = "nil"
  \/ \E k \in DOMAIN parts : IsConv(parts[k]) /\ \E n \in ListedNames :
       n # parts[k].name /\ IsPrefix(n, parts[k].name)

\* Every part of a format that is printed to its end is printed as it was
\* meant, each conversion from its own argument, "%%" and conversions that no
\* one knows as they stand.
FormatsMeant ==
  \A t \in Threads : (act[t].pc = "printed" /\ act[t].ok) =>
    LET a == act[t]
        procs == ProcsFor(a.way)
        meant == Meaning(a.call.says, procs)
    IN \/ OutOfStep(a.call.says)
       \/ /\ Len(a.said) = Len(meant)
          /\ \A k \in DOMAIN meant :
               IF IsText(meant[k]) THEN a.said[k] = [is |-> "text", text |-> meant[k].text]
               ELSE /\ a.said[k].is = "conv"
                    /\ Odd(meant[k])
                       \/ ConvMeant(meant[k], a.said[k].text, procs[meant[k].name], Core)

\* What a port has of a message.
Pieces(t, p) ==
  SelectSeq(port[p].got, LAMBDA g : g.by = t /\ g.left = act[t].left /\ g.way = act[t].way)
TextOf(pieces) == FlattenSeq([k \in DOMAIN pieces |-> pieces[k].text])

\* A message that did not get into its port as a whole, the file full or the
\* buffer too short, is told to the caller, and one that did is not, unless
\* the file is buffered; a buffer is never filled beyond its size.
LossIsTold ==
  \A t \in Threads :
    (act[t].pc = "printed" /\ act[t].way \in {"printf", "fprintf", "snprintf"}) =>
      LET a == act[t]
          stored == TextOf(Pieces(t, a.port))
          said == FlattenSeq([k \in DOMAIN a.said |-> a.said[k].text])
          whole == IF a.way = "printf" THEN Joined(said) ELSE said
      IN /\ a.port \notin Buffered => (a.ok <=> stored = whole)
         /\ IsPrefix(stored, whole)
         /\ a.way = "snprintf" => Len(stored) + 1 < a.call.size

\* Messages that go through the same context do not get between each other's
\* texts, whatever ports are changed meanwhile. (err_log() and uls_log() have
\* locks of their own, and on one stream their messages do mix.)
LockOf(way) ==
  CASE way = "err_log" -> "lf_syserr" [] way = "uls_log" -> "log" [] way = "sysprn" -> "sysprn_lf"
    [] way \in {"printf", "fprintf"} -> "file_lf" [] OTHER -> "str_lf"
MessagesWhole ==
  \A p \in Streams \cup Others : LET got == port[p].got IN
    \A i, j, k \in DOMAIN got :
      (/\ i < j /\ j < k
       /\ got[i].by = got[k].by /\ got[i].left = got[k].left
       /\ LockOf(got[j].way) = LockOf(got[i].way))
        => got[j].by = got[i].by /\ got[j].left = got[i].left

\* A text is given to a port that is closed, or not of its kind, only by an
\* err_log() that overlaps err_change_port(), or by an uls_log() between the
\* halves of uls_log_change(), or after two changes at a time.
StrayHasCause ==
  \A s \in stray :
    \/ s.crossed
    \/ s.way = "err_log" /\ s.overlaps
    \/ s.way = "uls_log" /\ s.changing

\* What threads print reaches the port it was meant for, and in one piece.
MessagesArrive == MessagesWhole /\ StrayHasCause

\* Every call returns: no one waits for ever for a lock.
CallsReturn ==
  <>[](/\ \A t \in Threads : act[t] = Idle /\ todo[t] = <<>>
       /\ \A l \in Locks : holder[l] = Nil)
=============================================================================
