----------------------------- MODULE StreamPush -----------------------------
(***************************************************************************)
(* uls_push_istream() and uls_push_istream_2(): an opened stream becomes a *)
(* context of a reader (src/src/uls_lex.c), is bound to it, and its        *)
(* variables get the tokens of their values (src/src/uls_istream.c,        *)
(* src/src/uls_stream.c).  Each value is scanned as a line of its own,     *)
(* pushed over the stream.                                                 *)
(***************************************************************************)
EXTENDS StreamHeader

CONSTANTS
  PushedFiles,  \* the files that are pushed, among those that are opened
  Readers,      \* the specifications of the readers
  Host,         \* the byte order of the machine, one of Types
  TmplLists,    \* [room, adds]: the calls of uls_add_tmpl() and the room for them
  TokensOf,     \* the tokens of a value
  Prepended     \* what PREPEND_INPUT: puts before a raw text

Unset == "no value"
FailsFirst == "fails first"   \* a value whose first fill fails: a literal without its end
FailsLater == "fails later"   \* the same, behind text that fills the buffer

VARIABLE push   \* the call: where it is, its result, its stack of contexts
pushVars == <<push>>

NoPush == [at |-> "none", rc |-> 0, stack |-> <<"base">>, refs |-> 1, reader |-> <<>>, filler |-> "",
           line |-> <<>>, tmpls |-> <<>>, vars |-> <<>>, pkts |-> <<>>, uls |-> Nil]

(* uls_add_tmpl(): a name that is there already gets the new value; the    *)
(* list has a fixed room.                                                  *)
Where(list, name) == {k \in DOMAIN list : list[k].name = name}
uls_find_tmpl(list, name) == CHOOSE k \in Where(list, name) : \A j \in Where(list, name) : k <= j
uls_add_tmpl(list, room, t) ==
  IF Where(list, t.name) # {} THEN [list EXCEPT ![uls_find_tmpl(list, t.name)] = t]
  ELSE IF Len(list) < room THEN Append(list, t) ELSE list
TmplList(l) == FoldLeft(LAMBDA list, t : uls_add_tmpl(list, l.room, t), <<>>, l.adds)

(* find_isrc_filler(): nothing for a stream without a type.                *)
find_isrc_filler ==
  CASE istr.filetype = "raw" -> "raw"
    [] istr.subtype = "" -> ""
    [] istr.subtype = "TEXT/ASCII" -> "text"
    [] istr.subtype = Host -> "host order"
    [] OTHER -> "reverse order"

Top == Last(push.stack)
(* uls_pop() releases the source of the top context: a stream is destroyed *)
(* unless one more holds it.                                               *)
Popped(rc) ==
  push' = [push EXCEPT !.at = "done", !.rc = rc, !.stack = Front(@), !.refs = IF Top = "stream" THEN @ - 1 ELSE @]

PushStart ==
  /\ istr.at \in {"opened", "failed"} /\ push.at = "none" /\ by \in PushedFiles
  /\ \E r \in Readers, l \in TmplLists, p \in Prepended :
       push' = CASE istr.at = "failed" -> [push EXCEPT !.at = "done", !.rc = -1]
                 [] istr.at = "opened" /\ find_isrc_filler = "" -> [push EXCEPT !.at = "done", !.rc = -2]
                 [] OTHER -> [push EXCEPT !.at = "bind", !.stack = Append(@, "stream"), !.reader = r,
                      !.filler = find_isrc_filler, !.tmpls = TmplList(l),
                      !.line = IF find_isrc_filler = "raw" THEN p \o istr.firstline ELSE istr.firstline]
  /\ UNCHANGED openVars

(* uls_bind_istream(): only the name and the version are compared; the     *)
(* analyser of the stream is the reader's then, renamed tokens or not.     *)
uls_spec_compatible(r) == istr.filetype = "raw" \/ (r = istr.spec /\ istr.ver = "now")
PushBind ==
  /\ push.at = "bind"
  /\ IF ~uls_spec_compatible(push.reader) THEN Popped(-4)
     ELSE push' = [push EXCEPT !.uls = push.reader,
                    !.at = IF istr.filetype = "raw" \/ push.tmpls = <<>> THEN "fill" ELSE "tmpls"]
  /\ UNCHANGED openVars

(* make_tokpkt_seqence() on the value of the next variable.  When its first*)
(* fill fails, the line stays on the stack, and the pop of the caller pops *)
(* the line.  When a later fill fails, ERR is no EOF and the loop goes on. *)
Next1Value == push.tmpls[Len(push.vars) + 1].value
Scanned(v) == IF v \in {Unset, FailsFirst, FailsLater} THEN <<>> ELSE TokensOf[v]
Var(n) == [name |-> push.tmpls[Len(push.vars) + 1].name, n |-> n, i0 |-> 0]
make_tokpkt_seqence ==
  /\ push.at = "tmpls" /\ Len(push.vars) < Len(push.tmpls)
  /\ CASE Next1Value = Unset -> push' = [push EXCEPT !.vars = Append(@, Var(-1))]
       [] Next1Value = FailsFirst -> push' = [push EXCEPT !.at = "done", !.rc = -5, !.pkts = <<>>, !.vars = <<>>]
       [] Next1Value = FailsLater -> push' = [push EXCEPT !.at = "spin", !.stack = Append(@, "line")]
       [] OTHER -> LET toks == Scanned(Next1Value)
                   IN push' = [push EXCEPT !.vars = Append(@, Var(Len(toks))), !.pkts = @ \o toks]
  /\ UNCHANGED openVars

(* uls_import_tmpls(): where the packets of each variable begin.           *)
Before_Zero(vars, k) == 0      \* mutant: the count is not carried on
Before(vars, k) == FoldLeft(LAMBDA n, v : IF v.n < 0 THEN n ELSE n + v.n, 0, SubSeq(vars, 1, k - 1))
uls_import_tmpls ==
  /\ push.at = "tmpls" /\ Len(push.vars) = Len(push.tmpls)
  /\ push' = [push EXCEPT !.at = "fill",
       !.vars = [k \in DOMAIN @ |-> [@[k] EXCEPT !.i0 = IF @ < 0 THEN -1 ELSE Before(push.vars, k)]]]
  /\ UNCHANGED openVars

PushFill ==
  /\ push.at = "fill"
  /\ \/ Popped(-6)
     \/ push' = [push EXCEPT !.at = "done", !.refs = @ + 1]
  /\ UNCHANGED openVars

PushStep == PushStart \/ PushBind \/ make_tokpkt_seqence \/ uls_import_tmpls \/ PushFill
-----------------------------------------------------------------------------
(* What the caller is told of a push is what it did.  Told 0, the stream   *)
(* is on the stack and held by both; told -1 or -2, the stack is as it was *)
(* and the stream is the caller's; told -4 or -6, it has been destroyed.   *)
(* But told -5, for a template whose value cannot be scanned, the caller   *)
(* has a stream that is on the stack and counted once: destroyed, it is    *)
(* read after it was freed.  A value that fails later than with its first  *)
(* fill makes the push loop for ever.  Variables that are given have the   *)
(* tokens of their last value, none, or their name.  An opening that is    *)
(* refused leaves something behind only when the blocks of renamings cannot*)
(* be read, or the header behind them ends (uls_lex.c:217-261,             *)
(* uls_istream.c:104-140, 231-356, 477-699).                               *)
PacketsOf(v) == SubSeq(push.pkts, v.i0 + 1, v.i0 + v.n)
PushTold ==
  /\ push.at = "done" =>
       CASE push.rc = 0 -> push.stack = <<"base", "stream">> /\ push.refs = 2
         [] push.rc \in {-1, -2} -> push.stack = <<"base">> /\ push.refs = 1
         [] push.rc \in {-4, -6} -> push.stack = <<"base">> /\ push.refs = 0
         [] push.rc = -5 -> push.stack = <<"base", "stream">> /\ push.refs = 1
  /\ push.at = "spin" => \E k \in DOMAIN push.tmpls : push.tmpls[k].value = FailsLater
  /\ push.at = "done" /\ push.rc = 0 => \A k \in DOMAIN push.vars :
       LET v == push.vars[k]
           given == push.tmpls[uls_find_tmpl(push.tmpls, v.name)].value
       IN IF given = Unset THEN v.n = -1 ELSE PacketsOf(v) = Scanned(given)
  /\ push.at = "done" /\ push.rc = 0 /\ istr.filetype = "raw" =>
       push.line \in {p \o istr.firstline : p \in Prepended}
  /\ (Ours /\ left # {}) =>
       (left = {"remap_buff"} /\ istr.why = "cut") \/ (left = {"uls"} /\ creation = "refused")
=============================================================================
