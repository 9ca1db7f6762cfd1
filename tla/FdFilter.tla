------------------------------ MODULE FdFilter ------------------------------
(***************************************************************************)
(* Input through other processes (src/src/fdfilter.c): fdf_open() forks a  *)
(* provider that copies the file into a pipe and, if there is a command, a *)
(* filter between two pipes; the parent reads what comes out, as an input  *)
(* stream (uls_open_istream_filter_file()), and fdf_close() waits for the  *)
(* children.  This is where the library is concurrent: every process runs  *)
(* on its own, and a child inherits every end its parent has open.         *)
(*                                                                         *)
(* Abstractions.  Data is counted in blocks of fdf_iprovider_simple(), the *)
(* standard streams of the filter are the ends they are duplicated from.   *)
(* The filter program passes every block on or exits with a failure.       *)
(* Actions of the parent that no other process can tell apart (a fork and  *)
(* the closing of the ends it does not need) are one.                      *)
(***************************************************************************)
EXTENDS Integers, FiniteSets

CONSTANTS
  N,         \* bound: the filters the parent opens, in the order 1..N
  PipeSiz,   \* what a pipe holds, in blocks
  Inputs     \* [len, fails, cmd]: the file, and the command or "none"

Cmds == {"none", "good", "dies", "missing", "not_executable"}

ASSUME InputsOK ==
  /\ N \in Nat /\ PipeSiz \in Nat \ {0}
  /\ \A i \in Inputs : i.len \in Nat /\ i.fails \in BOOLEAN /\ i.cmd \in Cmds

Fdfs     == 1..N
Children == Fdfs \X {"provider", "filter"}
Parent   == <<0, "parent">>
Ends     == Fdfs \X {"file", "r1", "w1", "r2", "w2"}

VARIABLES
  input,   \* what each filter is opened on
  stage,   \* the input stream over each fdf_t, as its owner knows it
  pc,      \* the call the parent is in
  proc,    \* the state of each child
  fds,     \* the ends each process has open
  pipe,    \* the blocks in the two pipes of each fdf_t
  left,    \* blocks the provider has not read
  held,    \* blocks the filter has read and not written
  got,     \* blocks the parent has read
  eof,     \* the parent has read EOF
  rc       \* what the fdf_close() of uls_destroy_istream() returned

data == <<pipe, left, held, got, eof>>
vars == <<input, stage, pc, proc, fds, data, rc>>

NotClosed == 1
HasFilter(f) == input[f].cmd # "none"
Of(f, names) == {f} \X names
At(where, f) == [at |-> where, f |-> f, k |-> 1, rem |-> 0]
Idle == At("idle", 1)
Open(e) == \E p \in DOMAIN fds : e \in fds[p]
Closes(p, es) == fds' = [fds EXCEPT ![p] = @ \ es]

Init ==
  /\ input \in [Fdfs -> Inputs]
  /\ stage = [f \in Fdfs |-> "new"]
  /\ pc = Idle
  /\ proc = [p \in Children |-> "none"]
  /\ fds = [p \in Children \cup {Parent} |-> {}]
  /\ pipe = [f \in Fdfs |-> [k \in 1..2 |-> 0]]
  /\ left = [f \in Fdfs |-> input[f].len]
  /\ held = [f \in Fdfs |-> 0]
  /\ got = [f \in Fdfs |-> 0]
  /\ eof = [f \in Fdfs |-> FALSE]
  /\ rc = [f \in Fdfs |-> NotClosed]
-----------------------------------------------------------------------------
(* fdf_open(), as uls_open_istream_filter_file() calls it.                 *)
OpenFailed(f, ends) ==
  /\ fds' = [fds EXCEPT ![Parent] = @ \ ends]
  /\ stage' = [stage EXCEPT ![f] = "failed"]
  /\ pc' = Idle
  /\ UNCHANGED proc

OpenPipes(f) ==
  /\ pc = Idle /\ stage[f] = "new" /\ (f > 1 => stage[f - 1] # "new")
  /\ \/ OpenFailed(f, {})                            \* pipe() failed
     \/ /\ fds' = [fds EXCEPT ![Parent] =
                      @ \cup Of(f, {"file", "r1", "w1", "r2", "w2"})]
        /\ pc' = At(IF HasFilter(f) THEN "fork filter" ELSE "fork provider", f)
        /\ UNCHANGED <<stage, proc>>
  /\ UNCHANGED <<input, data, rc>>

Forks(p, ends) ==
  /\ proc' = [proc EXCEPT ![p] = "forked"]
  /\ fds' = [fds EXCEPT ![p] = fds[Parent], ![Parent] = @ \ ends]

Unneeded_KeepsW2 == {"r1"}             \* mutant: pipe2[1] stays open
Unneeded == {"r1", "w2"}

ForkFilter(f) ==
  /\ pc = At("fork filter", f)
  /\ \/ OpenFailed(f, Of(f, {"file", "r1", "w1", "r2", "w2"}))
     \/ /\ Forks(<<f, "filter">>, Of(f, Unneeded))
        /\ pc' = At("fork provider", f)
        /\ UNCHANGED stage
  /\ UNCHANGED <<input, data, rc>>

(* When this fork fails, the filter is left for fdf_deinit() to wait for.  *)
ForkProvider_KeepsEnds(f) ==           \* mutant: returns -1 at once
  /\ pc = At("fork provider", f)
  /\ \/ OpenFailed(f, Of(f, {"file"}))
     \/ /\ Forks(<<f, "provider">>, Of(f, {"w1"} \cup Unneeded))
        /\ pc' = At("open istream", f)
        /\ UNCHANGED stage
  /\ UNCHANGED <<input, data, rc>>

ForkProvider(f) ==
  /\ pc = At("fork provider", f)
  /\ \/ OpenFailed(f, Of(f, {"file", "r1", "w1", "r2", "w2"}))
     \/ /\ Forks(<<f, "provider">>, Of(f, {"w1"} \cup Unneeded))
        /\ pc' = At("open istream", f)
        /\ UNCHANGED stage
  /\ UNCHANGED <<input, data, rc>>

(* What a read of pipe2 returns, when it does not block.                   *)
Readable(f) == pipe[f][2] > 0 \/ ~Open(<<f, "w2">>)
Read(f) ==
  /\ Readable(f)
  /\ pipe' = [pipe EXCEPT ![f][2] = IF @ > 0 THEN @ - 1 ELSE 0]
  /\ got' = [got EXCEPT ![f] = IF pipe[f][2] > 0 THEN @ + 1 ELSE @]
  /\ eof' = [eof EXCEPT ![f] = pipe[f][2] = 0]

(* uls_open_istream() reads the first bytes, and closes the filter when it *)
(* cannot use them; the caller then closes the file.                       *)
OpenIstream(f) ==
  /\ pc = At("open istream", f)
  /\ Read(f)
  /\ \/ stage' = [stage EXCEPT ![f] = "open"] /\ pc' = Idle /\ UNCHANGED fds
     \/ /\ stage' = [stage EXCEPT ![f] = "failed"]
        /\ pc' = At("join", f)
        /\ Closes(Parent, Of(f, {"r2", "file"}))
  /\ UNCHANGED <<input, proc, left, held, rc>>
-----------------------------------------------------------------------------
(* The reader, its close, and the wait of uls_proc_join().                 *)
StartRead(f) ==
  /\ pc = Idle /\ stage[f] = "open" /\ ~eof[f]
  /\ pc' = At("read", f)
  /\ UNCHANGED <<input, stage, proc, fds, data, rc>>

ReadReturn(f) ==
  /\ pc = At("read", f)
  /\ Read(f)
  /\ pc' = Idle
  /\ UNCHANGED <<input, stage, proc, fds, left, held, rc>>

Close(f) ==                            \* uls_destroy_istream()
  /\ pc = Idle /\ stage[f] = "open"
  /\ Closes(Parent, Of(f, {"r2"}))
  /\ stage' = [stage EXCEPT ![f] = "closed"]
  /\ pc' = At("join", f)
  /\ UNCHANGED <<input, proc, data, rc>>

Deinit(f) ==                           \* fdf_deinit()
  /\ pc = Idle /\ stage[f] \in {"closed", "failed"}
  /\ stage' = [stage EXCEPT ![f] = "done"]
  /\ pc' = At("join", f)
  /\ UNCHANGED <<input, proc, fds, data, rc>>

Joined(res) ==
  /\ pc' = Idle
  /\ rc' = IF stage[pc.f] = "closed" THEN [rc EXCEPT ![pc.f] = res] ELSE rc

(* uls_proc_join_round_1(): one waitpid(WNOHANG); a child that failed ends *)
(* the wait at once.                                                       *)
Polled == <<pc.f, IF pc.k = 1 THEN "provider" ELSE "filter">>
Poll ==
  /\ pc.at = "join" /\ pc.k \in 1..2
  /\ IF proc[Polled] \in {"exit 0", "exit 1"}
       THEN proc' = [proc EXCEPT ![Polled] = "reaped"]
       ELSE UNCHANGED proc
  /\ IF proc[Polled] = "exit 1" THEN Joined(-1)
     ELSE /\ pc' = [at |-> "join", f |-> pc.f, k |-> pc.k + 1,
                    rem |-> IF proc[Polled] \in {"forked", "run", "copy"}
                              THEN pc.rem + 1 ELSE pc.rem]
          /\ UNCHANGED rc
  /\ UNCHANGED <<input, stage, fds, data>>

AllJoined(rem) == rem = 0

RoundEnd ==                            \* the loop of uls_proc_join()
  /\ pc.at = "join" /\ pc.k = 3
  /\ IF AllJoined(pc.rem) THEN Joined(0)
     ELSE pc' = At("join", pc.f) /\ UNCHANGED rc
  /\ UNCHANGED <<input, stage, proc, fds, data>>
-----------------------------------------------------------------------------
(* The children.  An exit closes all ends the process has.                 *)
Exits(p, status) ==
  /\ proc' = [proc EXCEPT ![p] = status]
  /\ fds' = [fds EXCEPT ![p] = {}]

Starts(p, ends) ==
  /\ proc' = [proc EXCEPT ![p] = "run"]
  /\ Closes(p, ends)

ProviderStart(f) ==
  /\ proc[<<f, "provider">>] = "forked"
  /\ Starts(<<f, "provider">>,
            Of(f, IF HasFilter(f) THEN {"r2"} ELSE {"w1", "r2"}))
  /\ UNCHANGED <<input, stage, pc, data, rc>>

(* fdf_iprovider_simple(): a block at a time, SIGPIPE if nobody can read.  *)
Out(f) == IF HasFilter(f) THEN 1 ELSE 2
OutEnd(f) == <<f, IF HasFilter(f) THEN "r1" ELSE "r2">>

ProviderCopies(f) ==
  /\ proc[<<f, "provider">>] = "run" /\ left[f] > 0
  /\ Open(OutEnd(f)) /\ pipe[f][Out(f)] < PipeSiz
  /\ pipe' = [pipe EXCEPT ![f][Out(f)] = @ + 1]
  /\ left' = [left EXCEPT ![f] = @ - 1]
  /\ UNCHANGED <<input, stage, pc, proc, fds, held, got, eof, rc>>

ProviderStatus(f) == IF input[f].fails THEN "exit 1" ELSE "exit 0"

ProviderExits(f) ==
  /\ proc[<<f, "provider">>] = "run"
  /\ \/ left[f] > 0 /\ ~Open(OutEnd(f)) /\ Exits(<<f, "provider">>, "exit 1")
     \/ left[f] = 0 /\ Exits(<<f, "provider">>, ProviderStatus(f))
  /\ UNCHANGED <<input, stage, pc, data, rc>>

(* uls_execv_cmdline(): -1 if there is no such file; 0 if execv() returned,*)
(* and then the child goes on as the parent does, behind "NEVER REACHED":  *)
(* a second copy of the caller, which is not followed further.             *)
FilterStart(f) ==
  /\ proc[<<f, "filter">>] = "forked"
  /\ IF input[f].cmd = "missing" THEN Exits(<<f, "filter">>, "exit 1")
     ELSE /\ Closes(<<f, "filter">>, Of(f, {"file", "w1", "r2"}))
          /\ proc' = [proc EXCEPT ![<<f, "filter">>] =
                         IF input[f].cmd = "not_executable" THEN "copy" ELSE "run"]
  /\ UNCHANGED <<input, stage, pc, data, rc>>

FilterReads(f) ==
  /\ proc[<<f, "filter">>] = "run" /\ held[f] = 0 /\ pipe[f][1] > 0
  /\ pipe' = [pipe EXCEPT ![f][1] = @ - 1]
  /\ held' = [held EXCEPT ![f] = 1]
  /\ UNCHANGED <<input, stage, pc, proc, fds, left, got, eof, rc>>

FilterWrites(f) ==
  /\ proc[<<f, "filter">>] = "run" /\ held[f] = 1
  /\ Open(<<f, "r2">>) /\ pipe[f][2] < PipeSiz
  /\ pipe' = [pipe EXCEPT ![f][2] = @ + 1]
  /\ held' = [held EXCEPT ![f] = 0]
  /\ UNCHANGED <<input, stage, pc, proc, fds, left, got, eof, rc>>

FilterExits(f) ==
  /\ proc[<<f, "filter">>] = "run"
  /\ \/ /\ held[f] = 0 /\ pipe[f][1] = 0 /\ ~Open(<<f, "w1">>)
        /\ Exits(<<f, "filter">>, "exit 0")
     \/ /\ held[f] = 1 /\ ~Open(<<f, "r2">>)
        /\ Exits(<<f, "filter">>, "exit 1")
     \/ input[f].cmd = "dies" /\ Exits(<<f, "filter">>, "exit 1")
  /\ UNCHANGED <<input, stage, pc, data, rc>>

Provider(f) == ProviderStart(f) \/ ProviderCopies(f) \/ ProviderExits(f)
Filter(f) == FilterStart(f) \/ FilterReads(f) \/ FilterWrites(f) \/ FilterExits(f)
InCall == \/ \E f \in Fdfs : \/ ForkFilter(f) \/ ForkProvider(f)
                             \/ OpenIstream(f) \/ ReadReturn(f)
          \/ Poll \/ RoundEnd
Caller(f) == OpenPipes(f) \/ StartRead(f) \/ Close(f) \/ Deinit(f)

Next == InCall \/ \E f \in Fdfs : Caller(f) \/ Provider(f) \/ Filter(f)

(* The system schedules every process, and the filter program goes on when *)
(* it can; the caller need not make its next call.                         *)
Spec ==
  /\ Init /\ [][Next]_vars
  /\ WF_vars(InCall)
  /\ \A f \in Fdfs : WF_vars(Provider(f)) /\ WF_vars(Filter(f))
-----------------------------------------------------------------------------
(* However fdf_open() and uls_open_istream() fail, and whichever child     *)
(* failed before the close, the parent keeps no end of a pipe (the file it *)
(* keeps only when the opening succeeded: nothing ever closes it then), and*)
(* after fdf_deinit() every child has been waited for, although fdf_close()*)
(* stops at the first child that failed.                                   *)
NothingLeft ==
  \A f \in Fdfs :
    /\ stage[f] = "failed" =>
         fds[Parent] \cap Of(f, {"file", "r1", "w1", "r2", "w2"}) = {}
    /\ stage[f] \in {"closed", "done"} =>
         fds[Parent] \cap Of(f, {"r1", "w1", "r2", "w2"}) = {}
    /\ stage[f] = "done" /\ pc = Idle =>
         \A who \in {"provider", "filter"} : proc[<<f, who>>] \in {"none", "reaped"}

(* A reader that came to EOF, and whose fdf_close() returned 0, has read   *)
(* the whole file: no failure of a child is taken for the end of the input.*)
Told ==
  \A f \in Fdfs :
    eof[f] /\ rc[f] = 0 => got[f] = input[f].len /\ ~input[f].fails

(* A read of the filtered input returns, whatever ends the children of     *)
(* other filters have inherited; and fdf_close() and fdf_deinit() return,  *)
(* even with input left unread, if no filter that was opened later is still*)
(* open: its children have inherited the read end, and nothing tells the   *)
(* first filter that nobody reads.                                         *)
CallsReturn ==
  \A f \in Fdfs :
    /\ pc.at = "read" /\ pc.f = f ~> pc.at # "read"
    /\ pc.at = "join" /\ pc.f = f /\ (\A g \in f+1..N : stage[g] # "open")
         ~> pc = Idle

(* A filter ends with nothing of it left, and its failures are told.       *)
FilterEnds == NothingLeft /\ Told
=============================================================================
