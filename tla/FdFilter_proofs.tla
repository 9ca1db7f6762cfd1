-------------------------- MODULE FdFilter_proofs ---------------------------
(***************************************************************************)
(* What FdFilter promises for any number of filters opened side by side,   *)
(* pipes of any size, and files of any length: a filter ends with nothing  *)
(* of it left in the parent, and no failure of a child passes for the end  *)
(* of the input.                                                           *)
(***************************************************************************)
EXTENDS FdFilter, TLAPS

Prv(f) == <<f, "provider">>
Flt(f) == <<f, "filter">>

Opening == {"fork filter", "fork provider", "open istream"}
In(at, f) == pc.at = at /\ pc.f = f
InOpening(f) == pc.at \in Opening /\ pc.f = f

Alive     == {"forked", "run", "copy"}
Waited(p) == proc[p] \in {"none", "reaped"}

Calls == [at : Opening \cup {"idle", "read", "join"},
          f : Nat, k : 1..3, rem : Nat]

Stages   == {"new", "open", "closed", "failed", "done"}
Statuses == Alive \cup {"none", "exit 0", "exit 1", "reaped"}

CallType ==
  /\ input \in [Fdfs -> Inputs]
  /\ stage \in [Fdfs -> Stages]
  /\ pc \in Calls
  /\ pc.at # "idle" => pc.f \in Fdfs
  /\ rc \in [Fdfs -> {-1, 0, NotClosed}]

ProcType ==
  /\ proc \in [Children -> Statuses]
  /\ fds \in [Children \cup {Parent} -> SUBSET Ends]

DataType ==
  /\ pipe \in [Fdfs -> [1..2 -> Nat]]
  /\ left \in [Fdfs -> Nat] /\ held \in [Fdfs -> Nat] /\ got \in [Fdfs -> Nat]
  /\ eof \in [Fdfs -> BOOLEAN]

TypeOK == CallType /\ ProcType /\ DataType

(* The call the parent is in and the stage of the stream it is made on.    *)
CallInv(f) ==
  /\ InOpening(f) => stage[f] = "new"
  /\ In("read", f) => stage[f] = "open"
  /\ In("join", f) => stage[f] \in {"closed", "failed", "done"}

(* Which children were forked, and that only the joins wait for them.      *)
ChildInv(f) ==
  /\ stage[f] = "new" /\ ~In("open istream", f) => proc[Prv(f)] = "none"
  /\ (stage[f] = "new" /\ ~InOpening(f)) \/ In("fork filter", f) \/ ~HasFilter(f)
       => proc[Flt(f)] = "none"
  /\ In("fork filter", f) => HasFilter(f)
  /\ In("fork provider", f) /\ HasFilter(f) => proc[Flt(f)] # "none"
  /\ In("open istream", f) \/ stage[f] \in {"open", "closed"}
       => proc[Prv(f)] # "none" /\ (HasFilter(f) => proc[Flt(f)] # "none")
  /\ stage[f] \in {"new", "open"} =>
       proc[Prv(f)] # "reaped" /\ proc[Flt(f)] # "reaped"

(* The ends the parent has.                                                *)
Without(f, names) == \A n \in names : <<f, n>> \notin fds[Parent]

(* The end behind which the output of the provider is read.                *)
WEnd(f) == <<f, IF HasFilter(f) THEN "w1" ELSE "w2">>

ParentEnds(f) ==
  /\ (stage[f] = "new" /\ ~InOpening(f)) \/ stage[f] = "failed" =>
       Without(f, {"file", "r1", "w1", "r2", "w2"})
  /\ stage[f] \in {"closed", "done"} => Without(f, {"r1", "w1", "r2", "w2"})
  /\ stage[f] = "open" \/ In("open istream", f) => Without(f, {"r1", "w1", "w2"})
  /\ In("fork filter", f) => <<f, "w1">> \in fds[Parent] /\ <<f, "w2">> \in fds[Parent]
  /\ In("fork provider", f) => WEnd(f) \in fds[Parent]

(* A child that may still write has its end open, so nobody sees EOF.      *)
ChildEnds(f) ==
  /\ proc[Prv(f)] \in Alive => WEnd(f) \in fds[Prv(f)]
  /\ proc[Flt(f)] \in Alive => <<f, "w2">> \in fds[Flt(f)]

(* No block is lost or made up on the way.                                 *)
Conserved(f) ==
  /\ input[f].len = left[f] + pipe[f][1] + held[f] + pipe[f][2] + got[f]
  /\ ~HasFilter(f) => pipe[f][1] = 0 /\ held[f] = 0

(* EOF, once read, stays.                                                  *)
EofInv(f) ==
  eof[f] => stage[f] # "new" /\ pipe[f][2] = 0 /\ ~Open(<<f, "w2">>)

(* What a child that ended well leaves: while the first fdf_close() waits  *)
(* only such children are reaped, for the others end it.                   *)
ReadAll(f)  == left[f] = 0 /\ ~input[f].fails
WroteAll(f) == held[f] = 0 /\ pipe[f][1] = 0 /\ ~Open(<<f, "w1">>)

ExitInv(f) ==
  /\ proc[Prv(f)] = "exit 0" => ReadAll(f)
  /\ proc[Flt(f)] = "exit 0" => WroteAll(f)
  /\ stage[f] = "closed" /\ In("join", f) =>
       /\ proc[Prv(f)] = "reaped" => ReadAll(f)
       /\ proc[Flt(f)] = "reaped" => WroteAll(f)

(* A fdf_close() that returned 0 has waited for both.                      *)
RcInv(f) ==
  rc[f] = 0 =>
    /\ (stage[f] = "closed" /\ ~In("join", f)) \/ stage[f] = "done"
    /\ proc[Prv(f)] = "reaped" /\ ReadAll(f)
    /\ held[f] = 0 /\ pipe[f][1] = 0

(* A join that ends early, because of a child that failed, leaves at most  *)
(* the other one, and then the join of fdf_deinit() cannot leave it.       *)
JoinInv(f) ==
  /\ (stage[f] \in {"closed", "failed"} /\ ~In("join", f)) \/ stage[f] = "done"
       => Waited(Prv(f)) \/ Waited(Flt(f))
  /\ stage[f] = "done" /\ ~In("join", f) => Waited(Prv(f)) /\ Waited(Flt(f))
  /\ In("join", f) /\ pc.rem = 0 => /\ pc.k >= 2 => Waited(Prv(f))
                                    /\ pc.k = 3 => Waited(Flt(f))

Inv(f) ==
  /\ CallInv(f) /\ ChildInv(f) /\ ParentEnds(f) /\ ChildEnds(f)
  /\ Conserved(f) /\ EofInv(f) /\ ExitInv(f) /\ RcInv(f) /\ JoinInv(f)

IInv == TypeOK /\ \A f \in Fdfs : Inv(f)
-----------------------------------------------------------------------------
(* The children of the filters are different processes, and no parent.     *)
LEMMA Domains ==
  /\ \A f \in Fdfs : Prv(f) \in Children /\ Flt(f) \in Children /\ Prv(f) # Flt(f)
  /\ \A f, g \in Fdfs : f # g => {Prv(f), Flt(f)} \cap {Prv(g), Flt(g)} = {}
  /\ Parent \notin Children
  /\ \A f \in Fdfs : Prv(f) # Parent /\ Flt(f) # Parent
  BY DEF Fdfs, Children, Parent, Prv, Flt

(* A call the parent starts is at its first child, with nothing counted.   *)
LEMMA AtRecord ==
  /\ Idle \in Calls /\ Idle.at = "idle" /\ Idle.k = 1 /\ Idle.rem = 0
  /\ \A f \in Fdfs, at \in Opening \cup {"read", "join"} :
       /\ At(at, f) \in Calls
       /\ At(at, f).at = at /\ At(at, f).f = f /\ At(at, f).k = 1 /\ At(at, f).rem = 0
  BY DEF Idle, At, Calls, Fdfs

(* Its fields, wherever it is.                                             *)
LEMMA AtFields ==
  \A f, at : At(at, f).at = at /\ At(at, f).f = f /\ At(at, f).k = 1 /\ At(at, f).rem = 0
  BY DEF At

(* The ends of a filter are ends.                                          *)
LEMMA EndsOf ==
  ASSUME NEW f \in Fdfs, NEW names \in SUBSET {"file", "r1", "w1", "r2", "w2"}
  PROVE  Of(f, names) \subseteq Ends
  BY DEF Of, Ends

(* A read takes at most what there is.                                     *)
LEMMA ReadKeepsType ==
  ASSUME DataType, NEW f \in Fdfs, Read(f)
  PROVE  /\ pipe' \in [Fdfs -> [1..2 -> Nat]] /\ got' \in [Fdfs -> Nat]
         /\ eof' \in [Fdfs -> BOOLEAN]
  BY DEF DataType, Read

(* The blocks stay counted in natural numbers.                             *)
LEMMA DataTypeKept ==
  ASSUME DataType, [Next]_vars
  PROVE  DataType'
<1>1. CASE UNCHANGED data
  BY <1>1 DEF DataType, data
<1>2. ASSUME NEW f \in Fdfs, OpenIstream(f) \/ ReadReturn(f) PROVE DataType'
  BY <1>2, ReadKeepsType DEF OpenIstream, ReadReturn, DataType
<1>3. ASSUME NEW f \in Fdfs, ProviderCopies(f) PROVE DataType'
  BY <1>3 DEF ProviderCopies, Out, DataType
<1>4. ASSUME NEW f \in Fdfs, FilterReads(f) PROVE DataType'
  BY <1>4 DEF FilterReads, DataType
<1>5. ASSUME NEW f \in Fdfs, FilterWrites(f) PROVE DataType'
  BY <1>5 DEF FilterWrites, DataType
<1> QED
  BY <1>1, <1>2, <1>3, <1>4, <1>5
     DEF Next, InCall, Caller, Provider, Filter, vars, OpenPipes, ForkFilter, ForkProvider,
         StartRead, Close, Deinit, Poll, RoundEnd, ProviderStart, ProviderExits,
         FilterStart, FilterExits

(* What a step does to the processes and to the ends they have.            *)
LEMMA FailedKeepsType ==
  ASSUME ProcType, NEW f \in Fdfs, NEW ends, OpenFailed(f, ends)
  PROVE  ProcType'
  BY DEF ProcType, OpenFailed

(* A fork.                                                                 *)
LEMMA ForksKeepsType ==
  ASSUME ProcType, NEW p \in Children, NEW ends, Forks(p, ends)
  PROVE  ProcType'
  BY DEF ProcType, Forks, Statuses, Alive, Children, Parent

(* An exit.                                                                *)
LEMMA ExitsKeepsType ==
  ASSUME ProcType, NEW p \in Children, NEW st \in {"exit 0", "exit 1"}, Exits(p, st)
  PROVE  ProcType'
  BY DEF ProcType, Exits, Statuses

(* A close of some ends.                                                   *)
LEMMA ClosesKeepsType ==
  ASSUME ProcType, NEW p \in Children \cup {Parent}, NEW es, Closes(p, es)
  PROVE  fds' \in [Children \cup {Parent} -> SUBSET Ends]
  BY DEF ProcType, Closes

(* The states of the children and the ends stay in their domains.          *)
LEMMA ProcTypeKept ==
  ASSUME CallType, ProcType, [Next]_vars
  PROVE  ProcType'
<1>1. CASE UNCHANGED <<proc, fds>>
  BY <1>1 DEF ProcType
<1>2. ASSUME NEW f \in Fdfs, OpenPipes(f) PROVE ProcType'
  <2>1. CASE OpenFailed(f, {})
    BY <2>1, FailedKeepsType
  <2>2. CASE ~OpenFailed(f, {})
    BY <1>2, <2>2, EndsOf DEF OpenPipes, ProcType
  <2> QED
    BY <2>1, <2>2
<1>3. ASSUME NEW f \in Fdfs, ForkFilter(f) PROVE ProcType'
  BY <1>3, Domains, FailedKeepsType, ForksKeepsType DEF ForkFilter, Flt
<1>4. ASSUME NEW f \in Fdfs, ForkProvider(f) PROVE ProcType'
  BY <1>4, Domains, FailedKeepsType, ForksKeepsType DEF ForkProvider, Prv
<1>5. ASSUME NEW f \in Fdfs, OpenIstream(f) \/ Close(f) PROVE ProcType'
  BY <1>5, ClosesKeepsType DEF OpenIstream, Close, ProcType
<1>6. ASSUME Poll PROVE ProcType'
  BY <1>6 DEF Poll, ProcType, Statuses
<1>7. ASSUME NEW f \in Fdfs, ProviderStart(f) PROVE ProcType'
  BY <1>7, Domains, ClosesKeepsType DEF ProviderStart, Starts, ProcType, Prv, Statuses, Alive
<1>8. ASSUME NEW f \in Fdfs, ProviderExits(f) PROVE ProcType'
  BY <1>8, Domains, ExitsKeepsType DEF ProviderExits, ProviderStatus, Prv
<1>9. ASSUME NEW f \in Fdfs, FilterStart(f) PROVE ProcType'
  BY <1>9, Domains, ExitsKeepsType, ClosesKeepsType
     DEF FilterStart, ProcType, Flt, Statuses, Alive
<1>10. ASSUME NEW f \in Fdfs, FilterExits(f) PROVE ProcType'
  BY <1>10, Domains, ExitsKeepsType DEF FilterExits, Flt
<1> QED
  BY <1>1, <1>2, <1>3, <1>4, <1>5, <1>6, <1>7, <1>8, <1>9, <1>10
     DEF Next, InCall, Caller, Provider, Filter, vars,
         StartRead, ReadReturn, Deinit, RoundEnd, ProviderCopies, FilterReads, FilterWrites

(* So do the call of the parent, the stages and the results.               *)
LEMMA CallTypeKept ==
  ASSUME CallType, [Next]_vars
  PROVE  CallType'
<1>1. CASE UNCHANGED <<input, stage, pc, rc>>
  BY <1>1 DEF CallType
<1>2. ASSUME NEW f \in Fdfs, NEW ends, OpenFailed(f, ends), UNCHANGED <<input, rc>>
      PROVE  CallType'
  BY <1>2, AtRecord DEF OpenFailed, CallType, Stages
<1>3. ASSUME NEW f \in Fdfs, NEW at \in Opening \cup {"read", "join"}, pc' = At(at, f),
             NEW st \in Stages, stage' \in {stage, [stage EXCEPT ![f] = st]},
             UNCHANGED <<input, rc>>
      PROVE  CallType'
  BY <1>3, AtRecord DEF CallType
<1>4. ASSUME NEW f \in Fdfs, NEW st \in Stages,
             stage' \in {stage, [stage EXCEPT ![f] = st]}, pc' = Idle,
             UNCHANGED <<input, rc>>
      PROVE  CallType'
  BY <1>4, AtRecord DEF CallType
<1>5. ASSUME NEW f \in Fdfs, OpenPipes(f) \/ ForkFilter(f) \/ ForkProvider(f)
      PROVE  CallType'
  BY <1>5, <1>2, <1>3 DEF OpenPipes, ForkFilter, ForkProvider, Opening, Stages
<1>6. ASSUME NEW f \in Fdfs, OpenIstream(f) PROVE CallType'
  BY <1>6, <1>3, <1>4 DEF OpenIstream, Stages
<1>7. ASSUME NEW f \in Fdfs, ReadReturn(f) PROVE CallType'
  BY <1>7, <1>4 DEF ReadReturn, Stages
<1>8. ASSUME NEW f \in Fdfs, StartRead(f) \/ Close(f) \/ Deinit(f) PROVE CallType'
  BY <1>8, <1>3 DEF StartRead, Close, Deinit, Stages
<1>9. ASSUME NEW res \in {-1, 0}, Joined(res), pc.f \in Fdfs, UNCHANGED <<input, stage>>
      PROVE  CallType'
  BY <1>9, AtRecord DEF Joined, CallType
<1>10. ASSUME Poll PROVE CallType'
  <2>1. CASE Joined(-1)
    BY <1>10, <2>1, <1>9 DEF Poll, CallType
  <2>2. CASE ~Joined(-1)
    <3>1. pc.at = "join" /\ pc.f \in Fdfs /\ pc.f \in Nat /\ pc.k \in 1..2 /\ pc.rem \in Nat
      BY <1>10 DEF Poll, CallType, Calls
    <3>2. PICK r \in {pc.rem, pc.rem + 1} :
            pc' = [at |-> "join", f |-> pc.f, k |-> pc.k + 1, rem |-> r]
      BY <1>10, <2>2 DEF Poll
    <3>3. pc' \in Calls /\ pc'.f = pc.f
      BY <3>1, <3>2 DEF Calls
    <3> QED
      BY <1>10, <2>2, <3>1, <3>3 DEF Poll, CallType
  <2> QED
    BY <2>1, <2>2
<1>11. ASSUME RoundEnd PROVE CallType'
  BY <1>11, <1>3, <1>9 DEF RoundEnd, CallType, Stages
<1> QED
  BY <1>1, <1>5, <1>6, <1>7, <1>8, <1>10, <1>11
     DEF Next, InCall, Caller, Provider, Filter, vars,
         ProviderStart, ProviderCopies, ProviderExits,
         FilterStart, FilterReads, FilterWrites, FilterExits
-----------------------------------------------------------------------------
(* The steps that are made for the filter f.                               *)
StepOf(f) ==
  \/ OpenPipes(f) \/ ForkFilter(f) \/ ForkProvider(f) \/ OpenIstream(f)
  \/ StartRead(f) \/ ReadReturn(f) \/ Close(f) \/ Deinit(f)
  \/ (Poll \/ RoundEnd) /\ pc.f = f
  \/ Provider(f) \/ Filter(f)

(* Every step is made for one filter.                                      *)
LEMMA NextIsOfOne ==
  ASSUME CallType, Next
  PROVE  \E f \in Fdfs : StepOf(f)
  BY DEF CallType, Next, InCall, Caller, StepOf, Poll, RoundEnd

(* An end that nobody has open stays so, until fdf_open() makes it.        *)
Inherits ==
  \A p \in Children \cup {Parent} : fds'[p] \subseteq fds[p] \/ fds'[p] \subseteq fds[Parent]

(* What a process has is open.                                             *)
LEMMA InheritsOpen ==
  ASSUME ProcType, ProcType', Inherits, NEW e, Open(e)'
  PROVE  Open(e)
  BY DEF ProcType, Inherits, Open

(* A step that does not open the pipes makes no end: a process gets what   *)
(* it has from its parent.                                                 *)
LEMMA FdsInherited ==
  ASSUME ProcType, NEW f \in Fdfs, StepOf(f), OpenPipes(f) => OpenFailed(f, {})
  PROVE  Inherits
<1>1. CASE UNCHANGED fds
  BY <1>1 DEF Inherits
<1>2. ASSUME NEW ends, OpenFailed(f, ends) PROVE Inherits
  BY <1>2 DEF OpenFailed, Inherits, ProcType
<1>3. ASSUME NEW p, NEW ends, Forks(p, ends) PROVE Inherits
  BY <1>3 DEF Forks, Inherits, ProcType
<1>4. ASSUME NEW p, NEW es, Closes(p, es) PROVE Inherits
  BY <1>4 DEF Closes, Inherits, ProcType
<1>5. ASSUME NEW p, NEW st, Exits(p, st) PROVE Inherits
  BY <1>5 DEF Exits, Inherits, ProcType
<1> QED
  BY <1>1, <1>2, <1>3, <1>4, <1>5
     DEF StepOf, Provider, Filter, ForkFilter, ForkProvider,
         OpenIstream, StartRead, ReadReturn, Close, Deinit, Poll, RoundEnd,
         ProviderStart, ProviderCopies, ProviderExits, Starts,
         FilterStart, FilterReads, FilterWrites, FilterExits
-----------------------------------------------------------------------------
(* What a step of another filter, and a stuttering step, leave alone.      *)
SameCall(f) ==
  /\ input' = input /\ stage'[f] = stage[f] /\ rc'[f] = rc[f]
  /\ \A at \in Opening \cup {"read", "join"} : In(at, f)' <=> In(at, f)
  /\ In("join", f) => pc' = pc

SameChildren(f) ==
  \A p \in {Prv(f), Flt(f)} : proc'[p] = proc[p] /\ fds'[p] = fds[p]

SameData(f) ==
  /\ pipe'[f] = pipe[f] /\ left'[f] = left[f] /\ held'[f] = held[f]
  /\ got'[f] = got[f] /\ eof'[f] = eof[f]

SameEnds(f) ==
  \A n : /\ <<f, n>> \in fds'[Parent] <=> <<f, n>> \in fds[Parent]
         /\ Open(<<f, n>>)' => Open(<<f, n>>)

Same(f) == SameCall(f) /\ SameChildren(f) /\ SameData(f) /\ SameEnds(f)

(* What is said of a filter stays true while all it speaks of is the same. *)
LEMMA SameInv ==
  ASSUME NEW f \in Fdfs, Inv(f), Same(f)
  PROVE  Inv(f)'
<1> USE DEF Same
<1>1. CallInv(f)'
  BY DEF Inv, CallInv, SameCall, InOpening, In, Opening
<1>2. ChildInv(f)'
  <2>1. InOpening(f)' <=> InOpening(f)
    BY DEF SameCall, InOpening, In, Opening
  <2> QED
    BY <2>1 DEF Inv, ChildInv, SameCall, SameChildren, Opening, HasFilter
<1>3. ParentEnds(f)'
  <2>1. \A names : Without(f, names)' <=> Without(f, names)
    BY DEF SameEnds, Without
  <2>2. WEnd(f) \in fds[Parent] <=> WEnd(f)' \in fds'[Parent]
    BY DEF SameEnds, SameCall, WEnd, HasFilter
  <2>3. InOpening(f)' <=> InOpening(f)
    BY DEF SameCall, InOpening, In, Opening
  <2> QED
    BY <2>1, <2>2, <2>3 DEF Inv, ParentEnds, SameCall, SameEnds, Opening
<1>4. ChildEnds(f)'
  BY DEF Inv, ChildEnds, SameChildren, SameCall, WEnd, HasFilter
<1>5. Conserved(f)'
  BY DEF Inv, Conserved, SameCall, SameData, HasFilter
<1>6. EofInv(f)'
  BY DEF Inv, EofInv, SameCall, SameData, SameEnds
<1>7. ExitInv(f)'
  BY DEF Inv, ExitInv, SameCall, SameData, SameEnds, SameChildren, ReadAll, WroteAll
<1>8. RcInv(f)'
  BY DEF Inv, RcInv, SameCall, SameData, SameChildren, ReadAll
<1>9. JoinInv(f)'
  BY DEF Inv, JoinInv, SameCall, SameChildren, Waited, In
<1> QED
  BY <1>1, <1>2, <1>3, <1>4, <1>5, <1>6, <1>7, <1>8, <1>9 DEF Inv

(* A step for one filter leaves the calls of the others.                   *)
LEMMA OthersCall ==
  ASSUME CallType, NEW f \in Fdfs, NEW g \in Fdfs, f # g, StepOf(f)
  PROVE  SameCall(g)
<1>1. CASE UNCHANGED <<input, stage, rc, pc>>
  BY <1>1 DEF SameCall, In
<1>2. ASSUME pc = Idle \/ pc.f = f, pc' = Idle \/ pc'.f = f,
             stage'[g] = stage[g], rc'[g] = rc[g], input' = input
      PROVE  SameCall(g)
  BY <1>2, AtRecord DEF SameCall, In, Opening
<1>3. CASE OpenPipes(f) \/ ForkFilter(f) \/ ForkProvider(f)
  <2>1. pc = Idle \/ pc.f = f
    BY <1>3, AtFields DEF OpenPipes, ForkFilter, ForkProvider
  <2>2. pc' = Idle \/ pc'.f = f
    <3>1. \/ pc' = Idle
          \/ \E at : pc' = At(at, f)
      BY <1>3, Zenon DEF OpenPipes, ForkFilter, ForkProvider, OpenFailed
    <3> QED
      BY <3>1, AtFields
  <2>3. stage'[g] = stage[g] /\ rc' = rc /\ input' = input
    BY <1>3 DEF OpenPipes, ForkFilter, ForkProvider, OpenFailed, CallType
  <2> QED
    BY <1>2, <2>1, <2>2, <2>3
<1>4. CASE OpenIstream(f) \/ ReadReturn(f)
  <2>1. pc.f = f /\ (pc' = Idle \/ pc'.f = f)
    <3>1. \/ pc = At("open istream", f) /\ (pc' = Idle \/ pc' = At("join", f))
          \/ pc = At("read", f) /\ pc' = Idle
      BY <1>4, Zenon DEF OpenIstream, ReadReturn
    <3> QED
      BY <3>1, AtFields
  <2>2. stage'[g] = stage[g] /\ rc' = rc /\ input' = input
    BY <1>4 DEF OpenIstream, ReadReturn, CallType
  <2> QED
    BY <1>2, <2>1, <2>2
<1>5. CASE StartRead(f) \/ Close(f) \/ Deinit(f)
  BY <1>2, <1>5, AtRecord DEF StartRead, Close, Deinit, CallType
<1>6. ASSUME pc.f = f, NEW res, Joined(res), UNCHANGED <<input, stage>>
      PROVE  SameCall(g)
  BY <1>2, <1>6 DEF Joined, CallType
<1>7. CASE Poll /\ pc.f = f
  <2>1. CASE Joined(-1)
    BY <1>6, <1>7, <2>1 DEF Poll
  <2>2. CASE ~Joined(-1)
    <3>1. PICK k, r : pc' = [at |-> "join", f |-> pc.f, k |-> k, rem |-> r]
      BY <1>7, <2>2 DEF Poll
    <3>2. pc'.f = f /\ UNCHANGED <<input, stage, rc>>
      BY <1>7, <2>2, <3>1 DEF Poll
    <3> QED
      BY <1>2, <1>7, <3>2
  <2> QED
    BY <2>1, <2>2
<1>8. CASE RoundEnd /\ pc.f = f
  BY <1>2, <1>6, <1>8, AtRecord DEF RoundEnd
<1>9. CASE Provider(f)
  BY <1>1, <1>9 DEF Provider, ProviderStart, ProviderCopies, ProviderExits
<1>10. CASE Filter(f)
  BY <1>1, <1>10 DEF Filter, FilterStart, FilterReads, FilterWrites, FilterExits
<1> QED
  BY <1>3, <1>4, <1>5, <1>7, <1>8, <1>9, <1>10 DEF StepOf

(* It leaves their children.                                               *)
LEMMA OthersChildren ==
  ASSUME ProcType, NEW f \in Fdfs, NEW g \in Fdfs, f # g, StepOf(f)
  PROVE  SameChildren(g)
<1>1. CASE UNCHANGED <<proc, fds>>
  BY <1>1 DEF SameChildren
<1>2. Parent \notin {Prv(g), Flt(g)} /\ {Prv(f), Flt(f)} \cap {Prv(g), Flt(g)} = {}
  BY Domains
<1>3. ASSUME NEW ends, OpenFailed(f, ends) PROVE SameChildren(g)
  BY <1>2, <1>3, Domains DEF OpenFailed, SameChildren, ProcType
<1>4. ASSUME NEW p \in {Prv(f), Flt(f)}, NEW ends, Forks(p, ends) PROVE SameChildren(g)
  BY <1>2, <1>4, Domains DEF Forks, SameChildren, ProcType
<1>5. ASSUME NEW p \in {Prv(f), Flt(f), Parent}, NEW ends, Closes(p, ends),
             NEW st, proc' = proc \/ proc' = [proc EXCEPT ![p] = st]
      PROVE  SameChildren(g)
  BY <1>2, <1>5, Domains DEF Closes, SameChildren, ProcType
<1>6. ASSUME NEW p \in {Prv(f), Flt(f)}, NEW st, Exits(p, st) PROVE SameChildren(g)
  BY <1>2, <1>6, Domains DEF Exits, SameChildren, ProcType
<1>7. CASE OpenPipes(f) /\ ~OpenFailed(f, {})
  BY <1>2, <1>7, Domains DEF OpenPipes, SameChildren, ProcType
<1>8. CASE ForkFilter(f)
  BY <1>3, <1>4, <1>8 DEF ForkFilter, Flt
<1>9. CASE ForkProvider(f)
  BY <1>3, <1>4, <1>9 DEF ForkProvider, Prv
<1>10. CASE OpenIstream(f) \/ Close(f)
  BY <1>1, <1>5, <1>10 DEF OpenIstream, Close, SameChildren
<1>11. CASE Poll /\ pc.f = f
  <2>1. Polled \in {Prv(f), Flt(f)}
    BY <1>11 DEF Poll, Polled, Prv, Flt
  <2> QED
    BY <1>2, <1>11, <2>1, Domains DEF Poll, SameChildren, ProcType
<1>12. CASE Provider(f)
  <2>1. CASE ProviderStart(f)
    BY <1>5, <2>1 DEF ProviderStart, Starts, Prv
  <2>2. CASE ProviderCopies(f) \/ ProviderExits(f)
    BY <1>1, <1>6, <2>2 DEF ProviderCopies, ProviderExits, Prv
  <2> QED
    BY <1>12, <2>1, <2>2 DEF Provider
<1>13. CASE FilterStart(f)
  <2>1. CASE Exits(Flt(f), "exit 1")
    BY <1>6, <2>1
  <2>2. CASE ~Exits(Flt(f), "exit 1")
    <3>1. PICK es : Closes(Flt(f), es)
      BY <1>13, <2>2 DEF FilterStart, Flt
    <3>2. PICK st : proc' = [proc EXCEPT ![Flt(f)] = st]
      BY <1>13, <2>2 DEF FilterStart, Flt
    <3> QED
      BY <1>5, <3>1, <3>2
  <2> QED
    BY <2>1, <2>2
<1>14. CASE Filter(f) /\ ~FilterStart(f)
  BY <1>1, <1>6, <1>14 DEF Filter, FilterReads, FilterWrites, FilterExits, Flt
<1> QED
  BY <1>1, <1>3, <1>7, <1>8, <1>9, <1>10, <1>11, <1>12, <1>13, <1>14
     DEF StepOf, StartRead, ReadReturn, Deinit, RoundEnd

(* It leaves their blocks.                                                 *)
LEMMA OthersData ==
  ASSUME DataType, NEW f \in Fdfs, NEW g \in Fdfs, f # g, StepOf(f)
  PROVE  SameData(g)
<1>1. CASE UNCHANGED data
  BY <1>1 DEF SameData, data
<1>2. CASE OpenIstream(f) \/ ReadReturn(f)
  BY <1>2 DEF OpenIstream, ReadReturn, Read, DataType, SameData
<1>3. CASE ProviderCopies(f) \/ FilterReads(f) \/ FilterWrites(f)
  BY <1>3 DEF ProviderCopies, FilterReads, FilterWrites, DataType, SameData
<1> QED
  BY <1>1, <1>2, <1>3
     DEF StepOf, OpenPipes, ForkFilter, ForkProvider, StartRead, Close, Deinit, Poll, RoundEnd,
         Provider, ProviderStart, ProviderExits, Filter, FilterStart, FilterExits

(* A child inherits ends of other filters, and a process that exits closes *)
(* them; only in the parent nothing changes.                               *)
LEMMA OthersEnds ==
  ASSUME CallType, ProcType, ProcType', NEW f \in Fdfs, NEW g \in Fdfs, f # g, StepOf(f)
  PROVE  SameEnds(g)
<1>1. ASSUME NEW names, NEW n PROVE <<g, n>> \notin Of(f, names)
  BY DEF Of
<1>2. ASSUME NEW n PROVE <<g, n>> \in fds'[Parent] <=> <<g, n>> \in fds[Parent]
  <2>1. CASE UNCHANGED fds
    BY <2>1
  <2>2. ASSUME NEW names, OpenFailed(f, Of(f, names)) \/ OpenFailed(f, {})
                          \/ Closes(Parent, Of(f, names))
        PROVE  <<g, n>> \in fds'[Parent] <=> <<g, n>> \in fds[Parent]
    BY <2>2, <1>1 DEF OpenFailed, Closes, ProcType
  <2>3. ASSUME NEW p \in {Prv(f), Flt(f)}, NEW names,
               Forks(p, Of(f, names)) \/ Closes(p, Of(f, names))
        PROVE  <<g, n>> \in fds'[Parent] <=> <<g, n>> \in fds[Parent]
    BY <2>3, <1>1, Domains DEF Forks, Closes, ProcType
  <2>4. ASSUME NEW p \in {Prv(f), Flt(f)}, NEW st, Exits(p, st)
        PROVE  <<g, n>> \in fds'[Parent] <=> <<g, n>> \in fds[Parent]
    BY <2>4, Domains DEF Exits, ProcType
  <2>5. CASE OpenPipes(f)
    BY <2>2, <2>5, <1>1 DEF OpenPipes, ProcType
  <2>6. CASE ForkFilter(f) \/ ForkProvider(f)
    BY <2>2, <2>3, <2>6 DEF ForkFilter, ForkProvider, Prv, Flt
  <2>7. CASE OpenIstream(f) \/ Close(f)
    BY <2>1, <2>2, <2>7 DEF OpenIstream, Close
  <2>8. CASE Provider(f)
    BY <2>1, <2>3, <2>4, <2>8
       DEF Provider, ProviderStart, ProviderCopies, ProviderExits, Starts, Prv
  <2>9. CASE Filter(f)
    BY <2>1, <2>3, <2>4, <2>9
       DEF Filter, FilterStart, FilterReads, FilterWrites, FilterExits, Flt
  <2> QED
    BY <2>1, <2>5, <2>6, <2>7, <2>8, <2>9
       DEF StepOf, StartRead, ReadReturn, Deinit, Poll, RoundEnd
<1>3. ASSUME NEW n, Open(<<g, n>>)' PROVE Open(<<g, n>>)
  <2>1. CASE OpenPipes(f) /\ ~OpenFailed(f, {})
    <3>1. \A p \in DOMAIN fds' : p \in DOMAIN fds /\ (p # Parent => fds'[p] = fds[p])
      BY <2>1 DEF OpenPipes, ProcType
    <3> QED
      BY <1>2, <1>3, <3>1 DEF Open, ProcType
  <2>2. CASE OpenFailed(f, {}) \/ ~OpenPipes(f)
    <3>1. Inherits
      BY <2>2, FdsInherited
    <3> QED
      BY <1>3, <3>1, InheritsOpen
  <2> QED
    BY <2>1, <2>2
<1> QED
  BY <1>2, <1>3 DEF SameEnds

(* So it keeps what is said of the others.                                 *)
LEMMA OthersKeep ==
  ASSUME TypeOK, TypeOK', NEW f \in Fdfs, NEW g \in Fdfs, f # g, StepOf(f), Inv(g)
  PROVE  Inv(g)'
  BY OthersCall, OthersChildren, OthersData, OthersEnds, SameInv DEF Same, TypeOK
-----------------------------------------------------------------------------
(* The call the parent is in, seen from f: at, or none.                    *)
CallIs(f, at) ==
  /\ In("fork filter", f) <=> at = "fork filter"
  /\ In("fork provider", f) <=> at = "fork provider"
  /\ In("open istream", f) <=> at = "open istream"
  /\ In("read", f) <=> at = "read"
  /\ In("join", f) <=> at = "join"
  /\ InOpening(f) <=> at \in Opening

(* The parent is in one call.                                              *)
LEMMA CallNow ==
  ASSUME NEW f \in Fdfs
  PROVE  /\ pc = Idle => CallIs(f, "idle")
         /\ pc' = Idle => CallIs(f, "idle")'
         /\ \A at : pc = At(at, f) => CallIs(f, at)
         /\ \A at : pc' = At(at, f) => CallIs(f, at)'
<1>1. pc = Idle => CallIs(f, "idle")
  BY AtRecord DEF CallIs, In, InOpening, Opening
<1>2. pc' = Idle => CallIs(f, "idle")'
  BY AtRecord DEF CallIs, In, InOpening, Opening
<1>3. ASSUME NEW at, pc = At(at, f) PROVE CallIs(f, at)
  BY <1>3, AtFields DEF CallIs, In, InOpening
<1>4. ASSUME NEW at, pc' = At(at, f) PROVE CallIs(f, at)'
  BY <1>4, AtFields DEF CallIs, In, InOpening
<1> QED
  BY <1>1, <1>2, <1>3, <1>4

AllEnds == {"file", "r1", "w1", "r2", "w2"}
Own(f) == TypeOK /\ TypeOK' /\ Inv(f)

(* fdf_open() gives up: nothing of f stays in the parent, and no provider  *)
(* was forked.                                                             *)
LEMMA GivesUp ==
  ASSUME NEW f \in Fdfs, Own(f),
         \/ OpenPipes(f) /\ OpenFailed(f, {})
         \/ (ForkFilter(f) \/ ForkProvider(f)) /\ OpenFailed(f, Of(f, AllEnds))
  PROVE  Inv(f)'
<1>1. /\ UNCHANGED <<input, data, rc, proc>> /\ pc' = Idle
      /\ stage'[f] = "failed" /\ CallIs(f, "idle")'
  BY CallNow DEF OpenPipes, ForkFilter, ForkProvider, OpenFailed, Own, TypeOK, CallType
<1>2. /\ \A p \in Children : fds'[p] = fds[p]
      /\ \A e : Open(e)' => Open(e)
  <2>1. PICK ends : OpenFailed(f, ends)
    OBVIOUS
  <2>2. StepOf(f)
    BY DEF StepOf
  <2>3. Inherits
    BY <2>1, Domains DEF OpenFailed, Inherits, Own, TypeOK, ProcType
  <2> QED
    BY <2>1, <2>3, InheritsOpen, Domains DEF OpenFailed, Own, TypeOK, ProcType
<1>3. stage[f] = "new" /\ ~In("open istream", f) /\ ~In("join", f)
  BY CallNow DEF OpenPipes, ForkFilter, ForkProvider, Own, Inv, CallInv, CallIs, Opening
<1>4. Without(f, AllEnds)'
  <2>1. CASE OpenPipes(f)
    BY <2>1, CallNow DEF OpenPipes, OpenFailed, Without, CallIs, Own, TypeOK, ProcType,
      Inv, ParentEnds, Opening, AllEnds
  <2>2. CASE OpenFailed(f, Of(f, AllEnds))
    BY <2>2 DEF OpenFailed, Without, Of, Own, TypeOK, ProcType
  <2> QED
    BY <2>1, <2>2
<1>5. CallInv(f)' /\ ChildInv(f)'
  BY <1>1, <1>3 DEF CallInv, ChildInv, CallIs, Opening, Own, Inv, HasFilter
<1>6. ParentEnds(f)' /\ ChildEnds(f)'
  BY <1>1, <1>2, <1>4, Domains
     DEF ParentEnds, ChildEnds, CallIs, Opening, Own, Inv, HasFilter, AllEnds, WEnd
<1>7. Conserved(f)' /\ EofInv(f)'
  BY <1>1, <1>2 DEF Conserved, EofInv, Own, Inv, HasFilter, data
<1>8. ExitInv(f)' /\ RcInv(f)'
  BY <1>1, <1>2, <1>3 DEF ExitInv, RcInv, ReadAll, WroteAll, CallIs, Own, Inv, data
<1>9. JoinInv(f)'
  BY <1>1, <1>3 DEF JoinInv, Waited, CallIs, Own, Inv, ChildInv
<1> QED
  BY <1>5, <1>6, <1>7, <1>8, <1>9 DEF Inv

(* fdf_open() has made the pipes.                                          *)
LEMMA Opens ==
  ASSUME NEW f \in Fdfs, Own(f), OpenPipes(f), ~OpenFailed(f, {})
  PROVE  Inv(f)'
<1>1. /\ UNCHANGED <<input, data, rc, stage, proc>> /\ pc = Idle
      /\ pc' = At(IF HasFilter(f) THEN "fork filter" ELSE "fork provider", f)
      /\ fds' = [fds EXCEPT ![Parent] = @ \cup Of(f, AllEnds)]
  BY DEF OpenPipes, AllEnds
<1>2. /\ stage[f] = "new" /\ CallIs(f, "idle")
      /\ CallIs(f, IF HasFilter(f) THEN "fork filter" ELSE "fork provider")'
      /\ (HasFilter(f)' <=> HasFilter(f))
  BY <1>1, CallNow DEF OpenPipes, HasFilter
<1>3. /\ \A p \in Children : fds'[p] = fds[p]
      /\ \A n \in AllEnds : <<f, n>> \in fds'[Parent]
  BY <1>1, Domains DEF Own, TypeOK, ProcType, Of
<1>4. CallInv(f)' /\ ChildInv(f)'
  BY <1>1, <1>2 DEF CallInv, ChildInv, CallIs, Opening, Own, Inv
<1>5. ParentEnds(f)' /\ ChildEnds(f)'
  BY <1>1, <1>2, <1>3, Domains
     DEF ParentEnds, ChildEnds, CallIs, Opening, Own, Inv, ChildInv, WEnd, AllEnds, Alive
<1>6. Conserved(f)' /\ EofInv(f)'
  BY <1>1, <1>2 DEF Conserved, EofInv, Own, Inv, HasFilter, data
<1>7. ExitInv(f)' /\ RcInv(f)' /\ JoinInv(f)'
  BY <1>1, <1>2 DEF ExitInv, RcInv, JoinInv, CallIs, Opening, Own, Inv, ChildInv
<1> QED
  BY <1>4, <1>5, <1>6, <1>7 DEF Inv

(* A fork: the child has what the parent has, and the parent closes ends.  *)
LEMMA Forked ==
  ASSUME ProcType, ProcType', NEW p \in Children, NEW ends, Forks(p, ends)
  PROVE  /\ proc'[p] = "forked" /\ fds'[p] = fds[Parent]
         /\ \A q \in Children : q # p => proc'[q] = proc[q] /\ fds'[q] = fds[q]
         /\ fds'[Parent] = fds[Parent] \ ends
         /\ \A e : Open(e)' => Open(e)
<1>1. /\ proc'[p] = "forked" /\ fds'[p] = fds[Parent]
      /\ \A q \in Children : q # p => proc'[q] = proc[q] /\ fds'[q] = fds[q]
      /\ fds'[Parent] = fds[Parent] \ ends
  BY Domains DEF Forks, ProcType
<1>2. Inherits
  BY <1>1 DEF Inherits
<1> QED
  BY <1>1, <1>2, InheritsOpen

(* The fork of the filter: it inherits pipe2[1], its output.               *)
LEMMA FilterForked ==
  ASSUME NEW f \in Fdfs, Own(f), ForkFilter(f), ~OpenFailed(f, Of(f, AllEnds))
  PROVE  Inv(f)'
<1>1. /\ UNCHANGED <<input, data, rc, stage>>
      /\ CallIs(f, "fork filter") /\ CallIs(f, "fork provider")'
      /\ Forks(Flt(f), Of(f, Unneeded))
  BY CallNow DEF ForkFilter, AllEnds, Flt
<1>2. stage[f] = "new" /\ HasFilter(f) /\ proc[Prv(f)] = "none"
  BY <1>1 DEF Own, Inv, CallInv, ChildInv, CallIs, Opening
<1>3. /\ proc'[Flt(f)] = "forked" /\ fds'[Flt(f)] = fds[Parent]
      /\ proc'[Prv(f)] = proc[Prv(f)] /\ fds'[Prv(f)] = fds[Prv(f)]
      /\ fds'[Parent] = fds[Parent] \ Of(f, Unneeded)
  <2>1. ProcType /\ ProcType' /\ Forks(Flt(f), Of(f, Unneeded))
    BY <1>1 DEF Own, TypeOK
  <2>2. Prv(f) \in Children /\ Flt(f) \in Children /\ Prv(f) # Flt(f)
    BY Domains
  <2> QED
    BY <2>1, <2>2, Forked, Zenon
<1>4. CallInv(f)' /\ ChildInv(f)'
  BY <1>1, <1>2, <1>3 DEF CallInv, ChildInv, CallIs, Opening, HasFilter
<1>5. <<f, "w1">> \in fds'[Parent] /\ <<f, "w2">> \in fds[Parent]
  BY <1>1, <1>3 DEF Own, Inv, ParentEnds, CallIs, Of, Unneeded
<1>6. ParentEnds(f)' /\ ChildEnds(f)'
  <2>1. ParentEnds(f)'
    BY <1>1, <1>2, <1>5, <1>3
       DEF ParentEnds, CallIs, Opening, WEnd, HasFilter, Of, Unneeded, Own, Inv
  <2>2. ChildEnds(f)'
    BY <1>2, <1>3, <1>5 DEF ChildEnds, Alive
  <2> QED
    BY <2>1, <2>2
<1>7. Conserved(f)' /\ EofInv(f)'
  BY <1>1, <1>2 DEF Conserved, EofInv, Own, Inv, HasFilter, data
<1>8. ExitInv(f)' /\ RcInv(f)' /\ JoinInv(f)'
  BY <1>1, <1>2, <1>3 DEF ExitInv, RcInv, JoinInv, CallIs, Own, Inv
<1> QED
  BY <1>4, <1>6, <1>7, <1>8 DEF Inv

(* The fork of the provider: it inherits the end it writes to.             *)
LEMMA ProviderForked ==
  ASSUME NEW f \in Fdfs, Own(f), ForkProvider(f), ~OpenFailed(f, Of(f, AllEnds))
  PROVE  Inv(f)'
<1>1. /\ UNCHANGED <<input, data, rc, stage>>
      /\ CallIs(f, "fork provider") /\ CallIs(f, "open istream")'
      /\ Forks(Prv(f), Of(f, {"w1"} \cup Unneeded))
  BY CallNow DEF ForkProvider, AllEnds, Prv
<1>2. stage[f] = "new" /\ (HasFilter(f) <=> proc[Flt(f)] # "none")
      /\ proc[Flt(f)] # "reaped"
  BY <1>1 DEF Own, Inv, CallInv, ChildInv, CallIs, Opening
<1>3. /\ proc'[Prv(f)] = "forked" /\ fds'[Prv(f)] = fds[Parent]
      /\ proc'[Flt(f)] = proc[Flt(f)] /\ fds'[Flt(f)] = fds[Flt(f)]
      /\ fds'[Parent] = fds[Parent] \ Of(f, {"w1"} \cup Unneeded)
      /\ \A e : Open(e)' => Open(e)
  <2>1. ProcType /\ ProcType' /\ Forks(Prv(f), Of(f, {"w1"} \cup Unneeded))
    BY <1>1 DEF Own, TypeOK
  <2>2. Prv(f) \in Children /\ Flt(f) \in Children /\ Prv(f) # Flt(f)
    BY Domains
  <2> QED
    BY <2>1, <2>2, Forked, Zenon
<1>4. CallInv(f)' /\ ChildInv(f)'
  BY <1>1, <1>2, <1>3 DEF CallInv, ChildInv, CallIs, Opening, HasFilter
<1>5. WEnd(f) \in fds[Parent] /\ Without(f, {"r1", "w1", "w2"})'
  BY <1>1, <1>3 DEF Own, Inv, ParentEnds, CallIs, Of, Unneeded, Without
<1>6. ParentEnds(f)' /\ ChildEnds(f)'
  <2>1. ParentEnds(f)'
    BY <1>1, <1>2, <1>5 DEF ParentEnds, CallIs, Opening
  <2>2. WEnd(f)' = WEnd(f)
    BY <1>1 DEF WEnd, HasFilter
  <2>3. ChildEnds(f)'
    BY <1>3, <1>5, <2>2 DEF ChildEnds, Own, Inv
  <2> QED
    BY <2>1, <2>3
<1>7. Conserved(f)' /\ EofInv(f)'
  BY <1>1, <1>2 DEF Conserved, EofInv, Own, Inv, HasFilter, data
<1>8. ExitInv(f)' /\ RcInv(f)' /\ JoinInv(f)'
  BY <1>1, <1>2, <1>3 DEF ExitInv, RcInv, JoinInv, CallIs, Own, Inv, WroteAll, data
<1> QED
  BY <1>4, <1>6, <1>7, <1>8 DEF Inv
-----------------------------------------------------------------------------
(* A read takes a block from pipe2, or finds that nobody can write to it.  *)
LEMMA ReadTakes ==
  ASSUME NEW f \in Fdfs, Own(f), Read(f)
  PROVE  /\ pipe'[f][1] = pipe[f][1]
         /\ pipe'[f][2] + got'[f] = pipe[f][2] + got[f]
         /\ eof'[f] => pipe'[f][2] = 0 /\ ~Open(<<f, "w2">>)
<1>1. /\ pipe[f] \in [1..2 -> Nat] /\ got[f] \in Nat
      /\ pipe'[f][1] = pipe[f][1]
      /\ pipe'[f][2] = (IF pipe[f][2] > 0 THEN pipe[f][2] - 1 ELSE 0)
      /\ got'[f] = (IF pipe[f][2] > 0 THEN got[f] + 1 ELSE got[f])
  BY DEF Read, Own, TypeOK, DataType
<1>2. eof'[f] => pipe[f][2] = 0
  BY DEF Read, Own, TypeOK, DataType
<1>3. pipe[f][2] \in Nat
  BY <1>1
<1>4. pipe[f][2] > 0 \/ ~Open(<<f, "w2">>)
  BY DEF Read, Readable
<1> QED
  BY <1>1, <1>2, <1>3, <1>4

(* A read moves a block from pipe2 to the parent.                          *)
LEMMA ConservedByRead ==
  ASSUME NEW f \in Fdfs, Own(f), Read(f), UNCHANGED <<input, left, held>>
  PROVE  Conserved(f)'
<1>1. /\ pipe'[f] \in [1..2 -> Nat] /\ got'[f] \in Nat
      /\ pipe[f] \in [1..2 -> Nat] /\ got[f] \in Nat
      /\ left[f] \in Nat /\ held[f] \in Nat
  BY DEF Own, TypeOK, DataType
<1>2. /\ pipe'[f][1] \in Nat /\ pipe'[f][2] \in Nat
      /\ pipe[f][1] \in Nat /\ pipe[f][2] \in Nat
  BY <1>1
<1>3. Conserved(f)
  BY DEF Own, Inv
<1>4. /\ pipe'[f][1] = pipe[f][1]
      /\ pipe'[f][2] + got'[f] = pipe[f][2] + got[f]
  BY ReadTakes
<1> QED
  BY <1>1, <1>2, <1>3, <1>4 DEF Conserved, HasFilter

(* The parent closes ends.                                                 *)
LEMMA ParentCloses ==
  ASSUME ProcType, ProcType', NEW ends, Closes(Parent, ends)
  PROVE  /\ \A p \in Children : fds'[p] = fds[p]
         /\ fds'[Parent] = fds[Parent] \ ends
         /\ \A e : Open(e)' => Open(e)
<1>1. /\ \A p \in Children : fds'[p] = fds[p]
      /\ fds'[Parent] = fds[Parent] \ ends
  BY Domains DEF Closes, ProcType
<1>2. Inherits
  BY <1>1 DEF Inherits
<1> QED
  BY <1>1, <1>2, InheritsOpen

(* The first read, of uls_open_istream(), and its failure.                 *)
LEMMA FirstRead ==
  ASSUME NEW f \in Fdfs, Own(f), OpenIstream(f)
  PROVE  Inv(f)'
<1>1. /\ UNCHANGED <<input, proc, left, held, rc>> /\ Read(f)
      /\ CallIs(f, "open istream") /\ stage[f] = "new"
  BY CallNow DEF OpenIstream, Own, Inv, CallInv, CallIs, Opening
<1>2. \/ /\ stage'[f] = "open" /\ CallIs(f, "idle")' /\ UNCHANGED fds
      \/ /\ stage'[f] = "failed" /\ CallIs(f, "join")' /\ pc'.k = 1
         /\ Closes(Parent, Of(f, {"r2", "file"}))
  <2>1. CASE stage' = [stage EXCEPT ![f] = "open"] /\ pc' = Idle /\ UNCHANGED fds
    BY <2>1, CallNow DEF Own, TypeOK, CallType
  <2>2. CASE /\ stage' = [stage EXCEPT ![f] = "failed"]
             /\ pc' = At("join", f)
             /\ Closes(Parent, Of(f, {"r2", "file"}))
    BY <2>2, CallNow, AtFields DEF Own, TypeOK, CallType
  <2> QED
    BY <2>1, <2>2 DEF OpenIstream
<1>3. /\ \A p \in Children : fds'[p] = fds[p]
      /\ \A e : Open(e)' => Open(e)
  <2>1. CASE UNCHANGED fds
    BY <2>1 DEF Open
  <2>2. CASE Closes(Parent, Of(f, {"r2", "file"}))
    BY <2>2, ParentCloses DEF Own, TypeOK
  <2> QED
    BY <1>2, <2>1, <2>2
<1>4. /\ Without(f, {"r1", "w1", "w2"})'
      /\ stage'[f] = "failed" => Without(f, AllEnds)'
  <2>1. Without(f, {"r1", "w1", "w2"})
    BY <1>1 DEF Own, Inv, ParentEnds, CallIs
  <2>2. CASE UNCHANGED fds /\ stage'[f] = "open"
    BY <2>1, <2>2 DEF Without
  <2>3. CASE Closes(Parent, Of(f, {"r2", "file"}))
    <3>1. fds'[Parent] = fds[Parent] \ Of(f, {"r2", "file"})
      BY <2>3, ParentCloses DEF Own, TypeOK
    <3> QED
      BY <2>1, <3>1 DEF Without, Of, AllEnds
  <2> QED
    BY <1>2, <2>2, <2>3
<1>5. CallInv(f)' /\ ChildInv(f)'
  BY <1>1, <1>2 DEF CallInv, ChildInv, CallIs, Opening, Own, Inv, HasFilter
<1>6. ParentEnds(f)' /\ ChildEnds(f)'
  <2>1. ParentEnds(f)'
    BY <1>2, <1>4 DEF ParentEnds, CallIs, Opening, AllEnds
  <2>2. ChildEnds(f)'
    BY <1>1, <1>3, Domains DEF ChildEnds, Own, Inv, WEnd, HasFilter
  <2> QED
    BY <2>1, <2>2
<1>7. Conserved(f)' /\ EofInv(f)'
  <2>1. EofInv(f)'
    BY <1>1, <1>2, <1>3, ReadTakes DEF EofInv
  <2> QED
    BY <1>1, <2>1, ConservedByRead
<1>8. ExitInv(f)' /\ RcInv(f)'
  BY <1>1, <1>2, <1>3, ReadTakes DEF ExitInv, RcInv, ReadAll, WroteAll, CallIs, Own, Inv
<1>9. JoinInv(f)'
  <2>1. ~In("join", f)' \/ pc'.k = 1
    BY <1>2 DEF CallIs
  <2>2. (stage'[f] = "failed" => In("join", f)') /\ stage'[f] \in {"open", "failed"}
    BY <1>2 DEF CallIs
  <2> QED
    BY <2>1, <2>2 DEF JoinInv
<1> QED
  BY <1>5, <1>6, <1>7, <1>8, <1>9 DEF Inv

(* A read of the stream returns.                                           *)
LEMMA ReadReturns ==
  ASSUME NEW f \in Fdfs, Own(f), ReadReturn(f)
  PROVE  Inv(f)'
<1>1. /\ UNCHANGED <<input, stage, proc, fds, left, held, rc>> /\ Read(f)
      /\ CallIs(f, "read") /\ stage[f] = "open" /\ CallIs(f, "idle")'
  BY CallNow DEF ReadReturn, Own, Inv, CallInv, CallIs
<1>2. \A e : Open(e)' <=> Open(e)
  BY <1>1 DEF Open
<1>3. CallInv(f)' /\ ChildInv(f)'
  BY <1>1 DEF CallInv, ChildInv, CallIs, Opening, Own, Inv, HasFilter
<1>4. ParentEnds(f)' /\ ChildEnds(f)'
  BY <1>1 DEF ParentEnds, ChildEnds, CallIs, Opening, Own, Inv, Without, WEnd, HasFilter
<1>5. Conserved(f)' /\ EofInv(f)'
  <2>1. EofInv(f)'
    BY <1>1, <1>2, ReadTakes DEF EofInv
  <2> QED
    BY <1>1, <2>1, ConservedByRead
<1>6. ExitInv(f)' /\ RcInv(f)' /\ JoinInv(f)'
  BY <1>1, <1>2, ReadTakes DEF ExitInv, RcInv, JoinInv, ReadAll, WroteAll, CallIs, Own, Inv
<1> QED
  BY <1>3, <1>4, <1>5, <1>6 DEF Inv
-----------------------------------------------------------------------------
(* The calls that touch neither the children nor what is in the pipes.     *)
LEMMA SameRest ==
  ASSUME NEW f \in Fdfs, Own(f), UNCHANGED <<input, proc, data>>,
         \A p \in Children : fds'[p] = fds[p], \A e : Open(e)' => Open(e),
         stage[f] # "new", stage'[f] # "new"
  PROVE  ChildEnds(f)' /\ Conserved(f)' /\ EofInv(f)'
<1>1. ChildEnds(f)'
  BY Domains DEF Own, Inv, ChildEnds, WEnd, HasFilter
<1>2. Conserved(f)' /\ EofInv(f)'
  BY DEF Own, Inv, Conserved, EofInv, HasFilter, data
<1> QED
  BY <1>1, <1>2

(* A read of the stream starts.                                            *)
LEMMA ReadStarts ==
  ASSUME NEW f \in Fdfs, Own(f), StartRead(f)
  PROVE  Inv(f)'
<1>1. /\ UNCHANGED <<input, stage, proc, fds, data, rc>>
      /\ stage[f] = "open" /\ CallIs(f, "idle") /\ CallIs(f, "read")'
  BY CallNow DEF StartRead
<1>2. \A e : Open(e)' <=> Open(e)
  BY <1>1 DEF Open
<1>3. CallInv(f)' /\ ChildInv(f)'
  BY <1>1 DEF CallInv, ChildInv, CallIs, Opening, Own, Inv, HasFilter
<1>4. ParentEnds(f)'
  BY <1>1 DEF ParentEnds, CallIs, Opening, Own, Inv, Without
<1>5. ExitInv(f)' /\ RcInv(f)' /\ JoinInv(f)'
  BY <1>1, <1>2 DEF ExitInv, RcInv, JoinInv, ReadAll, WroteAll, CallIs, Own, Inv, data
<1> QED
  BY <1>1, <1>2, <1>3, <1>4, <1>5, SameRest DEF Inv

(* fdf_close() starts to wait.                                             *)
LEMMA Closed ==
  ASSUME NEW f \in Fdfs, Own(f), Close(f)
  PROVE  Inv(f)'
<1>1. /\ UNCHANGED <<input, proc, data, rc>>
      /\ stage[f] = "open" /\ stage'[f] = "closed"
      /\ CallIs(f, "idle") /\ CallIs(f, "join")' /\ pc'.k = 1
  BY CallNow, AtFields DEF Close, Own, TypeOK, CallType
<1>2. /\ \A p \in Children : fds'[p] = fds[p]
      /\ fds'[Parent] = fds[Parent] \ Of(f, {"r2"})
      /\ \A e : Open(e)' => Open(e)
  <2>1. ProcType /\ ProcType' /\ Closes(Parent, Of(f, {"r2"}))
    BY DEF Own, TypeOK, Close
  <2> QED
    BY <2>1, ParentCloses, Zenon
<1>3. CallInv(f)' /\ ChildInv(f)'
  BY <1>1 DEF CallInv, ChildInv, CallIs, Opening, Own, Inv, HasFilter
<1>4. ParentEnds(f)'
  <2>1. Without(f, {"r1", "w1", "w2"})
    BY <1>1 DEF Own, Inv, ParentEnds
  <2>2. Without(f, {"r1", "w1", "r2", "w2"})'
    BY <1>2, <2>1 DEF Without, Of
  <2> QED
    BY <1>1, <2>2 DEF ParentEnds, CallIs, Opening
<1>5. ExitInv(f)' /\ RcInv(f)'
  BY <1>1, <1>2 DEF ExitInv, RcInv, ReadAll, WroteAll, CallIs, Own, Inv, ChildInv, data
<1>6. JoinInv(f)'
  <2>1. In("join", f)' /\ pc'.k = 1 /\ stage'[f] = "closed"
    BY <1>1 DEF CallIs
  <2> QED
    BY <2>1 DEF JoinInv
<1> QED
  BY <1>1, <1>2, <1>3, <1>4, <1>5, <1>6, SameRest DEF Inv

(* fdf_deinit() waits once more.                                           *)
LEMMA Deinited ==
  ASSUME NEW f \in Fdfs, Own(f), Deinit(f)
  PROVE  Inv(f)'
<1>1. /\ UNCHANGED <<input, proc, fds, data, rc>>
      /\ stage[f] \in {"closed", "failed"} /\ stage'[f] = "done"
      /\ CallIs(f, "idle") /\ CallIs(f, "join")' /\ pc'.k = 1
  BY CallNow, AtFields DEF Deinit, Own, TypeOK, CallType
<1>2. \A e : Open(e)' <=> Open(e)
  BY <1>1 DEF Open
<1>3. CallInv(f)' /\ ChildInv(f)'
  BY <1>1 DEF CallInv, ChildInv, CallIs, Opening, Own, Inv, HasFilter
<1>4. ParentEnds(f)'
  BY <1>1 DEF ParentEnds, CallIs, Opening, Own, Inv, Without
<1>5. ExitInv(f)' /\ RcInv(f)'
  BY <1>1, <1>2 DEF ExitInv, RcInv, ReadAll, WroteAll, CallIs, Own, Inv, data
<1>6. JoinInv(f)'
  <2>1. Waited(Prv(f)) \/ Waited(Flt(f))
    BY <1>1 DEF JoinInv, CallIs, Own, Inv
  <2>2. (Waited(Prv(f)) \/ Waited(Flt(f)))'
    BY <1>1, <2>1 DEF Waited
  <2>3. In("join", f)' /\ pc'.k = 1 /\ stage'[f] = "done"
    BY <1>1 DEF CallIs
  <2> QED
    BY <2>2, <2>3 DEF JoinInv
<1> QED
  BY <1>1, <1>2, <1>3, <1>4, <1>5, <1>6, SameRest DEF Inv
-----------------------------------------------------------------------------
(* The wait.  In uls_proc_join() only the parent's record of a child and   *)
(* the result of the call change.                                          *)
LEMMA WaitRest ==
  ASSUME NEW f \in Fdfs, Own(f), UNCHANGED <<input, stage, fds, data>>,
         In("join", f), ~InOpening(f), ~In("read", f),
         ~InOpening(f)', ~In("read", f)',
         \A p \in {Prv(f), Flt(f)} :
           \/ proc'[p] = proc[p]
           \/ proc[p] \in {"exit 0", "exit 1"} /\ proc'[p] = "reaped"
  PROVE  /\ CallInv(f)' /\ ChildInv(f)' /\ ParentEnds(f)' /\ ChildEnds(f)'
         /\ Conserved(f)' /\ EofInv(f)'
<1>1. stage[f] \in {"closed", "failed", "done"}
  BY DEF Own, Inv, CallInv
<1>2. ~In("fork filter", f)' /\ ~In("fork provider", f)' /\ ~In("open istream", f)'
  BY DEF InOpening, In, Opening
<1>3. CallInv(f)'
  BY <1>1 DEF CallInv
<1>4. ChildInv(f)'
  BY <1>1, <1>2 DEF Own, Inv, ChildInv, HasFilter
<1>5. ParentEnds(f)'
  BY <1>1, <1>2 DEF Own, Inv, ParentEnds, Without
<1>6. ChildEnds(f)'
  BY DEF Own, Inv, ChildEnds, WEnd, HasFilter, Alive
<1>7. Conserved(f)' /\ EofInv(f)'
  BY DEF Own, Inv, Conserved, EofInv, HasFilter, Open, data
<1> QED
  BY <1>3, <1>4, <1>5, <1>6, <1>7

(* A wait is made on a filter that was closed.                             *)
LEMMA JoinCall ==
  ASSUME NEW f \in Fdfs, pc.at = "join", pc.f = f
  PROVE  In("join", f) /\ ~InOpening(f) /\ ~In("read", f)
  BY DEF In, InOpening, Opening

(* A child that failed ends the wait.                                      *)
PollOf(f, p) == Poll /\ pc.f = f /\ Polled = p
Failed(f, p) == PollOf(f, p) /\ proc[p] = "exit 1"
Fine(f, p)   == PollOf(f, p) /\ proc[p] # "exit 1"

(* The wait ends at a child that failed.                                   *)
LEMMA PollFails ==
  ASSUME NEW f \in Fdfs, Own(f), NEW p \in {Prv(f), Flt(f)}, Failed(f, p)
  PROVE  Inv(f)'
<1>1. /\ UNCHANGED <<input, stage, fds, data>> /\ pc' = Idle /\ pc.at = "join"
      /\ proc' = [proc EXCEPT ![p] = "reaped"]
      /\ rc' = IF stage[f] = "closed" THEN [rc EXCEPT ![f] = -1] ELSE rc
  BY DEF Failed, PollOf, Poll, Joined
<1>2. /\ proc'[p] = "reaped"
      /\ \A q \in {Prv(f), Flt(f)} : q # p => proc'[q] = proc[q]
  BY <1>1, Domains DEF Own, TypeOK, ProcType
<1>3. /\ stage[f] = "closed" => rc'[f] # 0
      /\ stage[f] # "closed" => rc'[f] = rc[f]
  BY <1>1 DEF Own, TypeOK, CallType
<1>4. In("join", f) /\ ~InOpening(f) /\ ~In("read", f) /\ CallIs(f, "idle")'
  BY <1>1, CallNow, JoinCall DEF Failed, PollOf
<1>5. ~In("join", f)' /\ ~InOpening(f)' /\ ~In("read", f)'
  BY <1>4 DEF CallIs, Opening
<1>6. \A e : Open(e)' <=> Open(e)
  BY <1>1 DEF Open
<1>7. ExitInv(f)'
  BY <1>1, <1>2, <1>5, <1>6 DEF Own, Inv, ExitInv, ReadAll, WroteAll, data, Failed
<1>8. RcInv(f)'
  <2>1. rc'[f] = 0 => rc[f] = 0 /\ stage[f] # "closed"
    BY <1>3
  <2>2. rc'[f] = 0 => proc[Prv(f)] = "reaped" /\ stage[f] = "done"
    BY <2>1 DEF Own, Inv, RcInv
  <2> QED
    BY <1>1, <1>2, <2>1, <2>2 DEF Own, Inv, RcInv, ReadAll, data
<1>9. JoinInv(f)'
  <2>1. ~Waited(p) /\ Waited(p)'
    BY <1>1, <1>2 DEF Waited, Failed
  <2>2. stage[f] = "done" => Waited(Prv(f)) \/ Waited(Flt(f))
    BY DEF Own, Inv, JoinInv
  <2>3. \A q \in {Prv(f), Flt(f)} : Waited(q) => Waited(q)'
    BY <1>2 DEF Waited
  <2> QED
    BY <1>1, <1>5, <2>1, <2>2, <2>3 DEF JoinInv
<1> QED
  BY <1>1, <1>2, <1>4, <1>5, <1>7, <1>8, <1>9, WaitRest DEF Inv, Failed

(* It goes on to the next child after any other.                           *)
LEMMA PollGoesOn ==
  ASSUME NEW f \in Fdfs, Own(f), NEW p \in {Prv(f), Flt(f)}, Fine(f, p)
  PROVE  Inv(f)'
<1>1. /\ UNCHANGED <<input, stage, fds, data, rc>> /\ pc.at = "join"
      /\ (pc.k = 1 /\ p = Prv(f)) \/ (pc.k = 2 /\ p = Flt(f))
  <2>1. UNCHANGED <<input, stage, fds, data, rc>> /\ pc.at = "join" /\ pc.k \in 1..2
    BY DEF Fine, PollOf, Poll
  <2>2. CASE pc.k = 1
    <3>1. p = Polled /\ pc.f = f
      BY DEF Fine, PollOf
    <3>2. Polled = <<f, "provider">>
      BY <2>2, <3>1, Zenon DEF Polled
    <3> QED
      BY <2>1, <2>2, <3>1, <3>2, Zenon DEF Prv
  <2>3. CASE pc.k = 2
    <3>1. pc.k # 1
      BY <2>3
    <3> QED
      BY <2>1, <2>3, <3>1, Zenon DEF Fine, PollOf, Polled, Flt
  <2> QED
    BY <2>1, <2>2, <2>3
<1>2. /\ pc'.at = "join" /\ pc'.f = f /\ pc'.k = pc.k + 1
      /\ proc[p] \in Alive => pc'.rem = pc.rem + 1
      /\ proc[p] \notin Alive => pc'.rem = pc.rem
  <2>1. pc' = [at |-> "join", f |-> f, k |-> pc.k + 1,
               rem |-> IF proc[p] \in Alive THEN pc.rem + 1 ELSE pc.rem]
    BY DEF Fine, PollOf, Poll, Alive
  <2> QED
    BY <2>1
<1>3. /\ proc[p] = "exit 0" => proc'[p] = "reaped"
      /\ proc[p] # "exit 0" => proc'[p] = proc[p]
      /\ \A q \in {Prv(f), Flt(f)} : q # p => proc'[q] = proc[q]
  <2>1. \/ proc' = proc /\ proc[p] # "exit 0"
        \/ proc' = [proc EXCEPT ![p] = "reaped"] /\ proc[p] = "exit 0"
    BY DEF Fine, PollOf, Poll
  <2> QED
    BY <2>1, Domains DEF Own, TypeOK, ProcType
<1>4. /\ In("join", f) /\ ~InOpening(f) /\ ~In("read", f)
      /\ In("join", f)' /\ ~InOpening(f)' /\ ~In("read", f)'
  BY <1>1, <1>2 DEF In, InOpening, Opening, Fine, PollOf
<1>5. \A e : Open(e)' <=> Open(e)
  BY <1>1 DEF Open
<1>6. ExitInv(f)'
  BY <1>1, <1>3, <1>4, <1>5 DEF Own, Inv, ExitInv, ReadAll, WroteAll, data, Fine
<1>7. RcInv(f)'
  BY <1>1, <1>3, <1>4 DEF Own, Inv, RcInv, ReadAll, data
<1>8. JoinInv(f)'
  <2>1. \A q \in {Prv(f), Flt(f)} : Waited(q) => Waited(q)'
    BY <1>3 DEF Waited
  <2>2. stage[f] = "done" => Waited(Prv(f)) \/ Waited(Flt(f))
    BY DEF Own, Inv, JoinInv
  <2>3. pc.rem \in Nat /\ proc[p] \in Statuses
    BY <1>1, Domains DEF Own, TypeOK, CallType, Calls, ProcType
  <2>4. pc'.rem = 0 => pc.rem = 0 /\ proc[p] \notin Alive
    <3>1. CASE proc[p] \in Alive
      <4>1. pc'.rem = pc.rem + 1
        BY <1>2, <3>1
      <4> QED
        BY <4>1, <2>3
    <3>2. CASE proc[p] \notin Alive
      BY <1>2, <3>2
    <3> QED
      BY <3>1, <3>2
  <2>5. proc[p] \notin Alive => Waited(p)'
    BY <1>3, <2>3 DEF Statuses, Waited, Fine
  <2>6. pc.rem = 0 /\ pc.k = 2 => Waited(Prv(f))
    <3>1. pc.rem = 0 /\ pc.k >= 2 => Waited(Prv(f))
      BY <1>4 DEF Own, Inv, JoinInv
    <3> QED
      BY <3>1
  <2>7. pc'.rem = 0 => Waited(Prv(f))'
    BY <1>1, <2>1, <2>4, <2>5, <2>6
  <2>8. pc'.rem = 0 /\ pc'.k = 3 => Waited(Flt(f))'
    BY <1>1, <1>2, <2>4, <2>5
  <2> QED
    BY <1>1, <1>4, <2>1, <2>2, <2>7, <2>8 DEF JoinInv
<1> QED
  BY <1>1, <1>3, <1>4, <1>6, <1>7, <1>8, WaitRest DEF Inv, Fine

(* A round of waitpid() found both ended, or another one begins.           *)
LEMMA RoundEnds ==
  ASSUME NEW f \in Fdfs, Own(f), RoundEnd, pc.f = f
  PROVE  Inv(f)'
<1>1. /\ UNCHANGED <<input, stage, proc, fds, data>> /\ pc.at = "join" /\ pc.k = 3
      /\ \/ pc.rem = 0 /\ Joined(0)
         \/ pc' = At("join", f) /\ UNCHANGED rc
  BY DEF RoundEnd, AllJoined
<1>2. In("join", f) /\ ~InOpening(f) /\ ~In("read", f)
  BY <1>1, JoinCall
<1>3. \A e : Open(e)' <=> Open(e)
  BY <1>1 DEF Open
<1>4. CASE pc' = At("join", f) /\ UNCHANGED rc
  <2>1. CallIs(f, "join")' /\ pc'.k = 1
    BY <1>4, CallNow, AtFields
  <2>2. In("join", f)' /\ ~InOpening(f)' /\ ~In("read", f)'
    BY <2>1 DEF CallIs, Opening
  <2>3. ExitInv(f)' /\ RcInv(f)'
    BY <1>1, <1>2, <1>3, <1>4, <2>2 DEF Own, Inv, ExitInv, RcInv, ReadAll, WroteAll, data
  <2>4. JoinInv(f)'
    BY <1>1, <1>2, <2>1, <2>2 DEF Own, Inv, JoinInv, Waited
  <2> QED
    BY <1>1, <1>2, <2>2, <2>3, <2>4, WaitRest DEF Inv
<1>5. CASE pc.rem = 0 /\ Joined(0)
  <2>1. Waited(Prv(f)) /\ Waited(Flt(f))
    BY <1>1, <1>2, <1>5 DEF Own, Inv, JoinInv
  <2>2. pc' = Idle /\ rc'[f] = IF stage[f] = "closed" THEN 0 ELSE rc[f]
    BY <1>5 DEF Joined, Own, TypeOK, CallType
  <2>3. ~In("join", f)' /\ ~InOpening(f)' /\ ~In("read", f)'
    BY <2>2, CallNow DEF CallIs, Opening
  <2>4. ExitInv(f)'
    BY <1>1, <1>3, <2>3 DEF Own, Inv, ExitInv, ReadAll, WroteAll, data
  <2>5. ASSUME stage[f] = "closed"
        PROVE  /\ proc[Prv(f)] = "reaped" /\ ReadAll(f)
               /\ held[f] = 0 /\ pipe[f][1] = 0
    <3>1. proc[Prv(f)] = "reaped" /\ (HasFilter(f) => proc[Flt(f)] = "reaped")
      BY <2>1, <2>5 DEF Own, Inv, ChildInv, Waited
    <3> QED
      BY <1>2, <2>5, <3>1 DEF Own, Inv, ExitInv, WroteAll, Conserved
  <2>6. RcInv(f)'
    BY <1>1, <1>2, <2>2, <2>3, <2>5 DEF Own, Inv, RcInv, ReadAll, data
  <2>7. JoinInv(f)'
    BY <1>1, <2>1, <2>3 DEF JoinInv, Waited
  <2> QED
    BY <1>1, <1>2, <2>3, <2>4, <2>6, <2>7, WaitRest DEF Inv
<1> QED
  BY <1>1, <1>4, <1>5
-----------------------------------------------------------------------------
(* The children.  The calls and what the parent has stay as they are.      *)
OfChild(f) ==
  /\ UNCHANGED <<input, stage, pc, rc>> /\ fds'[Parent] = fds[Parent]
  /\ \A e : Open(e)' => Open(e)

(* A step of a child leaves the parent where it is.                        *)
LEMMA ChildRest ==
  ASSUME NEW f \in Fdfs, Own(f), OfChild(f)
  PROVE  /\ CallInv(f)' /\ ParentEnds(f)'
         /\ \A at : In(at, f)' <=> In(at, f)
         /\ InOpening(f)' <=> InOpening(f)
<1>1. /\ \A at : In(at, f)' <=> In(at, f)
      /\ InOpening(f)' <=> InOpening(f)
  BY DEF OfChild, In, InOpening
<1>2. CallInv(f)'
  BY <1>1 DEF OfChild, Own, Inv, CallInv
<1>3. \A names : Without(f, names)' <=> Without(f, names)
  BY DEF OfChild, Without
<1>4. ParentEnds(f)'
  BY <1>1, <1>3 DEF OfChild, Own, Inv, ParentEnds, WEnd, HasFilter
<1> QED
  BY <1>1, <1>2, <1>4

(* A child starts, and closes ends it does not need, or exits.             *)
Turns(p, status) ==
  /\ proc'[p] = status
  /\ \A q \in Children : q # p => proc'[q] = proc[q] /\ fds'[q] = fds[q]

(* A child closes ends it does not write to.                               *)
LEMMA ChildCloses ==
  ASSUME ProcType, ProcType', NEW p \in Children, NEW st, NEW es, Closes(p, es),
         proc' = [proc EXCEPT ![p] = st]
  PROVE  /\ Turns(p, st) /\ fds'[p] = fds[p] \ es
         /\ fds'[Parent] = fds[Parent] /\ \A e : Open(e)' => Open(e)
<1>1. /\ Turns(p, st) /\ fds'[p] = fds[p] \ es /\ fds'[Parent] = fds[Parent]
  BY Domains DEF Closes, ProcType, Turns
<1>2. Inherits
  BY <1>1 DEF Inherits, Turns
<1> QED
  BY <1>1, <1>2, InheritsOpen

(* A child exits.                                                          *)
LEMMA ChildExits ==
  ASSUME ProcType, ProcType', NEW p \in Children, NEW st, Exits(p, st)
  PROVE  /\ Turns(p, st) /\ fds'[Parent] = fds[Parent] /\ \A e : Open(e)' => Open(e)
<1>1. /\ Turns(p, st) /\ fds'[p] = {} /\ fds'[Parent] = fds[Parent]
  BY Domains DEF Exits, ProcType, Turns
<1>2. Inherits
  BY <1>1 DEF Inherits, Turns
<1> QED
  BY <1>1, <1>2, InheritsOpen

(* One of the two children of f turns to another state, and is not reaped. *)
LEMMA TurnRest ==
  ASSUME NEW f \in Fdfs, Own(f), OfChild(f), UNCHANGED data,
         NEW p \in {Prv(f), Flt(f)}, NEW st, Turns(p, st),
         proc[p] \in {"forked", "run"}, st \in {"run", "copy", "exit 0", "exit 1"},
         st \in Alive => /\ p = Prv(f) => WEnd(f) \in fds'[p]
                         /\ p = Flt(f) => <<f, "w2">> \in fds'[p],
         st = "exit 0" => (p = Prv(f) => ReadAll(f)) /\ (p = Flt(f) => WroteAll(f))
  PROVE  Inv(f)'
<1>1. /\ Prv(f) # Flt(f) /\ proc'[p] = st
      /\ \A q \in {Prv(f), Flt(f)} : q # p => proc'[q] = proc[q] /\ fds'[q] = fds[q]
  BY Domains DEF Turns
<1>2. /\ UNCHANGED <<input, stage, pc, rc>> /\ \A e : Open(e)' => Open(e)
      /\ \A at : In(at, f)' <=> In(at, f)
      /\ InOpening(f)' <=> InOpening(f)
      /\ CallInv(f)' /\ ParentEnds(f)'
  BY ChildRest DEF OfChild
<1>3. ChildInv(f)'
  BY <1>1, <1>2 DEF Own, Inv, ChildInv, HasFilter
<1>4. ChildEnds(f)'
  BY <1>1, <1>2 DEF Own, Inv, ChildEnds, WEnd, HasFilter
<1>5. Conserved(f)' /\ EofInv(f)'
  BY <1>2 DEF Own, Inv, Conserved, EofInv, HasFilter, data
<1>6. ExitInv(f)'
  BY <1>1, <1>2 DEF Own, Inv, ExitInv, ReadAll, WroteAll, data
<1>7. RcInv(f)'
  BY <1>1, <1>2 DEF Own, Inv, RcInv, ReadAll, data
<1>8. JoinInv(f)'
  <2>1. \A q \in {Prv(f), Flt(f)} : Waited(q) => Waited(q)'
    BY <1>1 DEF Waited
  <2> QED
    BY <1>1, <1>2, <2>1 DEF Own, Inv, JoinInv
<1> QED
  BY <1>2, <1>3, <1>4, <1>5, <1>6, <1>7, <1>8 DEF Inv

(* The provider starts.                                                    *)
LEMMA ProviderStarts ==
  ASSUME NEW f \in Fdfs, Own(f), ProviderStart(f)
  PROVE  Inv(f)'
<1> DEFINE es == Of(f, IF HasFilter(f) THEN {"r2"} ELSE {"w1", "r2"})
<1>1. /\ UNCHANGED <<input, stage, pc, data, rc>> /\ proc[Prv(f)] = "forked"
      /\ proc' = [proc EXCEPT ![Prv(f)] = "run"] /\ Closes(Prv(f), es)
  BY DEF ProviderStart, Starts, Prv
<1>2. /\ Turns(Prv(f), "run") /\ fds'[Prv(f)] = fds[Prv(f)] \ es
      /\ fds'[Parent] = fds[Parent] /\ \A e : Open(e)' => Open(e)
  <2>1. ProcType /\ ProcType' /\ Prv(f) \in Children
    BY Domains DEF Own, TypeOK
  <2> QED
    BY <1>1, <2>1, ChildCloses
<1>3. WEnd(f) \in fds'[Prv(f)]
  <2>1. WEnd(f) \in fds[Prv(f)] /\ WEnd(f) \notin es
    BY <1>1 DEF Own, Inv, ChildEnds, Alive, WEnd, Of
  <2> QED
    BY <1>2, <2>1
<1>4. Prv(f) # Flt(f)
  BY Domains
<1> QED
  BY <1>1, <1>2, <1>3, <1>4, TurnRest DEF OfChild

(* It exits 0 only when it has copied the whole file.                      *)
LEMMA ProviderEnds ==
  ASSUME NEW f \in Fdfs, Own(f), ProviderExits(f)
  PROVE  Inv(f)'
<1>1. PICK st \in {"exit 0", "exit 1"} :
        Exits(Prv(f), st) /\ (st = "exit 0" => ReadAll(f))
  BY DEF ProviderExits, ProviderStatus, ReadAll, Prv
<1>2. UNCHANGED <<input, stage, pc, data, rc>> /\ proc[Prv(f)] = "run"
  BY DEF ProviderExits, Prv
<1>3. /\ Turns(Prv(f), st) /\ fds'[Parent] = fds[Parent] /\ \A e : Open(e)' => Open(e)
  <2>1. ProcType /\ ProcType' /\ Prv(f) \in Children
    BY Domains DEF Own, TypeOK
  <2> QED
    BY <1>1, <2>1, ChildExits
<1>4. Prv(f) # Flt(f) /\ st \notin Alive
  BY Domains DEF Alive
<1> QED
  BY <1>1, <1>2, <1>3, <1>4, TurnRest DEF OfChild

(* The filter starts, or cannot be executed.                               *)
LEMMA FilterStarts ==
  ASSUME NEW f \in Fdfs, Own(f), FilterStart(f)
  PROVE  Inv(f)'
<1>1. UNCHANGED <<input, stage, pc, data, rc>> /\ proc[Flt(f)] = "forked"
  BY DEF FilterStart, Flt
<1>2. ProcType /\ ProcType' /\ Flt(f) \in Children /\ Prv(f) # Flt(f)
  BY Domains DEF Own, TypeOK
<1>3. CASE Exits(Flt(f), "exit 1")
  <2>1. /\ Turns(Flt(f), "exit 1") /\ fds'[Parent] = fds[Parent]
        /\ \A e : Open(e)' => Open(e)
    BY <1>2, <1>3, ChildExits
  <2> QED
    BY <1>1, <1>2, <2>1, TurnRest DEF OfChild, Alive
<1>4. CASE ~Exits(Flt(f), "exit 1")
  <2>1. PICK st \in {"run", "copy"} :
          /\ proc' = [proc EXCEPT ![Flt(f)] = st]
          /\ Closes(Flt(f), Of(f, {"file", "w1", "r2"}))
    BY <1>4 DEF FilterStart, Flt
  <2>2. /\ Turns(Flt(f), st) /\ fds'[Flt(f)] = fds[Flt(f)] \ Of(f, {"file", "w1", "r2"})
        /\ fds'[Parent] = fds[Parent] /\ \A e : Open(e)' => Open(e)
    BY <1>2, <2>1, ChildCloses
  <2>3. <<f, "w2">> \in fds'[Flt(f)]
    <3>1. <<f, "w2">> \in fds[Flt(f)] /\ <<f, "w2">> \notin Of(f, {"file", "w1", "r2"})
      BY <1>1 DEF Own, Inv, ChildEnds, Alive, Of
    <3> QED
      BY <2>2, <3>1
  <2> QED
    BY <1>1, <1>2, <2>1, <2>2, <2>3, TurnRest DEF OfChild
<1> QED
  BY <1>3, <1>4

(* It exits 0 only when it has written all it was given.                   *)
LEMMA FilterEnded ==
  ASSUME NEW f \in Fdfs, Own(f), FilterExits(f)
  PROVE  Inv(f)'
<1>1. PICK st \in {"exit 0", "exit 1"} :
        Exits(Flt(f), st) /\ (st = "exit 0" => WroteAll(f))
  BY DEF FilterExits, WroteAll, Flt
<1>2. UNCHANGED <<input, stage, pc, data, rc>> /\ proc[Flt(f)] = "run"
  BY DEF FilterExits, Flt
<1>3. /\ Turns(Flt(f), st) /\ fds'[Parent] = fds[Parent] /\ \A e : Open(e)' => Open(e)
  <2>1. ProcType /\ ProcType' /\ Flt(f) \in Children
    BY Domains DEF Own, TypeOK
  <2> QED
    BY <1>1, <2>1, ChildExits
<1>4. Prv(f) # Flt(f) /\ st \notin Alive
  BY Domains DEF Alive
<1> QED
  BY <1>1, <1>2, <1>3, <1>4, TurnRest DEF OfChild
-----------------------------------------------------------------------------
(* The children move blocks.                                               *)
MoveRest(f) ==
  /\ UNCHANGED <<input, stage, pc, proc, fds, eof, rc>>

(* A block moved by a child leaves the rest of the filter as it was.       *)
LEMMA MovesRest ==
  ASSUME NEW f \in Fdfs, Own(f), MoveRest(f)
  PROVE  /\ CallInv(f)' /\ ChildInv(f)' /\ ParentEnds(f)' /\ ChildEnds(f)' /\ JoinInv(f)'
         /\ \A e : Open(e)' <=> Open(e)
         /\ In("join", f)' <=> In("join", f)
<1> USE DEF MoveRest, Own, Inv
<1>1. /\ \A at : In(at, f)' <=> In(at, f)
      /\ InOpening(f)' <=> InOpening(f)
      /\ \A e : Open(e)' <=> Open(e)
  BY DEF In, InOpening, Open
<1>2. CallInv(f)'
  BY <1>1 DEF CallInv
<1>3. ChildInv(f)'
  BY <1>1 DEF ChildInv, HasFilter
<1>4. ParentEnds(f)' /\ ChildEnds(f)'
  BY <1>1 DEF ParentEnds, ChildEnds, Without, WEnd, HasFilter
<1>5. JoinInv(f)'
  BY <1>1 DEF JoinInv, Waited
<1> QED
  BY <1>1, <1>2, <1>3, <1>4, <1>5

(* The counts of one filter are natural numbers.                           *)
LEMMA Blocks ==
  ASSUME NEW f \in Fdfs, Own(f)
  PROVE  /\ pipe \in [Fdfs -> [1..2 -> Nat]]
         /\ pipe[f][1] \in Nat /\ pipe[f][2] \in Nat
         /\ left \in [Fdfs -> Nat] /\ held \in [Fdfs -> Nat]
         /\ left[f] \in Nat /\ held[f] \in Nat /\ got[f] \in Nat
<1>1. pipe \in [Fdfs -> [1..2 -> Nat]] /\ pipe[f] \in [1..2 -> Nat]
  BY DEF Own, TypeOK, DataType
<1>2. pipe[f][1] \in Nat /\ pipe[f][2] \in Nat
  BY <1>1
<1> QED
  BY <1>1, <1>2 DEF Own, TypeOK, DataType

(* An end that a child has open.                                           *)
LEMMA ChildHas ==
  ASSUME NEW f \in Fdfs, Own(f)
  PROVE  /\ proc[Prv(f)] \in Alive => Open(WEnd(f))
         /\ proc[Flt(f)] \in Alive => Open(<<f, "w2">>)
  BY Domains DEF Own, TypeOK, ProcType, Inv, ChildEnds, Open

(* The provider copies a block.                                            *)
LEMMA ProviderCopied ==
  ASSUME NEW f \in Fdfs, Own(f), ProviderCopies(f)
  PROVE  Inv(f)'
<1>1. /\ MoveRest(f) /\ UNCHANGED <<held, got>> /\ proc[Prv(f)] = "run" /\ left[f] > 0
      /\ left' = [left EXCEPT ![f] = @ - 1]
      /\ pipe' = [pipe EXCEPT ![f][Out(f)] = @ + 1]
  BY DEF ProviderCopies, MoveRest, Prv
<1>2. /\ left'[f] = left[f] - 1
      /\ HasFilter(f) => pipe'[f][1] = pipe[f][1] + 1 /\ pipe'[f][2] = pipe[f][2]
      /\ ~HasFilter(f) => pipe'[f][2] = pipe[f][2] + 1 /\ pipe'[f][1] = pipe[f][1]
  BY <1>1, Blocks DEF Out
<1>3. /\ HasFilter(f) => Open(<<f, "w1">>)
      /\ ~HasFilter(f) => Open(<<f, "w2">>)
  BY <1>1, ChildHas DEF Alive, WEnd
<1>4. Conserved(f)'
  <2>1. Conserved(f) /\ held' = held /\ got' = got /\ input' = input
    BY <1>1 DEF Own, Inv, MoveRest
  <2>2. left'[f] + pipe'[f][1] + pipe'[f][2] = left[f] + pipe[f][1] + pipe[f][2]
    <3> DEFINE l == left[f]  l2 == left'[f]  p1 == pipe[f][1]  q1 == pipe'[f][1]
               p2 == pipe[f][2]  q2 == pipe'[f][2]
    <3>1. l \in Nat /\ p1 \in Nat /\ p2 \in Nat
      BY Blocks
    <3>2. l2 = l - 1 /\ ((q1 = p1 + 1 /\ q2 = p2) \/ (q2 = p2 + 1 /\ q1 = p1))
      BY <1>2
    <3> HIDE DEF l, l2, p1, p2, q1, q2
    <3>3. l2 + q1 + q2 = l + p1 + p2
      BY <3>1, <3>2
    <3> QED
      BY <3>3 DEF l, l2, p1, p2, q1, q2
  <2>3. left[f] + pipe[f][1] + held[f] + pipe[f][2] + got[f]
          = left'[f] + pipe'[f][1] + held[f] + pipe'[f][2] + got[f]
    <3>1. left'[f] \in Int /\ pipe'[f][1] \in Int /\ pipe'[f][2] \in Int
      BY <1>2, Blocks
    <3> QED
      BY <2>2, <3>1, Blocks
  <2>4. ~HasFilter(f) => pipe'[f][1] = pipe[f][1]
    BY <1>2
  <2> QED
    BY <2>1, <2>3, <2>4 DEF Conserved, HasFilter
<1>5. EofInv(f)'
  BY <1>1, <1>2, <1>3, MovesRest DEF Own, Inv, EofInv, MoveRest
<1>6. ExitInv(f)'
  <2>1. HasFilter(f) => ~WroteAll(f)
    BY <1>3 DEF WroteAll
  <2>2. ~HasFilter(f) => proc[Flt(f)] = "none"
    BY DEF Own, Inv, ChildInv
  <2> QED
    BY <1>1, <2>1, <2>2 DEF Own, Inv, ExitInv, MoveRest, In
<1>7. RcInv(f)'
  BY <1>1 DEF Own, Inv, RcInv, MoveRest
<1> QED
  BY <1>1, <1>4, <1>5, <1>6, <1>7, MovesRest DEF Inv

(* The filter reads or writes a block.                                     *)
LEMMA FilterMoves ==
  ASSUME NEW f \in Fdfs, Own(f), FilterReads(f) \/ FilterWrites(f)
  PROVE  Inv(f)'
<1>1. /\ MoveRest(f) /\ UNCHANGED <<left, got>> /\ proc[Flt(f)] = "run"
      /\ \/ /\ held[f] = 0 /\ pipe[f][1] > 0 /\ held' = [held EXCEPT ![f] = 1]
            /\ pipe' = [pipe EXCEPT ![f][1] = @ - 1]
         \/ /\ held[f] = 1 /\ held' = [held EXCEPT ![f] = 0]
            /\ pipe' = [pipe EXCEPT ![f][2] = @ + 1]
  BY DEF FilterReads, FilterWrites, MoveRest, Flt
<1>2. \/ /\ held[f] = 0 /\ pipe[f][1] > 0 /\ held'[f] = 1
         /\ pipe'[f][1] = pipe[f][1] - 1 /\ pipe'[f][2] = pipe[f][2]
      \/ /\ held[f] = 1 /\ held'[f] = 0
         /\ pipe'[f][2] = pipe[f][2] + 1 /\ pipe'[f][1] = pipe[f][1]
  BY <1>1, Blocks
<1>3. HasFilter(f) /\ Open(<<f, "w2">>)
  BY <1>1, ChildHas DEF Alive, Own, Inv, ChildInv
<1>4. Conserved(f)'
  <2>1. Conserved(f)
    BY DEF Own, Inv
  <2> QED
    BY <1>1, <1>2, <1>3, <2>1, Blocks DEF Conserved, MoveRest, HasFilter
<1>5. EofInv(f)'
  BY <1>1, <1>3, MovesRest DEF Own, Inv, EofInv, MoveRest
<1>6. ExitInv(f)'
  BY <1>1 DEF Own, Inv, ExitInv, MoveRest, In, ReadAll
<1>7. RcInv(f)'
  BY <1>1, <1>2, Blocks DEF Own, Inv, RcInv, MoveRest
<1> QED
  BY <1>1, <1>4, <1>5, <1>6, <1>7, MovesRest DEF Inv
-----------------------------------------------------------------------------
(* A step for a filter keeps what is said of it.                           *)
LEMMA OwnStepKeeps ==
  ASSUME NEW f \in Fdfs, Own(f), StepOf(f)
  PROVE  Inv(f)'
<1>1. CASE OpenPipes(f)
  BY <1>1, GivesUp, Opens
<1>2. CASE ForkFilter(f)
  BY <1>2, GivesUp, FilterForked
<1>3. CASE ForkProvider(f)
  BY <1>3, GivesUp, ProviderForked
<1>4. CASE (Poll \/ RoundEnd) /\ pc.f = f
  <2>1. CASE Poll
    <3>1. Polled \in {Prv(f), Flt(f)}
      BY <1>4, Zenon DEF Polled, Prv, Flt
    <3>2. PollOf(f, Polled)
      BY <1>4, <2>1 DEF PollOf
    <3> QED
      BY <3>1, <3>2, PollFails, PollGoesOn DEF Failed, Fine
  <2> QED
    BY <1>4, <2>1, RoundEnds
<1>5. CASE Provider(f)
  BY <1>5, ProviderStarts, ProviderCopied, ProviderEnds DEF Provider
<1>6. CASE Filter(f)
  BY <1>6, FilterStarts, FilterMoves, FilterEnded DEF Filter
<1> QED
  BY <1>1, <1>2, <1>3, <1>4, <1>5, <1>6, FirstRead, ReadStarts, ReadReturns, Closed, Deinited
     DEF StepOf

(* The invariant holds at first: nothing is open and nothing has run.      *)
LEMMA InitHolds ==
  ASSUME Init
  PROVE  IInv
<1>1. CallType
  BY AtRecord DEF Init, CallType, Stages
<1>2. ProcType
  BY DEF Init, ProcType, Statuses
<1>3. DataType
  <2>1. \A f \in Fdfs : input[f] \in Inputs
    BY DEF Init
  <2>2. \A f \in Fdfs : input[f].len \in Nat
    BY <2>1, InputsOK
  <2>3. [k \in 1..2 |-> 0] \in [1..2 -> Nat]
    OBVIOUS
  <2> QED
    BY <2>2, <2>3 DEF Init, DataType
<1>4. ASSUME NEW f \in Fdfs PROVE Inv(f)
  <2>1. /\ stage[f] = "new" /\ pc.at = "idle" /\ ~eof[f] /\ rc[f] = NotClosed
        /\ left[f] = input[f].len /\ held[f] = 0 /\ got[f] = 0
        /\ pipe[f][1] = 0 /\ pipe[f][2] = 0
    BY AtRecord DEF Init
  <2>2. proc[Prv(f)] = "none" /\ proc[Flt(f)] = "none" /\ fds[Parent] = {}
    BY Domains DEF Init
  <2>3. Without(f, {"file", "r1", "w1", "r2", "w2"})
    BY <2>2 DEF Without
  <2>4. input[f].len \in Nat
    BY InputsOK DEF Init
  <2>5. Conserved(f)
    BY <2>1, <2>4 DEF Conserved
  <2>6. CallInv(f) /\ ChildInv(f) /\ EofInv(f)
    BY <2>1, <2>2 DEF CallInv, ChildInv, EofInv, In, InOpening, Opening
  <2>7. ParentEnds(f) /\ ChildEnds(f)
    BY <2>1, <2>2, <2>3
       DEF ParentEnds, ChildEnds, In, InOpening, Opening, Alive
  <2>8. ExitInv(f) /\ JoinInv(f)
    BY <2>1, <2>2 DEF ExitInv, JoinInv, In
  <2>9. RcInv(f)
    BY <2>1 DEF RcInv, NotClosed
  <2> QED
    BY <2>5, <2>6, <2>7, <2>8, <2>9 DEF Inv
<1> QED
  BY <1>1, <1>2, <1>3, <1>4 DEF IInv, TypeOK

(* Every step keeps it.                                                    *)
LEMMA StepKeeps ==
  ASSUME IInv, [Next]_vars
  PROVE  IInv'
<1>1. TypeOK'
  BY CallTypeKept, ProcTypeKept, DataTypeKept DEF IInv, TypeOK
<1>2. CASE UNCHANGED vars
  <2>1. ASSUME NEW f \in Fdfs PROVE Same(f)
    BY <1>2 DEF vars, data, Same, SameCall, SameChildren, SameData, SameEnds, In, Open
  <2> QED
    BY <1>1, <2>1, SameInv DEF IInv
<1>3. CASE Next
  <2>1. PICK f \in Fdfs : StepOf(f)
    BY <1>3, NextIsOfOne DEF IInv, TypeOK
  <2>2. ASSUME NEW g \in Fdfs, g # f PROVE Inv(g)'
    BY <1>1, <2>1, <2>2, OthersKeep DEF IInv
  <2>3. Inv(f)'
    BY <1>1, <2>1, OwnStepKeeps DEF IInv, Own
  <2> QED
    BY <1>1, <2>2, <2>3 DEF IInv
<1> QED
  BY <1>2, <1>3
-----------------------------------------------------------------------------
(* The invariant holds in every state that can be reached.                 *)
THEOREM SpecIInv == Spec => []IInv
<1>1. Init => IInv
  BY InitHolds
<1>2. IInv /\ [Next]_vars => IInv'
  BY StepKeeps
<1> QED
  BY <1>1, <1>2, PTL DEF Spec

(* No call of fdf_open(), uls_open_istream(), fdf_close() or fdf_deinit()  *)
(* and no step of a child leaves the domains of the state: in particular no*)
(* count of blocks goes below zero.                                        *)
THEOREM Typing == Spec => []TypeOK
  BY SpecIInv, PTL DEF IInv

(* Having none of some ends, and the set of the ends one has of them.      *)
LEMMA NoneOf ==
  ASSUME NEW f, NEW names, Without(f, names)
  PROVE  fds[Parent] \cap Of(f, names) = {}
  BY DEF Without, Of

(* However fdf_open(), uls_open_istream() and fdf_close() end, whichever   *)
(* child fails and whatever the children of other filters have inherited,  *)
(* the parent keeps no end of a pipe of a filter that failed or was closed,*)
(* and has waited for every child when fdf_deinit() is over.               *)
LEMMA NothingIsLeft ==
  ASSUME IInv
  PROVE  NothingLeft
<1> SUFFICES ASSUME NEW f \in Fdfs
             PROVE  /\ stage[f] = "failed" =>
                         fds[Parent] \cap Of(f, {"file", "r1", "w1", "r2", "w2"}) = {}
                    /\ stage[f] \in {"closed", "done"} =>
                         fds[Parent] \cap Of(f, {"r1", "w1", "r2", "w2"}) = {}
                    /\ stage[f] = "done" /\ pc = Idle =>
                         \A who \in {"provider", "filter"} :
                            proc[<<f, who>>] \in {"none", "reaped"}
  BY DEF NothingLeft
<1>1. ParentEnds(f) /\ JoinInv(f)
  BY DEF IInv, Inv
<1>2. ASSUME stage[f] = "done", pc = Idle, NEW who \in {"provider", "filter"}
      PROVE  proc[<<f, who>>] \in {"none", "reaped"}
  <2>1. ~In("join", f)
    BY <1>2, AtRecord DEF In
  <2>2. Waited(Prv(f)) /\ Waited(Flt(f))
    BY <1>1, <1>2, <2>1 DEF JoinInv
  <2> QED
    BY <1>2, <2>2 DEF Waited, Prv, Flt
<1> QED
  BY <1>1, <1>2, NoneOf DEF ParentEnds

(* A fdf_close() that returned 0 after EOF: every block was read.          *)
LEMMA FailuresAreTold ==
  ASSUME IInv
  PROVE  Told
<1> SUFFICES ASSUME NEW f \in Fdfs, eof[f], rc[f] = 0
             PROVE  got[f] = input[f].len /\ ~input[f].fails
  BY DEF Told
<1>1. Conserved(f) /\ EofInv(f) /\ RcInv(f)
  BY DEF IInv, Inv
<1>2. /\ pipe[f][2] = 0 /\ left[f] = 0 /\ held[f] = 0 /\ pipe[f][1] = 0
      /\ ~input[f].fails
  BY <1>1 DEF EofInv, RcInv, ReadAll
<1>3. got[f] \in Nat
  BY DEF IInv, TypeOK, DataType
<1>4. input[f].len = 0 + 0 + 0 + 0 + got[f]
  BY <1>1, <1>2 DEF Conserved
<1> QED
  BY <1>2, <1>3, <1>4

(* A filter ends with nothing of it left in the parent, and its failures   *)
(* are told, for any number of filters open side by side.                  *)
THEOREM FilterEndsHolds == Spec => []FilterEnds
<1>1. IInv => FilterEnds
  BY NothingIsLeft, FailuresAreTold DEF FilterEnds
<1> QED
  BY <1>1, SpecIInv, PTL
=============================================================================
