-------------------------- MODULE Printing_proofs --------------------------
(* What TLAPS proves about Printing, for any number of threads, any programs *)
(* that are orderly and any ports: texts of threads reach the port they were *)
(* meant for, and the messages of one context are whole (MessagesArrive).    *)
EXTENDS Printing, SequenceTheorems, TLAPS

(* -------- what threads are doing -------- *)

\* The calls that programs make.
Called == UNION {Range(program[t]) : program \in Programs, t \in Threads}

SO == Streams \cup Others
Ways == {"err_log", "uls_log", "sysprn", "printf", "fprintf", "snprintf"}
Changes == {"change_err", "change_log"}

\* A thread is about a message, and has the lock its texts need.
Speaking(a) == a.pc \in {"lock_err", "lock_log_lf", "rounds", "printed"}
Writing(a) == a.pc \in {"rounds", "printed"}
Logging(a) == a.pc \in {"lock_log_lf", "rounds", "printed"}

IsMessage(a) ==
  /\ Speaking(a)
  /\ a = [pc |-> a.pc, way |-> a.way, port |-> a.port, puts |-> a.puts, call |-> a.call,
          left |-> a.left, fr |-> a.fr, said |-> a.said, ok |-> a.ok, changes |-> a.changes, kept |-> a.kept]
  /\ a.way \in Ways /\ a.left \in Nat /\ a.changes \in Int
  /\ a.pc = "lock_err" => a.way = "err_log"
  /\ a.pc = "lock_log_lf" => a.way = "uls_log"
IsChange(a) == a.pc \in Changes /\ a = [pc |-> a.pc, puts |-> a.puts]
IsWaiting(a) ==
  a.pc = "lock_sysprn" /\ a = [pc |-> "lock_sysprn", call |-> a.call] /\ a.call \in Called /\ a.call.op = "sysprn_open"
Doing(a) == a = Idle \/ IsMessage(a) \/ IsChange(a) \/ IsWaiting(a)

Typed ==
  /\ todo \in [Threads -> Seq(Called)]
  /\ act = [t \in Threads |-> act[t]] /\ \A t \in Threads : Doing(act[t])
  /\ holder \in [Locks -> Threads \cup {Nil}]
  /\ syserr = [fp |-> syserr.fp, puts |-> syserr.puts, changes |-> syserr.changes,
               crossed |-> syserr.crossed]
  /\ syserr.changes \in Nat /\ syserr.crossed \in BOOLEAN
  /\ log = [port |-> log.port, puts |-> log.puts, lf |-> log.lf, crossed |-> log.crossed]
  /\ log.crossed \in BOOLEAN
  /\ sysprn = [opened |-> sysprn.opened, xdat |-> sysprn.xdat, tab |-> sysprn.tab,
               puts |-> sysprn.puts]
  /\ sysprn.opened \in BOOLEAN

(* -------- locks -------- *)

Holds(t, l) ==
  \/ l = "lf_syserr" /\ Writing(act[t]) /\ act[t].way = "err_log"
  \/ l = "log" /\ Logging(act[t]) /\ act[t].way = "uls_log"
  \/ l = "log_lf" /\ Writing(act[t]) /\ act[t].way = "uls_log"
  \/ l = "sysprn_lf" /\ act[t].pc # "lock_sysprn" /\ Inside(todo[t], 1)
  \/ l = "file_lf" /\ Writing(act[t]) /\ act[t].way \in {"printf", "fprintf"}
  \/ l = "str_lf" /\ Writing(act[t]) /\ act[t].way = "snprintf"
Locking ==
  /\ \A t \in Threads, l \in Locks : holder[l] = t <=> Holds(t, l)
  /\ \A t \in Threads : InSections(todo[t])
  /\ \A t \in Threads : act[t].pc = "lock_sysprn" => Inside(todo[t], 1)
  /\ \A t \in Threads : Speaking(act[t]) /\ act[t].way = "sysprn" => Inside(todo[t], 1)
  /\ sysprn.opened <=> holder["sysprn_lf"] # Nil

(* -------- the texts at a port -------- *)

SameMessage(g, h) == g.by = h.by /\ g.left = h.left
SameContext(g, h) == LockOf(g.way) = LockOf(h.way)
Current(g) == Speaking(act[g.by]) /\ act[g.by].left = g.left
IsPiece(g) == g = [by |-> g.by, left |-> g.left, way |-> g.way, text |-> g.text]
              /\ g.by \in Threads /\ g.left \in Nat
IsSequence(s) == Len(s) \in Nat /\ s = [i \in 1 .. Len(s) |-> s[i]]
IsPort(q) == /\ q = [got |-> q.got, open |-> q.open, room |-> q.room]
             /\ IsSequence(q.got)
             /\ \A i \in DOMAIN q.got : IsPiece(q.got[i])
Gone(g) ==
  /\ g.left > Len(todo[g.by])
  /\ Current(g) => act[g.by].pc # "lock_err" /\ act[g.by].way = g.way
Apart(g, h) == SameContext(g, h) /\ ~SameMessage(g, h) => ~Current(g)
Between(g, h, k) == SameMessage(g, k) /\ SameContext(g, h) => SameMessage(g, h)
TextsAt(p) ==
  LET got == port[p].got IN
  /\ \A i \in DOMAIN got : Gone(got[i])
  /\ \A i, j \in DOMAIN got : i < j => Apart(got[i], got[j])
  /\ \A i, j, k \in DOMAIN got : i < j /\ j < k => Between(got[i], got[j], got[k])
Texts ==
  /\ port = [p \in Ports |-> port[p]] /\ \A p \in Ports : IsPort(port[p])
  /\ \A t \in Threads : Speaking(act[t]) => act[t].left > Len(todo[t])
  /\ \A p \in SO : TextsAt(p)

(* -------- ports that are open -------- *)

InHand(t) ==
  IF Speaking(act[t]) /\ act[t].way \in {"printf", "fprintf"} THEN {act[t].port}
  ELSE IF act[t].pc = "lock_sysprn" THEN {act[t].call.port} ELSE {}
Open ==
  /\ ClosedLast(todo)
  /\ \A p \in SO \cap {syserr.fp, log.port, sysprn.xdat} : port[p].open
  /\ \A t \in Threads : \A p \in SO \cap InHand(t) : port[p].open
  /\ \A t \in Threads : \A k \in DOMAIN todo[t] :
       todo[t][k].op \in Naming /\ todo[t][k].port \in SO => port[todo[t][k].port].open
  /\ \A t, u \in Threads : \A i \in DOMAIN todo[t] :
       todo[t][i].op = "close" /\ todo[t][i].port \in InHand(u) => t = u

(* -------- where the puts lead -------- *)

\* A message of err_log() that began when the port had its last change, and
\* none was being made; it looks at the puts again when it has the lock.
ErrAimed(a) ==
  Speaking(a) =>
    /\ a.changes <= syserr.changes
    /\ (~syserr.crossed /\ a.way = "err_log" /\ a.changes = syserr.changes) =>
         /\ ~Changing("change_err") /\ a.port = syserr.fp /\ Suits(a.kept, syserr.fp)
         /\ Writing(a) => Suits(a.puts, syserr.fp)
ErrAim ==
  /\ \A t \in Threads : ErrAimed(act[t])
  /\ ~syserr.crossed =>
       /\ \A t, u \in Threads : act[t].pc = "change_err" /\ act[u].pc = "change_err" => t = u
       /\ \A t \in Threads : act[t].pc = "change_err" => Suits(act[t].puts, syserr.fp)
       /\ ~Changing("change_err") => Suits(syserr.puts, syserr.fp)
LogAimed(a) ==
  (Speaking(a) /\ a.way = "uls_log") => a.port = log.port /\ (Writing(a) => a.puts = log.lf)
LogAim ==
  /\ Suits(log.puts, log.port)
  /\ \A t \in Threads : LogAimed(act[t])
  /\ ~log.crossed =>
       /\ \A t, u \in Threads : act[t].pc = "change_log" /\ act[u].pc = "change_log" => t = u
       /\ \A t \in Threads : act[t].pc = "change_log" => act[t].puts = log.puts
       /\ ~Changing("change_log") => log.lf = log.puts
SysAimed(a) == (Speaking(a) /\ a.way = "sysprn") => a.port = sysprn.xdat /\ a.puts = sysprn.puts
SysAim == Suits(sysprn.puts, sysprn.xdat) /\ \A t \in Threads : SysAimed(act[t])
OfPrintf(a) == Speaking(a) /\ a.way = "printf"
FileAimed(a) ==
  /\ OfPrintf(a) => a.port \in Streams /\ a.puts = "puts_cons" /\ a.kept = "puts_file"
  /\ (Speaking(a) /\ a.way = "fprintf") => a.port \in Streams /\ a.puts = "puts_file"
FileAim ==
  /\ \A t \in Threads : FileAimed(act[t])
  /\ (\A t \in Threads : ~OfPrintf(act[t])) => filelf = "puts_file"
StrAimed(t, a) == (Speaking(a) /\ a.way = "snprintf") => a.port = t /\ a.puts = "puts_str"
StrAim == \A t \in Threads : StrAimed(t, act[t])
Aims == ErrAim /\ LogAim /\ SysAim /\ FileAim /\ StrAim

IInv == Typed /\ Locking /\ Texts /\ Open /\ Aims /\ StrayHasCause

-----------------------------------------------------------------------------
(* -------- programs -------- *)

\* What the assumption on programs says of a call.
LEMMA Orderly == ASSUME NEW c \in Called PROVE OrderlyCall(c)
  <1>1. PICK program \in Programs, t \in Threads : c \in Range(program[t]) BY DEF Called
  <1> QED BY <1>1, ProgramsAreOrderly

\* The calls that are left when the first d are made or skipped.
After(s, d) == SubSeq(s, d + 1, Len(s))

LEMMA AfterIs ==
  ASSUME NEW S, NEW s \in Seq(S), NEW d \in 0 .. Len(s)
  PROVE /\ After(s, d) \in Seq(S) /\ Len(After(s, d)) = Len(s) - d
        /\ DOMAIN After(s, d) = 1 .. Len(s) - d
        /\ \A k \in 1 .. Len(s) - d : After(s, d)[k] = s[k + d]
  <1> DEFINE r == After(s, d)
  <1>1. Len(s) \in Nat /\ s \in [1 .. Len(s) -> S] /\ d \in Int /\ d + 1 \in Int BY LenProperties
  <1>2. \A i \in d + 1 .. Len(s) : s[i] \in S BY <1>1
  <1>3. /\ r \in Seq(S)
        /\ Len(r) = IF d + 1 <= Len(s) THEN Len(s) - (d + 1) + 1 ELSE 0
        /\ \A k \in 1 .. Len(s) - (d + 1) + 1 : r[k] = s[d + 1 + k - 1]
    BY <1>1, <1>2, SubSeqProperties DEF After
  <1> HIDE DEF r
  <1>4. Len(r) = Len(s) - d
    <2>1. CASE d + 1 <= Len(s) BY <1>1, <1>3, <2>1
    <2>2. CASE ~(d + 1 <= Len(s))
      <3>0. Len(s) \in Int /\ d \in Int /\ d <= Len(s) BY <1>1
      <3>1. d = Len(s) BY <3>0, <2>2
      <3> QED BY <1>1, <1>3, <2>2, <3>1
    <2> QED BY <2>1, <2>2
  <1>5. \A k \in 1 .. Len(s) - d : r[k] = s[k + d]
    <2> SUFFICES ASSUME NEW k \in 1 .. Len(s) - d PROVE r[k] = s[k + d] OBVIOUS
    <2>1. k \in 1 .. Len(s) - (d + 1) + 1 /\ d + 1 + k - 1 = k + d BY <1>1
    <2> QED BY <1>3, <2>1
  <1>6. DOMAIN r = 1 .. Len(s) - d BY <1>3, <1>4, LenProperties
  <1> QED BY <1>3, <1>4, <1>5, <1>6 DEF r

LEMMA TailIsAfter ==
  ASSUME NEW S, NEW s \in Seq(S), s # <<>>
  PROVE /\ Tail(s) = After(s, 1) /\ 1 \in 0 .. Len(s) /\ Head(s) = s[1] /\ 1 \in DOMAIN s
        /\ Len(s) \in Nat /\ Len(Tail(s)) = Len(s) - 1
  <1>1. Len(s) \in Nat /\ Len(s) # 0 /\ DOMAIN s = 1 .. Len(s) BY EmptySeq, LenProperties
  <1>2. Tail(s) = After(s, 1) /\ Len(Tail(s)) = Len(s) - 1
    BY <1>1, TailIsSubSeq, HeadTailProperties DEF After
  <1> QED BY <1>1, <1>2

\* What is left of a program that is divided into sections is so, too.
LEMMA AfterInSections ==
  ASSUME NEW s \in Seq(Called), NEW d \in 0 .. Len(s)
  PROVE /\ \A k \in Nat : Inside(After(s, d), k + 1) <=> Inside(s, k + d + 1)
        /\ InSections(s) => InSections(After(s, d))
  <1> DEFINE r == After(s, d)
  <1>1. Len(s) \in Nat /\ d \in Nat /\ DOMAIN s = 1 .. Len(s) BY LenProperties
  <1>2. /\ Len(r) = Len(s) - d /\ DOMAIN r = 1 .. Len(s) - d
        /\ \A k \in 1 .. Len(s) - d : r[k] = s[k + d] BY <1>1, AfterIs
  <1> HIDE DEF r
  <1>3. ASSUME NEW k \in Nat, Inside(r, k + 1) PROVE Inside(s, k + d + 1)
    <2>1. PICK m \in k + 1 .. Len(r) :
            r[m].op = "sysprn_close" /\ \A j \in k + 1 .. m - 1 : r[j].op # "sysprn_open"
      BY <1>3 DEF Inside
    <2>2. m + d \in k + d + 1 .. Len(s) /\ s[m + d].op = "sysprn_close" BY <1>1, <1>2, <2>1
    <2>3. ASSUME NEW j \in k + d + 1 .. m + d - 1 PROVE s[j].op # "sysprn_open"
      <3>1. j - d \in k + 1 .. m - 1 /\ j - d \in 1 .. Len(s) - d /\ j - d + d = j BY <1>1, <1>2, <2>1
      <3> QED BY <1>2, <2>1, <3>1
    <2> DEFINE n == m + d  from == k + d + 1
    <2>4. /\ n \in from .. Len(s) /\ s[n].op = "sysprn_close"
          /\ \A j \in from .. n - 1 : s[j].op # "sysprn_open" BY <2>2, <2>3
    <2> HIDE DEF n, from
    <2>5. Inside(s, from) BY <2>4 DEF Inside
    <2> QED BY <2>5 DEF from
  <1>4. ASSUME NEW k \in Nat, Inside(s, k + d + 1) PROVE Inside(r, k + 1)
    <2>1. PICK m \in k + d + 1 .. Len(s) :
            s[m].op = "sysprn_close" /\ \A j \in k + d + 1 .. m - 1 : s[j].op # "sysprn_open"
      BY <1>4 DEF Inside
    <2>2. m - d \in k + 1 .. Len(r) /\ m - d \in 1 .. Len(s) - d /\ m - d + d = m BY <1>1, <1>2, <2>1
    <2>3. r[m - d].op = "sysprn_close" BY <1>2, <2>1, <2>2
    <2>4. ASSUME NEW j \in k + 1 .. m - d - 1 PROVE r[j].op # "sysprn_open"
      <3>1. j + d \in k + d + 1 .. m - 1 /\ j \in 1 .. Len(s) - d BY <1>1, <1>2, <2>1
      <3> QED BY <1>2, <2>1, <3>1
    <2> QED BY <2>2, <2>3, <2>4 DEF Inside
  <1>5. \A k \in Nat : Inside(r, k + 1) <=> Inside(s, k + d + 1) BY <1>3, <1>4
  <1>6. ASSUME InSections(s), NEW k \in DOMAIN r
        PROVE /\ r[k].op = "sysprn" => Inside(r, k)
              /\ r[k].op = "sysprn_open" => Inside(r, k + 1)
              /\ r[k].op = "sysprn_close" => ~Inside(r, k + 1)
    <2>1. k + d \in DOMAIN s /\ r[k] = s[k + d] /\ k \in Nat /\ k - 1 \in Nat BY <1>1, <1>2
    <2>2. Inside(r, k) <=> Inside(s, k + d)
      <3>1. Inside(r, k - 1 + 1) <=> Inside(s, k - 1 + d + 1) BY <1>5, <2>1
      <3>2. k - 1 + 1 = k /\ k - 1 + d + 1 = k + d BY <1>1, <2>1
      <3> QED BY <3>1, <3>2
    <2>3. Inside(r, k + 1) <=> Inside(s, k + d + 1) BY <1>5, <2>1
    <2>4. /\ s[k + d].op = "sysprn" => Inside(s, k + d)
          /\ s[k + d].op = "sysprn_open" => Inside(s, k + d + 1)
          /\ s[k + d].op = "sysprn_close" => ~Inside(s, k + d + 1)
      BY <1>6, <2>1 DEF InSections
    <2> QED BY <2>1, <2>2, <2>3, <2>4
  <1> QED BY <1>5, <1>6 DEF InSections, r

\* The call at hand moves between sections only if it opens or closes one.
LEMMA HeadAndSections ==
  ASSUME NEW s \in Seq(Called), s # <<>>, InSections(s)
  PROVE /\ Tail(s) \in Seq(Called) /\ InSections(Tail(s))
        /\ Head(s).op = "sysprn" => Inside(s, 1)
        /\ Head(s).op = "sysprn_open" => ~Inside(s, 1) /\ Inside(Tail(s), 1)
        /\ Head(s).op = "sysprn_close" => Inside(s, 1) /\ ~Inside(Tail(s), 1)
        /\ Head(s).op \notin {"sysprn_open", "sysprn_close"} => (Inside(s, 1) <=> Inside(Tail(s), 1))
  <1>1. /\ Tail(s) = After(s, 1) /\ 1 \in 0 .. Len(s) /\ Head(s) = s[1] /\ 1 \in DOMAIN s
        /\ Len(s) \in Nat BY TailIsAfter
  <1>2. After(s, 1) \in Seq(Called) BY <1>1, AfterIs
  <1>3. /\ Inside(After(s, 1), 0 + 1) <=> Inside(s, 0 + 1 + 1)
        /\ InSections(After(s, 1))
    <2>1. /\ \A k \in Nat : Inside(After(s, 1), k + 1) <=> Inside(s, k + 1 + 1)
          /\ InSections(After(s, 1)) BY <1>1, AfterInSections
    <2>2. 0 \in Nat OBVIOUS
    <2> QED BY <2>1, <2>2
  <1>4. Inside(Tail(s), 1) <=> Inside(s, 2)
    <2>1. 0 + 1 = 1 /\ 0 + 1 + 1 = 2 OBVIOUS
    <2> QED BY <1>1, <1>3, <2>1
  <1>5. /\ s[1].op = "sysprn" => Inside(s, 1)
        /\ s[1].op = "sysprn_open" => Inside(s, 2)
        /\ s[1].op = "sysprn_close" => ~Inside(s, 2)
    <2>1. /\ s[1].op = "sysprn" => Inside(s, 1)
          /\ s[1].op = "sysprn_open" => Inside(s, 1 + 1)
          /\ s[1].op = "sysprn_close" => ~Inside(s, 1 + 1)
      BY <1>1 DEF InSections
    <2> QED BY <2>1
  <1>6. s[1].op = "sysprn_open" => ~Inside(s, 1)
    <2> SUFFICES ASSUME s[1].op = "sysprn_open", Inside(s, 1) PROVE FALSE OBVIOUS
    <2>1. PICK m \in 1 .. Len(s) :
            s[m].op = "sysprn_close" /\ \A j \in 1 .. m - 1 : s[j].op # "sysprn_open"
      BY DEF Inside
    <2>2. m # 1 BY <2>1
    <2>3. 1 \in 1 .. m - 1 BY <1>1, <2>1, <2>2
    <2> QED BY <2>1, <2>3
  <1>7. s[1].op = "sysprn_close" => Inside(s, 1)
    <2>1. 1 \in 1 .. Len(s) BY <1>1
    <2>2. \A j \in 1 .. 1 - 1 : s[j].op # "sysprn_open" OBVIOUS
    <2> QED BY <2>1, <2>2 DEF Inside
  <1>8. ASSUME s[1].op \notin {"sysprn_open", "sysprn_close"}, Inside(s, 1) PROVE Inside(s, 2)
    <2>1. PICK m \in 1 .. Len(s) :
            s[m].op = "sysprn_close" /\ \A j \in 1 .. m - 1 : s[j].op # "sysprn_open"
      BY <1>8 DEF Inside
    <2>2. m # 1 BY <1>8, <2>1
    <2>3. m \in 2 .. Len(s) /\ \A j \in 2 .. m - 1 : s[j].op # "sysprn_open" BY <1>1, <2>1, <2>2
    <2> QED BY <2>1, <2>3 DEF Inside
  <1>9. ASSUME s[1].op \notin {"sysprn_open", "sysprn_close"}, Inside(s, 2) PROVE Inside(s, 1)
    <2>1. PICK m \in 2 .. Len(s) :
            s[m].op = "sysprn_close" /\ \A j \in 2 .. m - 1 : s[j].op # "sysprn_open"
      BY <1>9 DEF Inside
    <2>2. \A j \in 1 .. m - 1 : j = 1 \/ j \in 2 .. m - 1 BY <2>1
    <2>3. m \in 1 .. Len(s) /\ \A j \in 1 .. m - 1 : s[j].op # "sysprn_open" BY <1>1, <1>9, <2>1, <2>2
    <2> QED BY <2>1, <2>3 DEF Inside
  <1> QED BY <1>1, <1>2, <1>3, <1>4, <1>5, <1>6, <1>7, <1>8, <1>9

-----------------------------------------------------------------------------
(* -------- one thread's step -------- *)

\* A thread does something else, the others what they did.
LEMMA ActsOf ==
  ASSUME Typed, NEW t \in Threads, NEW a, Doing(a), act' = [act EXCEPT ![t] = a]
  PROVE /\ act' = [u \in Threads |-> act'[u]] /\ \A u \in Threads : Doing(act'[u])
        /\ act'[t] = a /\ \A u \in Threads : u # t => act'[u] = act[u]
  <1>1. act = [u \in Threads |-> act[u]] /\ \A u \in Threads : Doing(act[u]) BY DEF Typed
  <1>2. act' = [u \in Threads |-> IF u = t THEN a ELSE act[u]] BY <1>1
  <1>3. act'[t] = a /\ \A u \in Threads : u # t => act'[u] = act[u] BY <1>2
  <1>4. act' = [u \in Threads |-> act'[u]] BY <1>2
  <1>5. \A u \in Threads : Doing(act'[u])
    <2> SUFFICES ASSUME NEW u \in Threads PROVE Doing(act'[u]) OBVIOUS
    <2>1. CASE u = t BY <1>3, <2>1
    <2>2. CASE u # t BY <1>1, <1>3, <2>2
    <2> QED BY <2>1, <2>2
  <1> QED BY <1>3, <1>4, <1>5

LEMMA TodoOf ==
  ASSUME Typed, NEW t \in Threads, NEW s \in Seq(Called), todo' = [todo EXCEPT ![t] = s]
  PROVE /\ todo' \in [Threads -> Seq(Called)] /\ todo'[t] = s
        /\ \A u \in Threads : u # t => todo'[u] = todo[u]
  <1>1. todo \in [Threads -> Seq(Called)] BY DEF Typed
  <1> QED BY <1>1

\* The start of a call: t was idle, and makes the first call of its program.
Begins(t) ==
  /\ act[t] = Idle /\ todo[t] # <<>>
  /\ todo' = [todo EXCEPT ![t] = Tail(@)]

LEMMA CallBegins ==
  ASSUME Typed, NEW t \in Threads, NEW op, Calls(t, op), Begun(t)
  PROVE /\ Begins(t) /\ todo' \in [Threads -> Seq(Called)]
        /\ todo[t] \in Seq(Called) /\ todo[t] # <<>> /\ Head(todo[t]) \in Called
        /\ Head(todo[t]).op = op /\ todo'[t] = Tail(todo[t])
        /\ \A u \in Threads : u # t => todo'[u] = todo[u]
        /\ Len(todo[t]) \in Nat /\ Len(todo'[t]) = Len(todo[t]) - 1
  <1>1. todo[t] \in Seq(Called) /\ todo[t] # <<>> /\ Head(todo[t]).op = op /\ act[t].pc = "idle"
    BY DEF Typed, Calls
  <1>2. act[t] = Idle
    <2>1. Doing(act[t]) BY DEF Typed
    <2> QED BY <1>1, <2>1 DEF Doing, IsMessage, IsChange, IsWaiting, Speaking, Changes
  <1>3. Tail(todo[t]) \in Seq(Called) /\ Head(todo[t]) \in Called /\ Len(todo[t]) \in Nat
        /\ Len(Tail(todo[t])) = Len(todo[t]) - 1
    BY <1>1, HeadTailProperties, LenProperties
  <1>4. todo' = [todo EXCEPT ![t] = Tail(todo[t])] BY DEF Begun
  <1>5. /\ todo' \in [Threads -> Seq(Called)] /\ todo'[t] = Tail(todo[t])
        /\ \A u \in Threads : u # t => todo'[u] = todo[u] BY <1>3, <1>4, TodoOf
  <1> QED BY <1>1, <1>2, <1>3, <1>4, <1>5 DEF Begins

\* A new message, and the same message, further on.
Fresh(t, way, p, how, pc, said, kept) ==
  [pc |-> pc, way |-> way, port |-> p, puts |-> how, call |-> Head(todo[t]), left |-> Len(todo[t]),
   fr |-> [wrd |-> 1, at |-> 1, args |-> Head(todo[t]).args], said |-> said, ok |-> TRUE,
   changes |-> IF Changing("change_err") THEN -1 ELSE syserr.changes, kept |-> kept]
Later(b, pc, how, fr, said, ok) ==
  [pc |-> pc, way |-> b.way, port |-> b.port, puts |-> how, call |-> b.call, left |-> b.left,
   fr |-> fr, said |-> said, ok |-> ok, changes |-> b.changes, kept |-> b.kept]
MessageOf(a, t, way, pc, p, how, kept) ==
  /\ IsMessage(a) /\ a.pc = pc /\ a.way = way /\ a.port = p /\ a.puts = how /\ a.kept = kept
  /\ a.left = Len(todo[t])
  /\ a.changes = (IF Changing("change_err") THEN -1 ELSE syserr.changes)
  /\ a.changes <= syserr.changes

LEMMA MessageIs ==
  ASSUME Typed, NEW t \in Threads, todo[t] \in Seq(Called), NEW way \in Ways, NEW p, NEW how,
         NEW pc \in {"lock_err", "lock_log_lf", "rounds"}, NEW said, NEW kept,
         pc = "lock_err" => way = "err_log", pc = "lock_log_lf" => way = "uls_log"
  PROVE MessageOf(Fresh(t, way, p, how, pc, said, kept), t, way, pc, p, how, kept)
  <1> DEFINE a == Fresh(t, way, p, how, pc, said, kept)
             ch == IF Changing("change_err") THEN -1 ELSE syserr.changes
             f == [wrd |-> 1, at |-> 1, args |-> Head(todo[t]).args]
             n == Len(todo[t])  c == Head(todo[t])
  <1>1. n \in Nat BY LenProperties
  <1>2. syserr.changes \in Nat BY DEF Typed
  <1>3. ch \in Int /\ ch <= syserr.changes BY <1>2
  <1>4. a = [pc |-> pc, way |-> way, port |-> p, puts |-> how, call |-> c, left |-> n,
             fr |-> f, said |-> said, ok |-> TRUE, changes |-> ch, kept |-> kept]
    BY DEF Fresh
  <1> HIDE DEF a, ch, f, n, c
  <1>5. /\ a.pc = pc /\ a.way = way /\ a.port = p /\ a.puts = how /\ a.kept = kept
        /\ a.left = n /\ a.changes = ch BY <1>4
  <1>6. a = [pc |-> a.pc, way |-> a.way, port |-> a.port, puts |-> a.puts, call |-> a.call,
             left |-> a.left, fr |-> a.fr, said |-> a.said, ok |-> a.ok, changes |-> a.changes, kept |-> a.kept] BY <1>4
  <1>7. IsMessage(a) BY <1>1, <1>3, <1>5, <1>6 DEF IsMessage, Speaking
  <1>8. MessageOf(a, t, way, pc, p, how, kept) BY <1>3, <1>5, <1>7 DEF MessageOf, ch, n
  <1> QED BY <1>8 DEF a

LEMMA MessageGoesOn ==
  ASSUME NEW b, IsMessage(b), NEW a, NEW pc \in {"rounds", "printed"}, NEW how, NEW fr, NEW said, NEW ok,
         a = Later(b, pc, how, fr, said, ok)
  PROVE /\ IsMessage(a) /\ a.pc = pc /\ a.puts = how /\ a.way = b.way /\ a.port = b.port
        /\ a.kept = b.kept /\ a.left = b.left /\ a.changes = b.changes
  <1>3. /\ a.pc = pc /\ a.puts = how /\ a.way = b.way /\ a.port = b.port
        /\ a.kept = b.kept /\ a.left = b.left /\ a.changes = b.changes BY DEF Later
  <1>4. a = [pc |-> a.pc, way |-> a.way, port |-> a.port, puts |-> a.puts, call |-> a.call,
             left |-> a.left, fr |-> a.fr, said |-> a.said, ok |-> a.ok, changes |-> a.changes, kept |-> a.kept] BY DEF Later
  <1>5. b.way \in Ways /\ b.left \in Nat /\ b.changes \in Int BY DEF IsMessage
  <1> QED BY <1>3, <1>4, <1>5 DEF IsMessage, Speaking

\* What EXCEPT makes of a message.
LEMMA LaterIs ==
  ASSUME NEW b, IsMessage(b), NEW pc, NEW how
  PROVE [b EXCEPT !.pc = pc, !.puts = how] = Later(b, pc, how, b.fr, b.said, b.ok)
  <1> DEFINE fields == {"pc", "way", "port", "puts", "call", "left", "fr", "said", "ok", "changes", "kept"}
             c == [b EXCEPT !.pc = pc, !.puts = how]
  <1>1. b = [f \in fields |-> b[f]] BY DEF IsMessage
  <1>2. c = [f \in fields |-> IF f = "pc" THEN pc ELSE IF f = "puts" THEN how ELSE b[f]] BY <1>1
  <1> HIDE DEF c
  <1>3. c = Later(b, pc, how, b.fr, b.said, b.ok) BY <1>2 DEF Later
  <1> QED BY <1>3 DEF c

LEMMA KeepingIs ==
  ASSUME NEW t, NEW way, NEW p, NEW how, NEW pc, NEW kept
  PROVE [Message(t, way, p, how, pc) EXCEPT !.kept = kept] = Fresh(t, way, p, how, pc, <<>>, kept)
  <1> DEFINE fields == {"pc", "way", "port", "puts", "call", "left", "fr", "said", "ok", "changes", "kept"}
             m == Message(t, way, p, how, pc)
             c == [m EXCEPT !.kept = kept]  h == Fresh(t, way, p, how, pc, <<>>, kept)
             ch == IF Changing("change_err") THEN -1 ELSE syserr.changes
             f == [wrd |-> 1, at |-> 1, args |-> Head(todo[t]).args]
             n == Len(todo[t])  d == Head(todo[t])  e == <<>>
  <1>1. m = [pc |-> pc, way |-> way, port |-> p, puts |-> how, call |-> d, left |-> n,
             fr |-> f, said |-> e, ok |-> TRUE, changes |-> ch, kept |-> Nil] BY DEF Message
  <1>2. h = [pc |-> pc, way |-> way, port |-> p, puts |-> how, call |-> d, left |-> n,
             fr |-> f, said |-> e, ok |-> TRUE, changes |-> ch, kept |-> kept] BY DEF Fresh
  <1> HIDE DEF m, h, ch, f, n, d, e
  <1>3. c = [x \in fields |-> IF x = "kept" THEN kept ELSE m[x]] BY <1>1
  <1>4. c = [pc |-> m.pc, way |-> m.way, port |-> m.port, puts |-> m.puts, call |-> m.call,
             left |-> m.left, fr |-> m.fr, said |-> m.said, ok |-> m.ok, changes |-> m.changes,
             kept |-> kept] BY <1>3
  <1> HIDE DEF c
  <1>5. /\ m.pc = pc /\ m.way = way /\ m.port = p /\ m.puts = how /\ m.call = d /\ m.left = n
        /\ m.fr = f /\ m.said = e /\ m.ok = TRUE /\ m.changes = ch /\ m.kept = Nil BY <1>1
  <1>6. c = h BY <1>2, <1>4, <1>5
  <1> QED BY <1>6 DEF c, m, h
LEMMA SayingIs ==
  ASSUME NEW t, NEW way, NEW p, NEW how, NEW pc, NEW said
  PROVE [Message(t, way, p, how, pc) EXCEPT !.said = said] = Fresh(t, way, p, how, pc, said, Nil)
  <1> DEFINE fields == {"pc", "way", "port", "puts", "call", "left", "fr", "said", "ok", "changes", "kept"}
             m == Message(t, way, p, how, pc)
             c == [m EXCEPT !.said = said]  h == Fresh(t, way, p, how, pc, said, Nil)
             ch == IF Changing("change_err") THEN -1 ELSE syserr.changes
             f == [wrd |-> 1, at |-> 1, args |-> Head(todo[t]).args]
             n == Len(todo[t])  d == Head(todo[t])  e == <<>>
  <1>1. m = [pc |-> pc, way |-> way, port |-> p, puts |-> how, call |-> d, left |-> n,
             fr |-> f, said |-> e, ok |-> TRUE, changes |-> ch, kept |-> Nil] BY DEF Message
  <1>2. h = [pc |-> pc, way |-> way, port |-> p, puts |-> how, call |-> d, left |-> n,
             fr |-> f, said |-> said, ok |-> TRUE, changes |-> ch, kept |-> Nil] BY DEF Fresh
  <1> HIDE DEF m, h, ch, f, n, d, e
  <1>3. c = [x \in fields |-> IF x = "said" THEN said ELSE m[x]] BY <1>1
  <1>4. c = [pc |-> m.pc, way |-> m.way, port |-> m.port, puts |-> m.puts, call |-> m.call,
             left |-> m.left, fr |-> m.fr, said |-> said, ok |-> m.ok, changes |-> m.changes,
             kept |-> m.kept] BY <1>3
  <1> HIDE DEF c
  <1>5. /\ m.pc = pc /\ m.way = way /\ m.port = p /\ m.puts = how /\ m.call = d /\ m.left = n
        /\ m.fr = f /\ m.said = e /\ m.ok = TRUE /\ m.changes = ch /\ m.kept = Nil BY <1>1
  <1>6. c = h BY <1>2, <1>4, <1>5
  <1> QED BY <1>6 DEF c, m, h
LEMMA FreshIs ==
  ASSUME NEW t, NEW way, NEW p, NEW how, NEW pc
  PROVE Message(t, way, p, how, pc) = Fresh(t, way, p, how, pc, <<>>, Nil)
  BY DEF Message, Fresh

\* Who is in this place is about a message.
LEMMA SpeakingIs ==
  ASSUME Typed, NEW t \in Threads, Speaking(act[t])
  PROVE IsMessage(act[t])
  <1>1. Doing(act[t]) BY DEF Typed
  <1>2. act[t] # Idle BY DEF Speaking, Idle
  <1> QED BY <1>1, <1>2 DEF Doing, IsChange, IsWaiting, Speaking, Changes

-----------------------------------------------------------------------------
(* -------- locks and texts, one step -------- *)

\* A thread takes some locks that are free and gives some of its own back.
LEMMA LockStep ==
  ASSUME Typed, Locking, NEW t \in Threads, NEW G \in SUBSET Locks, NEW R \in SUBSET Locks,
         \A u \in Threads : u # t => act'[u] = act[u] /\ todo'[u] = todo[u],
         holder' = [l \in Locks |-> IF l \in G THEN t ELSE IF l \in R THEN Nil ELSE holder[l]],
         \A l \in G : Free(t, l), \A l \in R : holder[l] = t,
         \A l \in Locks : Holds(t, l)' <=> (l \in G \/ (l \notin R /\ Holds(t, l)))
  PROVE /\ holder' \in [Locks -> Threads \cup {Nil}]
        /\ \A u \in Threads, l \in Locks : holder'[l] = u <=> Holds(u, l)'
  <1>1. holder \in [Locks -> Threads \cup {Nil}] BY DEF Typed
  <1>2. \A u \in Threads, l \in Locks : holder[l] = u <=> Holds(u, l) BY DEF Locking
  <1>3. Nil \notin Threads BY PrintingConstants DEF Nil
  <1>4. holder' \in [Locks -> Threads \cup {Nil}] BY <1>1
  <1>5. ASSUME NEW u \in Threads, NEW l \in Locks PROVE holder'[l] = u <=> Holds(u, l)'
    <2>1. holder'[l] = IF l \in G THEN t ELSE IF l \in R THEN Nil ELSE holder[l] OBVIOUS
    <2>2. holder[l] = u <=> Holds(u, l) BY <1>2
    <2>3. CASE u = t
      <3>1. Holds(t, l)' <=> (l \in G \/ (l \notin R /\ Holds(t, l))) OBVIOUS
      <3>2. holder'[l] = t <=> (l \in G \/ (l \notin R /\ holder[l] = t)) BY <1>3, <2>1
      <3> QED BY <2>2, <2>3, <3>1, <3>2
    <2>4. CASE u # t
      <3>1. Holds(u, l)' <=> Holds(u, l)
        <4>1. act'[u] = act[u] /\ todo'[u] = todo[u] BY <2>4
        <4> QED BY <4>1 DEF Holds, Writing, Logging
      <3>2. l \in G => holder[l] # u BY <1>3, <2>4 DEF Free
      <3>3. l \in R => holder[l] # u BY <2>4
      <3>4. holder'[l] = u <=> holder[l] = u BY <1>3, <2>1, <2>4, <3>2, <3>3
      <3> QED BY <2>2, <3>1, <3>4
    <2> QED BY <2>3, <2>4
  <1> QED BY <1>4, <1>5

\* Who writes the texts of a message has the lock of its context.
LEMMA WritersLock ==
  ASSUME Typed, Locking, NEW u \in Threads, Speaking(act[u]), act[u].pc # "lock_err"
  PROVE /\ LockOf(act[u].way) \in Locks /\ holder[LockOf(act[u].way)] = u
  <1>1. IsMessage(act[u]) BY SpeakingIs
  <1>2. act[u].way \in Ways /\ Logging(act[u]) BY <1>1 DEF IsMessage, Speaking, Logging
  <1>3. act[u].way # "uls_log" => Writing(act[u]) BY <1>1, <1>2 DEF IsMessage, Writing, Logging
  <1>4. act[u].way = "sysprn" => Inside(todo[u], 1) /\ act[u].pc # "lock_sysprn"
    BY DEF Locking, Speaking
  <1>5. Holds(u, LockOf(act[u].way)) /\ LockOf(act[u].way) \in Locks
    BY <1>2, <1>3, <1>4 DEF Holds, LockOf, Ways, Locks
  <1> QED BY <1>5 DEF Locking

\* So a thread that has this lock, or finds it free, writes alone.
LEMMA WritesAlone ==
  ASSUME Typed, Locking, NEW t \in Threads, NEW way, Free(t, LockOf(way))
  PROVE \A u \in Threads : (u # t /\ Speaking(act[u]) /\ LockOf(act[u].way) = LockOf(way))
                             => act[u].pc = "lock_err"
  <1> SUFFICES ASSUME NEW u \in Threads, u # t, Speaking(act[u]), LockOf(act[u].way) = LockOf(way),
                      act[u].pc # "lock_err"
               PROVE FALSE OBVIOUS
  <1>1. holder[LockOf(way)] = u BY WritersLock
  <1>2. Nil \notin Threads BY PrintingConstants DEF Nil
  <1> QED BY <1>1, <1>2 DEF Free

\* A text is stored behind the others.
Piece(t, left, way, text) == [by |-> t, left |-> left, way |-> way, text |-> text]
LEMMA AppendIs ==
  ASSUME NEW got, IsSequence(got), NEW m
  PROVE /\ Len(got) \in Nat /\ DOMAIN got = 1 .. Len(got)
        /\ IsSequence(Append(got, m)) /\ DOMAIN Append(got, m) = 1 .. Len(got) + 1
        /\ \A i \in 1 .. Len(got) : Append(got, m)[i] = got[i]
        /\ Append(got, m)[Len(got) + 1] = m
  <1> DEFINE S == {got[i] : i \in DOMAIN got} \cup {m}  h == Append(got, m)
  <1>1. Len(got) \in Nat /\ DOMAIN got = 1 .. Len(got) /\ got = [i \in 1 .. Len(got) |-> got[i]]
    BY DEF IsSequence
  <1>2. got \in Seq(S)
    <2>1. \A i \in 1 .. Len(got) : got[i] \in S BY <1>1
    <2> HIDE DEF S
    <2>2. got \in [1 .. Len(got) -> S] BY <1>1, <2>1
    <2> QED BY <1>1, <2>2, SeqDef
  <1>3. m \in S OBVIOUS
  <1> HIDE DEF S
  <1>4. /\ h \in Seq(S) /\ Len(h) = Len(got) + 1
        /\ \A i \in 1 .. Len(got) : h[i] = got[i]
    BY <1>2, <1>3, AppendProperties
  <1>5. h[Len(got) + 1] = m BY <1>2, <1>3, AppendProperties
  <1> HIDE DEF h
  <1>6. h \in [1 .. Len(got) + 1 -> S] BY <1>4, LenProperties
  <1>7. DOMAIN h = 1 .. Len(got) + 1 /\ h = [i \in 1 .. Len(got) + 1 |-> h[i]] BY <1>6
  <1>8. IsSequence(h) BY <1>1, <1>4, <1>7 DEF IsSequence
  <1> QED BY <1>1, <1>4, <1>5, <1>7, <1>8 DEF h

LEMMA Stores ==
  ASSUME Texts, NEW t \in Threads, NEW a, a.left \in Nat, NEW did, port' = Stored(t, a, did)
  PROVE /\ port' = [p \in Ports |-> port'[p]] /\ \A p \in Ports : IsPort(port'[p])
        /\ \A p \in Ports : port'[p].open = port[p].open
        /\ \A p \in Ports : \/ port'[p].got = port[p].got
                            \/ port'[p].got = Append(port[p].got, Piece(t, a.left, a.way, did))
  <1> DEFINE m == Piece(t, a.left, a.way, did)
  <1>1. port = [p \in Ports |-> port[p]] /\ \A p \in Ports : IsPort(port[p]) BY DEF Texts
  <1>2. CASE port' = port BY <1>1, <1>2
  <1>3. CASE port' # port
    <2> DEFINE r == Max({0, port[a.port].room - Len(did)})
    <2>1. port' = [port EXCEPT ![a.port].got = Append(@, m), ![a.port].room = r]
      BY <1>3 DEF Stored, Piece
    <2> HIDE DEF r, m
    <2>2. port' = [p \in Ports |-> IF p = a.port
                     THEN [[port[p] EXCEPT !.got = Append(@, m)] EXCEPT !.room = r] ELSE port[p]]
      BY <1>1, <2>1
    <2>3. a.port \in Ports BY <1>1, <1>3, <2>2
    <2>4. \A p \in Ports : p # a.port => port'[p] = port[p] BY <2>2
    <2> DEFINE q == port[a.port]  q1 == port'[a.port]
    <2>5. q1 = [[q EXCEPT !.got = Append(@, m)] EXCEPT !.room = r] BY <2>2, <2>3
    <2>6. IsPort(q) BY <1>1, <2>3
    <2> HIDE DEF q, q1
    <2>7. q = [got |-> q.got, open |-> q.open, room |-> q.room] BY <2>6 DEF IsPort
    <2>8. q1 = [got |-> Append(q.got, m), open |-> q.open, room |-> r] BY <2>5, <2>7
    <2>9. q1.got = Append(q.got, m) /\ q1.open = q.open /\ q1 = [got |-> q1.got, open |-> q1.open, room |-> q1.room]
      BY <2>8
    <2>10. IsPiece(m) BY DEF IsPiece, m, Piece
    <2>11. IsPort(q1)
      <3>1. IsSequence(q.got) /\ \A i \in DOMAIN q.got : IsPiece(q.got[i])
        BY <2>6 DEF IsPort
      <3> DEFINE g == q.got  h == q1.got
      <3>a. IsSequence(g) /\ \A i \in DOMAIN g : IsPiece(g[i]) BY <3>1
      <3>b. h = Append(g, m) BY <2>9
      <3> HIDE DEF g, h
      <3>2. /\ Len(g) \in Nat /\ DOMAIN g = 1 .. Len(g)
            /\ IsSequence(h)
            /\ DOMAIN h = 1 .. Len(g) + 1 /\ \A i \in 1 .. Len(g) : h[i] = g[i]
            /\ h[Len(g) + 1] = m
    <4>1. /\ Len(g) \in Nat /\ DOMAIN g = 1 .. Len(g)
          /\ IsSequence(Append(g, m))
          /\ DOMAIN Append(g, m) = 1 .. Len(g) + 1
          /\ \A i \in 1 .. Len(g) : Append(g, m)[i] = g[i]
          /\ Append(g, m)[Len(g) + 1] = m
      BY <3>a, AppendIs
    <4> QED BY <3>b, <4>1
      <3>4. ASSUME NEW i \in DOMAIN h PROVE IsPiece(h[i])
        <4>1. i \in 1 .. Len(g) \/ i = Len(g) + 1 BY <3>2
        <4> QED BY <2>10, <3>a, <3>2, <4>1
      <3> QED BY <2>9, <3>2, <3>4 DEF IsPort, h
    <2>12. \A p \in Ports : IsPort(port'[p]) BY <1>1, <2>4, <2>11 DEF q1
    <2>13. \A p \in Ports : port'[p].open = port[p].open BY <2>4, <2>9 DEF q, q1
    <2>14. \A p \in Ports : port'[p].got = port[p].got \/ port'[p].got = Append(port[p].got, m)
      BY <2>4, <2>9 DEF q, q1
    <2>15. port' = [p \in Ports |-> port'[p]] BY <2>2
    <2> QED BY <2>12, <2>13, <2>14, <2>15 DEF m
  <1> QED BY <1>2, <1>3

\* What a thread t does next, as far as texts go: it is about the message it was
\* about, or about one of the calls it had still to make, or about none.
Onward(t) ==
  /\ \A u \in Threads : u # t => act'[u] = act[u] /\ todo'[u] = todo[u]
  /\ Len(todo[t]) \in Nat /\ Len(todo'[t]) \in Nat /\ Len(todo'[t]) <= Len(todo[t])
  /\ Speaking(act'[t]) =>
       /\ act'[t].left > Len(todo'[t])
       /\ \/ /\ Speaking(act[t]) /\ act'[t].pc # "lock_err"
             /\ act'[t].left = act[t].left /\ act'[t].way = act[t].way
          \/ act'[t].left <= Len(todo[t])

LEMMA OldPieces ==
  ASSUME Typed, Texts, NEW t \in Threads, Onward(t), NEW p \in SO, NEW i \in DOMAIN port[p].got
  PROVE LET g == port[p].got[i] IN
        /\ g.by \in Threads /\ g.left \in Nat /\ g.left > Len(todo'[g.by])
        /\ (Speaking(act'[g.by]) /\ act'[g.by].left = g.left) =>
             act'[g.by].pc # "lock_err" /\ act'[g.by].way = g.way /\ Current(g)
  <1> DEFINE g == port[p].got[i]
  <1>1. IsPiece(g) /\ Gone(g)
    <2>1. p \in Ports BY DEF SO, Ports
    <2>2. IsPort(port[p]) /\ TextsAt(p) BY <2>1 DEF Texts
    <2> QED BY <2>2 DEF IsPort, TextsAt
  <1> HIDE DEF g
  <1>2. g.by \in Threads /\ g.left \in Nat /\ g.left > Len(todo[g.by])
        /\ (Current(g) => act[g.by].pc # "lock_err" /\ act[g.by].way = g.way)
    BY <1>1 DEF IsPiece, Gone
  <1>3. CASE g.by # t
    <2>1. act'[g.by] = act[g.by] /\ todo'[g.by] = todo[g.by] BY <1>2, <1>3 DEF Onward
    <2> QED BY <1>2, <2>1 DEF Current, g
  <1>4. CASE g.by = t
    <2>1. Len(todo[t]) \in Nat /\ Len(todo'[t]) \in Nat /\ Len(todo'[t]) <= Len(todo[t]) BY DEF Onward
    <2>2. g.left > Len(todo'[t]) BY <1>2, <1>4, <2>1
    <2>3. ASSUME Speaking(act'[t]), act'[t].left = g.left
          PROVE act'[t].pc # "lock_err" /\ act'[t].way = g.way /\ Current(g)
      <3>1. ~(act'[t].left <= Len(todo[t])) BY <1>2, <1>4, <2>1, <2>3
      <3>2. /\ Speaking(act[t]) /\ act'[t].pc # "lock_err"
            /\ act'[t].left = act[t].left /\ act'[t].way = act[t].way BY <2>3, <3>1 DEF Onward
      <3>3. Current(g) BY <1>4, <2>3, <3>2 DEF Current
      <3> QED BY <1>2, <1>4, <3>2, <3>3
    <2> QED BY <1>2, <1>4, <2>2, <2>3 DEF g
  <1> QED BY <1>3, <1>4

\* At a port where nothing is written.
LEMMA TextsStay ==
  ASSUME Typed, Texts, NEW t \in Threads, Onward(t), NEW p \in SO, port'[p].got = port[p].got
  PROVE TextsAt(p)'
  <1> DEFINE got == port[p].got
  <1>1. TextsAt(p) BY DEF Texts
  <1>2. \A i \in DOMAIN got : LET g == got[i] IN
          /\ g.by \in Threads /\ g.left \in Nat /\ g.left > Len(todo'[g.by])
          /\ (Speaking(act'[g.by]) /\ act'[g.by].left = g.left) =>
               act'[g.by].pc # "lock_err" /\ act'[g.by].way = g.way /\ Current(g)
    BY OldPieces
  <1>3. ASSUME NEW i \in DOMAIN port'[p].got PROVE Gone(port[p].got[i])'
    <2>1. port'[p].got[i] = got[i] /\ i \in DOMAIN got BY <1>3
    <2> HIDE DEF got
    <2> QED BY <1>2, <2>1 DEF Gone, Current
  <1>4. ASSUME NEW i \in DOMAIN port'[p].got, NEW j \in DOMAIN port'[p].got, i < j
        PROVE Apart(port[p].got[i], port[p].got[j])'
    <2>1. port'[p].got[i] = got[i] /\ i \in DOMAIN got /\ port'[p].got[j] = got[j] /\ j \in DOMAIN got
      BY <1>4
    <2>2. Apart(got[i], got[j]) BY <1>1, <1>4, <2>1 DEF TextsAt
    <2>3. (Speaking(act'[got[i].by]) /\ act'[got[i].by].left = got[i].left) => Current(got[i])
      BY <1>2, <2>1
    <2> HIDE DEF got
    <2> QED BY <2>1, <2>2, <2>3 DEF Apart, Current, SameContext, SameMessage
  <1>5. ASSUME NEW i \in DOMAIN port'[p].got, NEW j \in DOMAIN port'[p].got, NEW k \in DOMAIN port'[p].got,
               i < j, j < k
        PROVE Between(port[p].got[i], port[p].got[j], port[p].got[k])'
    <2>1. /\ port'[p].got[i] = got[i] /\ i \in DOMAIN got /\ port'[p].got[j] = got[j] /\ j \in DOMAIN got
          /\ port'[p].got[k] = got[k] /\ k \in DOMAIN got BY <1>5
    <2>2. Between(got[i], got[j], got[k]) BY <1>1, <1>5, <2>1 DEF TextsAt
    <2> HIDE DEF got
    <2> QED BY <2>1, <2>2 DEF Between, SameContext, SameMessage
  <1> QED BY <1>3, <1>4, <1>5 DEF TextsAt

\* Where t adds a text to its message, no other message of the same context is
\* under way.
Adds(t, left, way) ==
  /\ left \in Nat /\ left > Len(todo'[t])
  /\ \A u \in Threads : (u # t /\ Speaking(act[u]) /\ LockOf(act[u].way) = LockOf(way))
                          => act[u].pc = "lock_err"
  /\ \/ /\ Speaking(act[t]) /\ act[t].pc # "lock_err" /\ act[t].left = left /\ act[t].way = way
     \/ ~Speaking(act[t]) /\ left <= Len(todo[t])
  /\ Speaking(act'[t]) => act'[t].pc # "lock_err" /\ act'[t].left = left /\ act'[t].way = way

LEMMA TextsGrow ==
  ASSUME Typed, Texts, NEW t \in Threads, Onward(t), NEW p \in SO,
         NEW left, NEW way, NEW text, Adds(t, left, way),
         port'[p].got = Append(port[p].got, Piece(t, left, way, text))
  PROVE TextsAt(p)'
  <1> DEFINE got == port[p].got  h == port'[p].got  m == Piece(t, left, way, text)  n == Len(got)
  <1>1. TextsAt(p) /\ IsSequence(got)
    <2>1. p \in Ports BY DEF SO, Ports
    <2> QED BY <2>1 DEF Texts, IsPort
  <1>2. \A i \in DOMAIN got : LET g == got[i] IN
          /\ g.by \in Threads /\ g.left \in Nat /\ g.left > Len(todo'[g.by])
          /\ (Speaking(act'[g.by]) /\ act'[g.by].left = g.left) =>
               act'[g.by].pc # "lock_err" /\ act'[g.by].way = g.way /\ Current(g)
    BY OldPieces
  <1>3. /\ n \in Nat /\ DOMAIN got = 1 .. n /\ DOMAIN h = 1 .. n + 1
        /\ \A i \in 1 .. n : h[i] = got[i] /\ h[n + 1] = m
    <2>1. /\ Len(got) \in Nat /\ DOMAIN got = 1 .. Len(got)
          /\ DOMAIN Append(got, m) = 1 .. Len(got) + 1
          /\ \A i \in 1 .. Len(got) : Append(got, m)[i] = got[i]
          /\ Append(got, m)[Len(got) + 1] = m BY <1>1, AppendIs
    <2> QED BY <2>1
  <1>3a. h[n + 1] = m
    <2>1. Append(got, m)[Len(got) + 1] = m BY <1>1, AppendIs
    <2> QED BY <2>1
  <1>4. m.by = t /\ m.left = left /\ m.way = way BY DEF Piece
  <1> HIDE DEF m, n
  <1>5. ASSUME NEW i \in DOMAIN h PROVE i \in 1 .. n \/ i = n + 1 BY <1>3
  <1>6. \A i \in 1 .. n : i \in DOMAIN got /\ h[i] = got[i] BY <1>3
  \* the message of an old text that is under way has the way of that text
  <1>7. ASSUME NEW i \in 1 .. n, SameContext(got[i], m), ~SameMessage(got[i], m) PROVE ~Current(got[i])
    <2> SUFFICES ASSUME Current(got[i]) PROVE FALSE OBVIOUS
    <2> DEFINE g == got[i]
    <2>1. Gone(g) /\ g.by \in Threads /\ g.left \in Nat BY <1>1, <1>2, <1>6 DEF TextsAt
    <2>2. SameContext(g, m) /\ ~SameMessage(g, m) /\ Current(g) BY <1>7
    <2> HIDE DEF g
    <2>3. Speaking(act[g.by]) /\ act[g.by].pc # "lock_err" /\ act[g.by].way = g.way
          /\ act[g.by].left = g.left BY <2>1, <2>2 DEF Gone, Current
    <2>4. LockOf(act[g.by].way) = LockOf(way) BY <1>4, <2>2, <2>3 DEF SameContext
    <2>5. g.by = t BY <2>1, <2>3, <2>4 DEF Adds
    <2>6. g.left = left BY <2>3, <2>5 DEF Adds
    <2> QED BY <1>4, <2>2, <2>5, <2>6 DEF SameMessage
  <1>8. ASSUME NEW i \in 1 .. n, SameMessage(got[i], m) PROVE Current(got[i])
    <2> DEFINE g == got[i]
    <2>1. Gone(g) /\ g.by = t /\ g.left = left BY <1>1, <1>4, <1>6, <1>8 DEF TextsAt, SameMessage
    <2>2. Len(todo[t]) \in Nat /\ left \in Nat BY DEF Onward, Adds
    <2> HIDE DEF g
    <2>3. ~(left <= Len(todo[t])) BY <2>1, <2>2 DEF Gone
    <2>4. Current(g) BY <2>1, <2>3 DEF Adds, Current
    <2> QED BY <2>4 DEF g
  <1>9. ASSUME NEW i \in DOMAIN h PROVE Gone(port[p].got[i])'
    <2>1. CASE i \in 1 .. n
      <3>1. h[i] = got[i] /\ i \in DOMAIN got BY <1>6, <2>1
      <3> HIDE DEF got
      <3>2. Gone(port[p].got[i])' BY <1>2, <3>1 DEF Gone, Current
      <3> QED BY <3>2
    <2>2. CASE i = n + 1
      <3>1. h[i] = m BY <1>3a, <2>2
      <3>2. Gone(port[p].got[i])' BY <1>4, <3>1 DEF Gone, Current, Adds
      <3> QED BY <3>2
    <2> QED BY <1>5, <1>9, <2>1, <2>2
  <1>10. ASSUME NEW i \in DOMAIN h, NEW j \in DOMAIN h, i < j PROVE Apart(port[p].got[i], port[p].got[j])'
    <2>1. i \in 1 .. n
      <3>1. j <= n + 1 BY <1>3, <1>10, <1>5
      <3> QED BY <1>3, <1>5, <1>10, <3>1
    <2>2. h[i] = got[i] /\ i \in DOMAIN got BY <1>6, <2>1
    <2>3. (Speaking(act'[got[i].by]) /\ act'[got[i].by].left = got[i].left) => Current(got[i])
      BY <1>2, <2>2
    <2>4. Apart(got[i], h[j])
      <3>1. CASE j \in 1 .. n
        <4>1. h[j] = got[j] /\ j \in DOMAIN got BY <1>6, <3>1
        <4> QED BY <1>1, <1>10, <2>2, <4>1 DEF TextsAt
      <3>2. CASE j = n + 1 BY <1>3a, <1>7, <2>1, <3>2 DEF Apart
      <3> QED BY <1>5, <1>10, <3>1, <3>2
    <2> HIDE DEF got
    <2>5. Apart(port[p].got[i], port[p].got[j])' BY <2>2, <2>3, <2>4 DEF Apart, Current, SameContext, SameMessage
    <2> QED BY <2>5
  <1>11. ASSUME NEW i \in DOMAIN h, NEW j \in DOMAIN h, NEW k \in DOMAIN h, i < j, j < k
         PROVE Between(port[p].got[i], port[p].got[j], port[p].got[k])'
    <2>0. n \in Int /\ i \in Int /\ j \in Int /\ k \in Int /\ k <= n + 1 /\ 1 <= i BY <1>3
    <2>1. i \in 1 .. n /\ j \in 1 .. n BY <1>11, <2>0
    <2>2. h[i] = got[i] /\ i \in DOMAIN got /\ h[j] = got[j] /\ j \in DOMAIN got BY <1>6, <2>1
    <2>3. Between(got[i], got[j], h[k])
      <3>1. CASE k \in 1 .. n
        <4>1. h[k] = got[k] /\ k \in DOMAIN got BY <1>6, <3>1
        <4> QED BY <1>1, <1>11, <2>2, <4>1 DEF TextsAt
      <3>2. CASE k = n + 1
        <4>1. SameMessage(got[i], m) => Current(got[i]) BY <1>8, <2>1
        <4>2. Apart(got[i], got[j]) BY <1>1, <1>11, <2>2 DEF TextsAt
        <4>3. h[k] = m BY <1>3a, <3>2
        <4> QED BY <4>1, <4>2, <4>3 DEF Apart, Between
      <3> QED BY <1>5, <1>11, <3>1, <3>2
    <2>4. Between(port[p].got[i], port[p].got[j], port[p].got[k])' BY <2>2, <2>3 DEF Between, SameContext, SameMessage
    <2> QED BY <2>4
  <1> QED BY <1>9, <1>10, <1>11 DEF TextsAt

-----------------------------------------------------------------------------
(* -------- a step of a thread -------- *)

\* Thread t does something else and may have made, or skipped, some calls.
Moves(t) ==
  /\ \A u \in Threads : u # t => act'[u] = act[u] /\ todo'[u] = todo[u]
  /\ act' = [u \in Threads |-> act'[u]] /\ Doing(act'[t])
  /\ todo' \in [Threads -> Seq(Called)]
  /\ todo'[t] = todo[t] \/ \E d \in 0 .. Len(todo[t]) : todo'[t] = After(todo[t], d)

LEMMA MovesOn ==
  ASSUME Typed, NEW t \in Threads, Moves(t)
  PROVE /\ Len(todo[t]) \in Nat /\ Len(todo'[t]) \in Nat /\ Len(todo'[t]) <= Len(todo[t])
        /\ InSections(todo[t]) => InSections(todo'[t])
        /\ \E d \in Nat : \A k \in DOMAIN todo'[t] :
             k \in Nat /\ k + d \in DOMAIN todo[t] /\ todo'[t][k] = todo[t][k + d]
  <1>1. todo[t] \in Seq(Called) /\ todo'[t] \in Seq(Called) BY DEF Typed, Moves
  <1>2. Len(todo[t]) \in Nat /\ Len(todo'[t]) \in Nat /\ DOMAIN todo[t] = 1 .. Len(todo[t])
        /\ DOMAIN todo'[t] = 1 .. Len(todo'[t]) BY <1>1, LenProperties
  <1>3. CASE todo'[t] = todo[t]
    <2>1. \A k \in DOMAIN todo'[t] : k \in Nat /\ k + 0 \in DOMAIN todo[t] /\ todo'[t][k] = todo[t][k + 0]
      BY <1>2, <1>3
    <2> QED BY <1>2, <1>3, <2>1
  <1>4. CASE \E d \in 0 .. Len(todo[t]) : todo'[t] = After(todo[t], d)
    <2>1. PICK d \in 0 .. Len(todo[t]) : todo'[t] = After(todo[t], d) BY <1>4
    <2>2. d \in Nat BY <1>2
    <2>3. /\ Len(After(todo[t], d)) = Len(todo[t]) - d
          /\ \A k \in 1 .. Len(todo[t]) - d : After(todo[t], d)[k] = todo[t][k + d]
          /\ DOMAIN After(todo[t], d) = 1 .. Len(todo[t]) - d
      BY <1>1, AfterIs
    <2>4. InSections(todo[t]) => InSections(After(todo[t], d)) BY <1>1, AfterInSections
    <2>5. ASSUME NEW k \in DOMAIN todo'[t]
          PROVE k \in Nat /\ k + d \in DOMAIN todo[t] /\ todo'[t][k] = todo[t][k + d]
      <3>1. k \in 1 .. Len(todo[t]) - d BY <2>1, <2>3
      <3> QED BY <1>2, <2>1, <2>2, <2>3, <3>1
    <2>6. Len(todo'[t]) <= Len(todo[t]) BY <1>2, <2>1, <2>2, <2>3
    <2> QED BY <1>2, <2>1, <2>2, <2>4, <2>5, <2>6
  <1> QED BY <1>3, <1>4 DEF Moves

\* The same call goes on, or ends.
LEMMA GoesOn ==
  ASSUME Typed, NEW t \in Threads, NEW a, Doing(a), Does(t, a), todo' = todo
  PROVE Moves(t) /\ act'[t] = a /\ todo'[t] = todo[t]
  <1>1. act' = [act EXCEPT ![t] = a] BY DEF Does
  <1>2. /\ act' = [u \in Threads |-> act'[u]] /\ act'[t] = a
        /\ \A u \in Threads : u # t => act'[u] = act[u] BY <1>1, ActsOf
  <1>3. todo' \in [Threads -> Seq(Called)] BY DEF Typed
  <1> QED BY <1>2, <1>3 DEF Moves

\* A call begins: what is said of its head, and of what is left.
Heads(t, op) ==
  /\ act[t] = Idle /\ todo[t] \in Seq(Called) /\ todo[t] # <<>>
  /\ Head(todo[t]) \in Called /\ Head(todo[t]).op = op
  /\ todo'[t] = Tail(todo[t])
  /\ Len(todo[t]) \in Nat /\ Len(todo'[t]) = Len(todo[t]) - 1
  /\ 1 \in DOMAIN todo[t] /\ todo[t][1] = Head(todo[t])

LEMMA BeginsWith ==
  ASSUME Typed, NEW t \in Threads, NEW op, Calls(t, op), Begun(t), NEW a, Doing(a), Does(t, a)
  PROVE Moves(t) /\ act'[t] = a /\ Heads(t, op)
  <1>1. act' = [act EXCEPT ![t] = a] BY DEF Does
  <1>2. /\ act' = [u \in Threads |-> act'[u]] /\ act'[t] = a
        /\ \A u \in Threads : u # t => act'[u] = act[u] BY <1>1, ActsOf
  <1>3. /\ Begins(t) /\ todo' \in [Threads -> Seq(Called)]
        /\ todo[t] \in Seq(Called) /\ todo[t] # <<>> /\ Head(todo[t]) \in Called
        /\ Head(todo[t]).op = op /\ todo'[t] = Tail(todo[t])
        /\ \A u \in Threads : u # t => todo'[u] = todo[u]
        /\ Len(todo[t]) \in Nat /\ Len(todo'[t]) = Len(todo[t]) - 1 BY CallBegins
  <1>4. /\ Tail(todo[t]) = After(todo[t], 1) /\ 1 \in 0 .. Len(todo[t])
        /\ Head(todo[t]) = todo[t][1] /\ 1 \in DOMAIN todo[t] BY <1>3, TailIsAfter
  <1>5. Moves(t)
    <2>1. \E d \in 0 .. Len(todo[t]) : todo'[t] = After(todo[t], d) BY <1>3, <1>4
    <2> QED BY <1>2, <1>3, <2>1 DEF Moves
  <1> QED BY <1>2, <1>3, <1>4, <1>5 DEF Begins, Heads

\* A call that is over at once.
LEMMA BeginsOnly ==
  ASSUME Typed, NEW t \in Threads, NEW op, Calls(t, op), Begun(t), act' = act
  PROVE Moves(t) /\ act'[t] = Idle /\ Heads(t, op)
  <1>1. act[t] = Idle BY CallBegins DEF Begins
  <1>2. act = [u \in Threads |-> act[u]] BY DEF Typed
  <1>3. act' = [act EXCEPT ![t] = Idle] BY <1>1, <1>2
  <1>4. Doing(Idle) BY DEF Doing
  <1> QED BY <1>3, <1>4, BeginsWith DEF Does

\* Begun in sections.
LEMMA BeginsInSections ==
  ASSUME Locking, NEW t \in Threads, NEW op, Heads(t, op)
  PROVE /\ op = "sysprn" => Inside(todo[t], 1)
        /\ op = "sysprn_open" => ~Inside(todo[t], 1) /\ Inside(todo'[t], 1)
        /\ op = "sysprn_close" => Inside(todo[t], 1) /\ ~Inside(todo'[t], 1)
        /\ op \notin {"sysprn_open", "sysprn_close"} => (Inside(todo[t], 1) <=> Inside(todo'[t], 1))
  <1>1. InSections(todo[t]) BY DEF Locking
  <1> QED BY <1>1, HeadAndSections DEF Heads

-----------------------------------------------------------------------------
(* -------- each part of the invariant, one step -------- *)

LEMMA TypedStep ==
  ASSUME Typed, NEW t \in Threads, Moves(t), holder' \in [Locks -> Threads \cup {Nil}],
         /\ syserr' = [fp |-> syserr'.fp, puts |-> syserr'.puts, changes |-> syserr'.changes,
                       crossed |-> syserr'.crossed]
         /\ syserr'.changes \in Nat /\ syserr'.crossed \in BOOLEAN,
         /\ log' = [port |-> log'.port, puts |-> log'.puts, lf |-> log'.lf, crossed |-> log'.crossed]
         /\ log'.crossed \in BOOLEAN,
         /\ sysprn' = [opened |-> sysprn'.opened, xdat |-> sysprn'.xdat, tab |-> sysprn'.tab,
                       puts |-> sysprn'.puts]
         /\ sysprn'.opened \in BOOLEAN
  PROVE Typed'
  <1>1. \A u \in Threads : Doing(act'[u])
    <2> SUFFICES ASSUME NEW u \in Threads PROVE Doing(act'[u]) OBVIOUS
    <2>1. CASE u = t BY <2>1 DEF Moves
    <2>2. CASE u # t BY <2>2 DEF Moves, Typed
    <2> QED BY <2>1, <2>2
  <1> QED BY <1>1 DEF Moves, Typed

LEMMA LockingStep ==
  ASSUME Typed, Locking, NEW t \in Threads, Moves(t),
         \A u \in Threads, l \in Locks : holder'[l] = u <=> Holds(u, l)',
         act'[t].pc = "lock_sysprn" => Inside(todo'[t], 1),
         (Speaking(act'[t]) /\ act'[t].way = "sysprn") => Inside(todo'[t], 1),
         sysprn'.opened <=> holder'["sysprn_lf"] # Nil
  PROVE Locking'
  <1>1. \A u \in Threads : u # t => act'[u] = act[u] /\ todo'[u] = todo[u] BY DEF Moves
  <1>2. \A u \in Threads : InSections(todo'[u])
    <2>1. InSections(todo'[t]) BY MovesOn DEF Locking
    <2> QED BY <1>1, <2>1 DEF Locking
  <1>3. \A u \in Threads : act'[u].pc = "lock_sysprn" => Inside(todo'[u], 1)
    BY <1>1 DEF Locking
  <1>4. \A u \in Threads : Speaking(act'[u]) /\ act'[u].way = "sysprn" => Inside(todo'[u], 1)
    BY <1>1 DEF Locking
  <1> QED BY <1>2, <1>3, <1>4 DEF Locking

\* No lock is taken or given back.
LEMMA LocksKept ==
  ASSUME Typed, Locking, NEW t \in Threads, Moves(t), holder' = holder,
         \A l \in Locks : Holds(t, l)' <=> Holds(t, l)
  PROVE /\ holder' \in [Locks -> Threads \cup {Nil}]
        /\ \A u \in Threads, l \in Locks : holder'[l] = u <=> Holds(u, l)'
  <1>1. holder = [l \in Locks |-> holder[l]] BY DEF Typed
  <1> DEFINE G == {}  R == {}
  <1>2. holder' = [l \in Locks |-> IF l \in G THEN t ELSE IF l \in R THEN Nil ELSE holder[l]] BY <1>1
  <1>3. \A u \in Threads : u # t => act'[u] = act[u] /\ todo'[u] = todo[u] BY DEF Moves
  <1>4. \A l \in Locks : Holds(t, l)' <=> (l \in G \/ (l \notin R /\ Holds(t, l))) OBVIOUS
  <1>5. G \in SUBSET Locks /\ R \in SUBSET Locks /\ (\A l \in G : Free(t, l)) /\ (\A l \in R : holder[l] = t)
    OBVIOUS
  <1> HIDE DEF G, R
  <1> QED BY <1>2, <1>3, <1>4, <1>5, LockStep

\* One lock is taken.
LEMMA LockTaken ==
  ASSUME Typed, Locking, NEW t \in Threads, Moves(t), NEW k \in Locks, Locked(t, k),
         \A l \in Locks : Holds(t, l)' <=> (l = k \/ Holds(t, l))
  PROVE /\ holder' \in [Locks -> Threads \cup {Nil}]
        /\ \A u \in Threads, l \in Locks : holder'[l] = u <=> Holds(u, l)'
  <1>1. holder \in [Locks -> Threads \cup {Nil}] BY DEF Typed
  <1> DEFINE G == {k}  R == {}
  <1>2. holder' = [l \in Locks |-> IF l \in G THEN t ELSE IF l \in R THEN Nil ELSE holder[l]]
    BY <1>1 DEF Locked
  <1>3. \A u \in Threads : u # t => act'[u] = act[u] /\ todo'[u] = todo[u] BY DEF Moves
  <1>4. \A l \in Locks : Holds(t, l)' <=> (l \in G \/ (l \notin R /\ Holds(t, l))) OBVIOUS
  <1>5. G \in SUBSET Locks /\ R \in SUBSET Locks /\ (\A l \in G : Free(t, l)) /\ (\A l \in R : holder[l] = t)
    BY DEF Locked
  <1> HIDE DEF G, R
  <1> QED BY <1>2, <1>3, <1>4, <1>5, LockStep

\* Locks that the thread has are given back.
LEMMA LocksReleased ==
  ASSUME Typed, Locking, NEW t \in Threads, Moves(t), NEW R \in SUBSET Locks, Releases(R),
         \A l \in R : Holds(t, l),
         \A l \in Locks : Holds(t, l)' <=> (l \notin R /\ Holds(t, l))
  PROVE /\ holder' \in [Locks -> Threads \cup {Nil}]
        /\ \A u \in Threads, l \in Locks : holder'[l] = u <=> Holds(u, l)'
  <1> DEFINE G == {}
  <1>2. holder' = [l \in Locks |-> IF l \in G THEN t ELSE IF l \in R THEN Nil ELSE holder[l]]
    BY DEF Releases
  <1>3. \A u \in Threads : u # t => act'[u] = act[u] /\ todo'[u] = todo[u] BY DEF Moves
  <1>4. \A l \in Locks : Holds(t, l)' <=> (l \in G \/ (l \notin R /\ Holds(t, l))) OBVIOUS
  <1>5. (\A l \in R : holder[l] = t) /\ G \in SUBSET Locks /\ \A l \in G : Free(t, l) BY DEF Locking
  <1> HIDE DEF G
  <1> QED BY <1>2, <1>3, <1>4, <1>5, LockStep

\* A thread that is about no message, or further on with the one it was about.
Proceeds(t) ==
  Speaking(act'[t]) =>
    \/ /\ Speaking(act[t]) /\ act'[t].pc # "lock_err" /\ todo'[t] = todo[t]
       /\ act'[t].left = act[t].left /\ act'[t].way = act[t].way
    \/ act'[t].left = Len(todo[t]) /\ Len(todo'[t]) = Len(todo[t]) - 1

LEMMA OnwardStep ==
  ASSUME Typed, Texts, NEW t \in Threads, Moves(t), Proceeds(t)
  PROVE Onward(t)
  <1>1. /\ Len(todo[t]) \in Nat /\ Len(todo'[t]) \in Nat /\ Len(todo'[t]) <= Len(todo[t]) BY MovesOn
  <1>2. \A u \in Threads : u # t => act'[u] = act[u] /\ todo'[u] = todo[u] BY DEF Moves
  <1>3. ASSUME Speaking(act'[t])
        PROVE /\ act'[t].left > Len(todo'[t])
              /\ \/ /\ Speaking(act[t]) /\ act'[t].pc # "lock_err"
                    /\ act'[t].left = act[t].left /\ act'[t].way = act[t].way
                 \/ act'[t].left <= Len(todo[t])
    <2>1. CASE /\ Speaking(act[t]) /\ act'[t].pc # "lock_err" /\ todo'[t] = todo[t]
               /\ act'[t].left = act[t].left /\ act'[t].way = act[t].way
      BY <2>1 DEF Texts
    <2>2. CASE act'[t].left = Len(todo[t]) /\ Len(todo'[t]) = Len(todo[t]) - 1 BY <1>1, <2>2
    <2> QED BY <1>3, <2>1, <2>2 DEF Proceeds
  <1> QED BY <1>1, <1>2, <1>3 DEF Onward

LEMMA TextsStep ==
  ASSUME Texts, NEW t \in Threads, Onward(t),
         port' = [p \in Ports |-> port'[p]], \A p \in Ports : IsPort(port'[p]),
         \A p \in SO : TextsAt(p)'
  PROVE Texts'
  <1>1. \A u \in Threads : Speaking(act'[u]) => act'[u].left > Len(todo'[u]) BY DEF Texts, Onward
  <1>2. SO' = SO BY DEF SO
  <1> QED BY <1>1, <1>2 DEF Texts

LEMMA TextsKept ==
  ASSUME Typed, Texts, NEW t \in Threads, Moves(t), Proceeds(t),
         port' = [p \in Ports |-> port'[p]], \A p \in Ports : IsPort(port'[p]),
         \A p \in SO : port'[p].got = port[p].got
  PROVE Texts'
  <1>1. Onward(t) BY OnwardStep
  <1>2. \A p \in SO : TextsAt(p)' BY <1>1, TextsStay
  <1> QED BY <1>1, <1>2, TextsStep

LEMMA TextsUnchanged ==
  ASSUME Typed, Texts, NEW t \in Threads, Moves(t), Proceeds(t), port' = port
  PROVE Texts'
  <1>1. port' = [p \in Ports |-> port'[p]] /\ \A p \in Ports : IsPort(port'[p]) BY DEF Texts
  <1>2. \A p \in SO : port'[p].got = port[p].got OBVIOUS
  <1> QED BY <1>1, <1>2, TextsKept

LEMMA TextsAdded ==
  ASSUME Typed, Texts, NEW t \in Threads, Moves(t), Proceeds(t),
         NEW a, NEW did, port' = Stored(t, a, did), Adds(t, a.left, a.way)
  PROVE Texts' /\ \A p \in Ports : port'[p].open = port[p].open
  <1>1. Onward(t) BY OnwardStep
  <1>2. a.left \in Nat BY DEF Adds
  <1>3. /\ port' = [p \in Ports |-> port'[p]] /\ \A p \in Ports : IsPort(port'[p])
        /\ \A p \in Ports : port'[p].open = port[p].open
        /\ \A p \in Ports : \/ port'[p].got = port[p].got
                            \/ port'[p].got = Append(port[p].got, Piece(t, a.left, a.way, did))
    BY <1>2, Stores
  <1>4. ASSUME NEW p \in SO PROVE TextsAt(p)'
    <2>1. p \in Ports BY DEF SO, Ports
    <2>2. CASE port'[p].got = port[p].got BY <1>1, <2>2, TextsStay
    <2>3. CASE port'[p].got = Append(port[p].got, Piece(t, a.left, a.way, did))
      BY <1>1, <2>3, TextsGrow
    <2> QED BY <1>3, <2>1, <2>2, <2>3
  <1> QED BY <1>1, <1>3, <1>4, TextsStep

\* A message that its thread goes on with, and one that begins, have the
\* place to themselves.
LEMMA AddsMore ==
  ASSUME Typed, Texts, Locking, NEW t \in Threads, Moves(t), todo'[t] = todo[t],
         Speaking(act[t]), act[t].pc # "lock_err",
         Speaking(act'[t]) => act'[t].pc # "lock_err" /\ act'[t].left = act[t].left /\ act'[t].way = act[t].way
  PROVE Adds(t, act[t].left, act[t].way)
  <1>1. IsMessage(act[t]) BY SpeakingIs
  <1>2. act[t].left \in Nat BY <1>1 DEF IsMessage
  <1>3. act[t].left > Len(todo'[t]) BY DEF Texts
  <1>4. holder[LockOf(act[t].way)] = t BY WritersLock
  <1>5. Free(t, LockOf(act[t].way)) BY <1>4 DEF Free
  <1>6. \A u \in Threads : (u # t /\ Speaking(act[u]) /\ LockOf(act[u].way) = LockOf(act[t].way))
                             => act[u].pc = "lock_err" BY <1>5, WritesAlone
  <1> QED BY <1>2, <1>3, <1>6 DEF Adds
LEMMA AddsFirst ==
  ASSUME Typed, Locking, NEW t \in Threads, NEW op, Heads(t, op), NEW way, Free(t, LockOf(way)),
         Speaking(act'[t]), act'[t].pc # "lock_err", act'[t].left = Len(todo[t]), act'[t].way = way
  PROVE Adds(t, Len(todo[t]), way)
  <1>1. \A u \in Threads : (u # t /\ Speaking(act[u]) /\ LockOf(act[u].way) = LockOf(way))
                             => act[u].pc = "lock_err" BY WritesAlone
  <1>2. ~Speaking(act[t]) BY DEF Heads, Idle, Speaking
  <1>3. Len(todo[t]) \in Nat /\ Len(todo[t]) > Len(todo'[t]) BY DEF Heads
  <1> QED BY <1>1, <1>2, <1>3 DEF Adds

\* The ports a thread may bring into use.
Names(t) ==
  InHand(t) \cup
  {p \in {Head(todo[t]).port} : act[t] = Idle /\ todo[t] # <<>> /\ Head(todo[t]).op \in Naming}
InUse == {syserr.fp, log.port, sysprn.xdat}

LEMMA NamesOpen ==
  ASSUME Typed, Open, NEW t \in Threads
  PROVE /\ \A p \in SO \cap Names(t) : port[p].open
        /\ \A u \in Threads : \A i \in DOMAIN todo[u] :
             todo[u][i].op = "close" /\ todo[u][i].port \in Names(t) => u = t
  <1>1. CASE /\ act[t] = Idle /\ todo[t] # <<>> /\ Head(todo[t]).op \in Naming
    <2>1. InHand(t) = {} BY <1>1 DEF InHand, Idle, Speaking
    <2>2. Names(t) = {Head(todo[t]).port} BY <1>1, <2>1 DEF Names
    <2>3. todo[t] \in Seq(Called) BY DEF Typed
    <2>4. Head(todo[t]) = todo[t][1] /\ 1 \in DOMAIN todo[t] BY <1>1, <2>3, TailIsAfter
    <2>5. ASSUME NEW p \in SO, p \in Names(t) PROVE port[p].open
      BY <1>1, <2>2, <2>4, <2>5 DEF Open
    <2>6. ASSUME NEW u \in Threads, NEW i \in DOMAIN todo[u], todo[u][i].op = "close",
                 todo[u][i].port \in Names(t) PROVE u = t
      <3>1. ClosedLast(todo) BY DEF Open
      <3> QED BY <1>1, <2>2, <2>4, <2>6, <3>1 DEF ClosedLast
    <2> QED BY <2>5, <2>6
  <1>2. CASE ~(act[t] = Idle /\ todo[t] # <<>> /\ Head(todo[t]).op \in Naming)
    <2>1. Names(t) = InHand(t) BY <1>2 DEF Names
    <2> QED BY <2>1 DEF Open
  <1> QED BY <1>1, <1>2

\* The calls that are left, of all threads, are some of those there were.
LEMMA CallsLeft ==
  ASSUME Typed, NEW t \in Threads, Moves(t), NEW u \in Threads
  PROVE \E d \in Nat : \A k \in DOMAIN todo'[u] :
          k \in Nat /\ k + d \in DOMAIN todo[u] /\ todo'[u][k] = todo[u][k + d]
  <1>1. CASE u = t BY <1>1, MovesOn
  <1>2. CASE u # t
    <2>1. todo'[u] = todo[u] /\ todo[u] \in Seq(Called) BY <1>2 DEF Moves, Typed
    <2>2. DOMAIN todo[u] = 1 .. Len(todo[u]) /\ Len(todo[u]) \in Nat BY <2>1, LenProperties
    <2>3. \A k \in DOMAIN todo'[u] : k \in Nat /\ k + 0 \in DOMAIN todo[u] /\ todo'[u][k] = todo[u][k + 0]
      BY <2>1, <2>2
    <2> QED BY <2>3
  <1> QED BY <1>1, <1>2

LEMMA ClosedStillLast ==
  ASSUME Typed, ClosedLast(todo), NEW t \in Threads, Moves(t)
  PROVE ClosedLast(todo')
  <1> SUFFICES ASSUME NEW u \in Threads, NEW v \in Threads, NEW i \in DOMAIN todo'[u], NEW k \in DOMAIN todo'[v],
                      todo'[u][i].op = "close", todo'[v][k].op \in Naming, todo'[u][i].port = todo'[v][k].port
               PROVE u = v /\ k < i
    BY DEF ClosedLast
  <1>1. PICK d \in Nat : \A j \in DOMAIN todo'[u] :
          j \in Nat /\ j + d \in DOMAIN todo[u] /\ todo'[u][j] = todo[u][j + d] BY CallsLeft
  <1>2. PICK e \in Nat : \A j \in DOMAIN todo'[v] :
          j \in Nat /\ j + e \in DOMAIN todo[v] /\ todo'[v][j] = todo[v][j + e] BY CallsLeft
  <1>3. i + d \in DOMAIN todo[u] /\ k + e \in DOMAIN todo[v] /\ todo'[u][i] = todo[u][i + d]
        /\ todo'[v][k] = todo[v][k + e] BY <1>1, <1>2
  <1>4. u = v BY <1>3 DEF ClosedLast
  <1>5. k + d \in DOMAIN todo[v] /\ todo'[v][k] = todo[v][k + d] BY <1>1, <1>4
  <1>6. k + d < i + d BY <1>3, <1>4, <1>5 DEF ClosedLast
  <1>7. k \in Nat /\ i \in Nat BY <1>1, <1>2
  <1> QED BY <1>4, <1>6, <1>7

LEMMA OpenStep ==
  ASSUME Typed, Open, NEW t \in Threads, Moves(t),
         \A p \in SO : port'[p].open = port[p].open,
         InHand(t)' \subseteq Names(t), InUse' \subseteq InUse \cup Names(t) \cup {Nil}
  PROVE Open'
  <1>1. ClosedLast(todo') BY ClosedStillLast DEF Open
  <1>2. \A p \in SO \cap Names(t) : port'[p].open BY NamesOpen
  <1>3. Nil \notin SO BY PrintingConstants DEF Nil, SO
  <1>4. \A p \in SO \cap InUse' : port'[p].open BY <1>2, <1>3 DEF Open, InUse
  <1>5. ASSUME NEW u \in Threads, NEW p \in SO, p \in InHand(u)' PROVE port'[p].open
    <2>1. CASE u = t BY <1>2, <1>5, <2>1
    <2>2. CASE u # t
      <3>1. InHand(u)' = InHand(u) BY <2>2 DEF InHand, Moves
      <3> QED BY <1>5, <3>1 DEF Open
    <2> QED BY <2>1, <2>2
  <1>6. ASSUME NEW u \in Threads, NEW k \in DOMAIN todo'[u], todo'[u][k].op \in Naming, todo'[u][k].port \in SO
        PROVE port'[todo'[u][k].port].open
    <2>1. PICK d \in Nat : \A j \in DOMAIN todo'[u] :
            j \in Nat /\ j + d \in DOMAIN todo[u] /\ todo'[u][j] = todo[u][j + d] BY CallsLeft
    <2>2. k + d \in DOMAIN todo[u] /\ todo'[u][k] = todo[u][k + d] BY <2>1
    <2> QED BY <1>6, <2>2 DEF Open
  <1>7. ASSUME NEW u \in Threads, NEW v \in Threads, NEW i \in DOMAIN todo'[u],
               todo'[u][i].op = "close", todo'[u][i].port \in InHand(v)' PROVE u = v
    <2>1. PICK d \in Nat : \A j \in DOMAIN todo'[u] :
            j \in Nat /\ j + d \in DOMAIN todo[u] /\ todo'[u][j] = todo[u][j + d] BY CallsLeft
    <2>2. i + d \in DOMAIN todo[u] /\ todo'[u][i] = todo[u][i + d] BY <2>1
    <2>3. CASE v = t BY <1>7, <2>2, <2>3, NamesOpen
    <2>4. CASE v # t
      <3>1. InHand(v)' = InHand(v) BY <2>4 DEF InHand, Moves
      <3> QED BY <1>7, <2>2, <3>1 DEF Open
    <2> QED BY <2>3, <2>4
  <1>8. SO' = SO /\ Naming' = Naming BY DEF SO, Naming
  <1>9. \A u \in Threads : \A p \in SO \cap InHand(u)' : port'[p].open BY <1>5
  <1>10. \A p \in SO \cap {syserr'.fp, log'.port, sysprn'.xdat} : port'[p].open BY <1>4 DEF InUse
  <1> QED BY <1>1, <1>6, <1>7, <1>8, <1>9, <1>10 DEF Open

\* What is in use stays so, and t brings nothing new into use.
LEMMA OpenKept ==
  ASSUME Typed, Open, NEW t \in Threads, Moves(t),
         \A p \in SO : port'[p].open = port[p].open, InHand(t)' \subseteq Names(t),
         syserr'.fp = syserr.fp, log'.port = log.port, sysprn'.xdat \in {sysprn.xdat, Nil}
  PROVE Open'
  <1>1. InUse' \subseteq InUse \cup Names(t) \cup {Nil} BY DEF InUse
  <1> QED BY <1>1, OpenStep

\* A text goes where it fits, or there is a cause.
Explained(a, how) ==
  \/ Fits(how, a.port)
  \/ syserr.crossed \/ log.crossed
  \/ a.way = "err_log" /\ a.changes # syserr.changes
  \/ a.way = "uls_log" /\ Changing("change_log")
LEMMA StrayStep ==
  ASSUME StrayHasCause, NEW a, NEW how, stray' \in {stray, Strayed(a, how)}, Explained(a, how)
  PROVE StrayHasCause'
  <1> DEFINE ov == a.changes # syserr.changes  ch == Changing("change_log")  cr == syserr.crossed \/ log.crossed
             s == [way |-> a.way, overlaps |-> ov, changing |-> ch, crossed |-> cr]
  <1>1. CASE stray' = stray BY <1>1 DEF StrayHasCause
  <1>2. CASE Fits(how, a.port)
    <2>1. stray' = stray BY <1>2 DEF Strayed
    <2> QED BY <1>1, <2>1
  <1>3. CASE stray' = Strayed(a, how) /\ ~Fits(how, a.port)
    <2>1. stray' = stray \cup {s} BY <1>3 DEF Strayed
    <2>2. cr \/ (a.way = "err_log" /\ ov) \/ (a.way = "uls_log" /\ ch) BY <1>3 DEF Explained
    <2> HIDE DEF ov, ch, cr
    <2>3. s.way = a.way /\ s.overlaps = ov /\ s.changing = ch /\ s.crossed = cr OBVIOUS
    <2> HIDE DEF s
    <2>4. s.crossed \/ (s.way = "err_log" /\ s.overlaps) \/ (s.way = "uls_log" /\ s.changing)
      BY <2>2, <2>3
    <2> QED BY <2>1, <2>4 DEF StrayHasCause
  <1> QED BY <1>1, <1>2, <1>3

LEMMA ChangingKept ==
  ASSUME NEW t \in Threads, Moves(t), NEW pc, act'[t].pc = pc <=> act[t].pc = pc
  PROVE Changing(pc)' <=> Changing(pc)
  <1>1. \A u \in Threads : act'[u].pc = pc <=> act[u].pc = pc
    <2> SUFFICES ASSUME NEW u \in Threads PROVE act'[u].pc = pc <=> act[u].pc = pc OBVIOUS
    <2>1. CASE u = t BY <2>1
    <2>2. CASE u # t BY <2>2 DEF Moves
    <2> QED BY <2>1, <2>2
  <1> QED BY <1>1 DEF Changing

LEMMA ErrAimKept ==
  ASSUME ErrAim, NEW t \in Threads, Moves(t), syserr' = syserr,
         act[t].pc # "change_err", act'[t].pc # "change_err", ErrAimed(act'[t])
  PROVE ErrAim'
  <1>1. Changing("change_err")' <=> Changing("change_err") BY ChangingKept
  <1>2. \A u \in Threads : u # t => act'[u] = act[u] BY DEF Moves
  <1>3. ASSUME NEW u \in Threads PROVE ErrAimed(act[u])'
    <2>1. CASE u = t BY <1>1, <2>1 DEF ErrAimed, Speaking, Writing
    <2>2. CASE u # t
      <3>1. ErrAimed(act[u]) BY DEF ErrAim
      <3> QED BY <1>1, <1>2, <2>2, <3>1 DEF ErrAimed, Speaking, Writing
    <2> QED BY <2>1, <2>2
  <1>4. ASSUME ~syserr'.crossed
        PROVE /\ \A u, v \in Threads : act'[u].pc = "change_err" /\ act'[v].pc = "change_err" => u = v
              /\ \A u \in Threads : act'[u].pc = "change_err" => Suits(act'[u].puts, syserr'.fp)
              /\ ~Changing("change_err") => Suits(syserr'.puts, syserr'.fp)
    BY <1>2, <1>4 DEF ErrAim
  <1> QED BY <1>1, <1>3, <1>4 DEF ErrAim

LEMMA LogAimKept ==
  ASSUME LogAim, NEW t \in Threads, Moves(t), log' = log,
         act[t].pc # "change_log", act'[t].pc # "change_log", LogAimed(act'[t])
  PROVE LogAim'
  <1>1. Changing("change_log")' <=> Changing("change_log") BY ChangingKept
  <1>2. \A u \in Threads : u # t => act'[u] = act[u] BY DEF Moves
  <1>3. ASSUME NEW u \in Threads PROVE LogAimed(act[u])'
    <2>1. CASE u = t BY <2>1 DEF LogAimed, Speaking, Writing
    <2>2. CASE u # t BY <1>2, <2>2 DEF LogAim, LogAimed, Speaking, Writing
    <2> QED BY <2>1, <2>2
  <1>4. ASSUME ~log'.crossed
        PROVE /\ \A u, v \in Threads : act'[u].pc = "change_log" /\ act'[v].pc = "change_log" => u = v
              /\ \A u \in Threads : act'[u].pc = "change_log" => act'[u].puts = log'.puts
              /\ ~Changing("change_log") => log'.lf = log'.puts
    BY <1>2, <1>4 DEF LogAim
  <1>5. Suits(log.puts, log.port)' BY DEF LogAim, Suits
  <1> QED BY <1>1, <1>3, <1>4, <1>5 DEF LogAim

LEMMA SysAimKept ==
  ASSUME SysAim, NEW t \in Threads, Moves(t), sysprn'.xdat = sysprn.xdat, sysprn'.puts = sysprn.puts,
         SysAimed(act'[t])
  PROVE SysAim'
  <1>1. \A u \in Threads : u # t => act'[u] = act[u] BY DEF Moves
  <1>2. ASSUME NEW u \in Threads PROVE SysAimed(act[u])'
    <2>1. CASE u = t BY <2>1 DEF SysAimed, Speaking
    <2>2. CASE u # t BY <1>1, <2>2 DEF SysAim, SysAimed, Speaking
    <2> QED BY <2>1, <2>2
  <1>3. Suits(sysprn.puts, sysprn.xdat)' BY DEF SysAim, Suits
  <1> QED BY <1>2, <1>3 DEF SysAim

LEMMA FileAimKept ==
  ASSUME FileAim, NEW t \in Threads, Moves(t), filelf' = filelf,
         FileAimed(act'[t]), OfPrintf(act[t]) => OfPrintf(act'[t])
  PROVE FileAim'
  <1>1. \A u \in Threads : u # t => act'[u] = act[u] BY DEF Moves
  <1>2. ASSUME NEW u \in Threads PROVE FileAimed(act[u])'
    <2>1. CASE u = t BY <2>1 DEF FileAimed, OfPrintf, Speaking
    <2>2. CASE u # t BY <1>1, <2>2 DEF FileAim, FileAimed, OfPrintf, Speaking
    <2> QED BY <2>1, <2>2
  <1>3. ASSUME \A u \in Threads : ~OfPrintf(act'[u]) PROVE filelf' = "puts_file"
    <2>1. \A u \in Threads : ~OfPrintf(act[u]) BY <1>1, <1>3
    <2> QED BY <2>1 DEF FileAim
  <1>4. \A u \in Threads : OfPrintf(act[u])' <=> OfPrintf(act'[u]) BY DEF OfPrintf, Speaking
  <1> QED BY <1>2, <1>3, <1>4 DEF FileAim

LEMMA StrAimKept ==
  ASSUME StrAim, NEW t \in Threads, Moves(t), StrAimed(t, act'[t])
  PROVE StrAim'
  <1>1. \A u \in Threads : u # t => act'[u] = act[u] BY DEF Moves
  <1>2. ASSUME NEW u \in Threads PROVE StrAimed(u, act[u])'
    <2>1. CASE u = t BY <2>1 DEF StrAimed, Speaking
    <2>2. CASE u # t BY <1>1, <2>2 DEF StrAim, StrAimed, Speaking
    <2> QED BY <2>1, <2>2
  <1> QED BY <1>2 DEF StrAim

\* All of them, for a step that changes no port and no puts.
Aimed(t, a) == ErrAimed(a) /\ LogAimed(a) /\ SysAimed(a) /\ FileAimed(a) /\ StrAimed(t, a)
LEMMA AimsMost ==
  ASSUME Aims, NEW t \in Threads, Moves(t), syserr' = syserr, log' = log,
         sysprn'.xdat = sysprn.xdat, sysprn'.puts = sysprn.puts,
         act[t].pc \notin Changes, act'[t].pc \notin Changes, Aimed(t, act'[t])
  PROVE ErrAim' /\ LogAim' /\ SysAim' /\ StrAim'
  <1>1. act[t].pc # "change_err" /\ act[t].pc # "change_log" /\ act'[t].pc # "change_err"
        /\ act'[t].pc # "change_log" BY DEF Changes
  <1>2. /\ ErrAimed(act'[t]) /\ LogAimed(act'[t]) /\ SysAimed(act'[t]) /\ FileAimed(act'[t])
        /\ StrAimed(t, act'[t]) BY DEF Aimed
  <1>3. ErrAim' BY <1>1, <1>2, ErrAimKept DEF Aims
  <1>4. LogAim' BY <1>1, <1>2, LogAimKept DEF Aims
  <1>5. SysAim' BY <1>2, SysAimKept DEF Aims
  <1>6. StrAim' BY <1>2, StrAimKept DEF Aims
  <1> QED BY <1>3, <1>4, <1>5, <1>6
LEMMA AimsKept ==
  ASSUME Aims, NEW t \in Threads, Moves(t), syserr' = syserr, log' = log, filelf' = filelf,
         sysprn'.xdat = sysprn.xdat, sysprn'.puts = sysprn.puts,
         act[t].pc \notin Changes, act'[t].pc \notin Changes, Aimed(t, act'[t]),
         OfPrintf(act[t]) => OfPrintf(act'[t])
  PROVE Aims'
  <1>1. ErrAim' /\ LogAim' /\ SysAim' /\ StrAim' BY AimsMost
  <1>2. FileAim' BY FileAimKept DEF Aims, Aimed
  <1> QED BY <1>1, <1>2 DEF Aims

\* Who is about no message is not aimed anywhere.
LEMMA SilentAimed ==
  ASSUME NEW t, NEW a, ~Speaking(a)
  PROVE Aimed(t, a)
  BY DEF Aimed, ErrAimed, LogAimed, SysAimed, FileAimed, StrAimed, OfPrintf

\* Ports of contexts are open.
LEMMA InUseFits ==
  ASSUME Open, NEW p, NEW how, Suits(how, p), p \in InUse
  PROVE Fits(how, p)
  BY DEF Fits, Open, InUse, SO

LEMMA LogFits ==
  ASSUME Open, Aims
  PROVE Fits(log.puts, log.port)
  <1>1. Suits(log.puts, log.port) BY DEF Aims, LogAim
  <1> QED BY <1>1, InUseFits DEF InUse

LEMMA TailExplained ==
  ASSUME Open, Aims, NEW t \in Threads, Speaking(act[t]), act[t].way = "err_log"
  PROVE Explained(act[t], act[t].kept)
  <1>1. CASE ~syserr.crossed /\ act[t].changes = syserr.changes
    <2>1. act[t].port = syserr.fp /\ Suits(act[t].kept, syserr.fp)
      BY <1>1 DEF Aims, ErrAim, ErrAimed
    <2> QED BY <2>1, InUseFits DEF InUse, Explained
  <1> QED BY <1>1 DEF Explained

LEMMA MessageExplained ==
  ASSUME Typed, Open, Aims, NEW t \in Threads, Writing(act[t])
  PROVE Explained(act[t], act[t].puts)
  <1>1. Speaking(act[t]) BY DEF Speaking, Writing
  <1>2. act[t].way \in Ways BY <1>1, SpeakingIs DEF IsMessage
  <1>3. CASE act[t].way = "err_log"
    <2>1. CASE ~syserr.crossed /\ act[t].changes = syserr.changes
      <3>1. act[t].port = syserr.fp /\ Suits(act[t].puts, syserr.fp)
        BY <1>1, <1>3, <2>1 DEF Aims, ErrAim, ErrAimed
      <3> QED BY <3>1, InUseFits DEF InUse, Explained
    <2> QED BY <1>3, <2>1 DEF Explained
  <1>4. CASE act[t].way = "uls_log"
    <2>1. act[t].port = log.port /\ act[t].puts = log.lf BY <1>1, <1>4 DEF Aims, LogAim, LogAimed
    <2>2. CASE ~log.crossed /\ ~Changing("change_log")
      <3>1. log.lf = log.puts BY <2>2 DEF Aims, LogAim
      <3> QED BY <2>1, <3>1, LogFits DEF Explained
    <2> QED BY <1>4, <2>2 DEF Explained
  <1>5. CASE act[t].way = "sysprn"
    <2>1. act[t].port = sysprn.xdat /\ Suits(act[t].puts, sysprn.xdat)
      BY <1>1, <1>5 DEF Aims, SysAim, SysAimed
    <2> QED BY <2>1, InUseFits DEF InUse, Explained
  <1>6. CASE act[t].way \in {"printf", "fprintf"}
    <2>1. act[t].port \in Streams /\ act[t].puts \in {"puts_cons", "puts_file"}
      BY <1>1, <1>6 DEF Aims, FileAim, FileAimed, OfPrintf
    <2>2. act[t].port \in InHand(t) BY <1>1, <1>6 DEF InHand
    <2>3. act[t].port \in SO BY <2>1 DEF SO
    <2>4. port[act[t].port].open BY <2>2, <2>3 DEF Open
    <2> QED BY <2>1, <2>4 DEF Explained, Fits, Suits
  <1>7. CASE act[t].way = "snprintf"
    <2>1. act[t].port = t /\ act[t].puts = "puts_str" BY <1>1, <1>7 DEF Aims, StrAim, StrAimed
    <2> QED BY <2>1, PrintingConstants DEF Explained, Fits, Suits
  <1> QED BY <1>2, <1>3, <1>4, <1>5, <1>6, <1>7 DEF Ways

-----------------------------------------------------------------------------

-----------------------------------------------------------------------------
(* -------- a message begins, goes on, ends -------- *)

LEMMA TypedKept ==
  ASSUME Typed, NEW t \in Threads, Moves(t), holder' \in [Locks -> Threads \cup {Nil}],
         syserr' = syserr, log' = log, sysprn' = sysprn
  PROVE Typed'
  <1>1. /\ syserr' = [fp |-> syserr'.fp, puts |-> syserr'.puts, changes |-> syserr'.changes,
                      crossed |-> syserr'.crossed]
        /\ syserr'.changes \in Nat /\ syserr'.crossed \in BOOLEAN BY DEF Typed
  <1>2. /\ log' = [port |-> log'.port, puts |-> log'.puts, lf |-> log'.lf, crossed |-> log'.crossed]
        /\ log'.crossed \in BOOLEAN BY DEF Typed
  <1>3. /\ sysprn' = [opened |-> sysprn'.opened, xdat |-> sysprn'.xdat, tab |-> sysprn'.tab,
                      puts |-> sysprn'.puts]
        /\ sysprn'.opened \in BOOLEAN BY DEF Typed
  <1> QED BY <1>1, <1>2, <1>3, TypedStep

\* The thread is about the same message, further on.
LEMMA Further ==
  ASSUME Typed, NEW t \in Threads, Speaking(act[t]), NEW pc \in {"rounds", "printed"},
         NEW how, NEW fr, NEW said, NEW ok, todo' = todo,
         Does(t, Later(act[t], pc, how, fr, said, ok))
  PROVE /\ Moves(t) /\ Proceeds(t) /\ Speaking(act'[t]) /\ Writing(act'[t])
        /\ act'[t].pc = pc /\ act'[t].puts = how /\ act'[t].way = act[t].way /\ act'[t].port = act[t].port
        /\ act'[t].kept = act[t].kept /\ act'[t].left = act[t].left /\ act'[t].changes = act[t].changes
        /\ InHand(t)' \subseteq Names(t) /\ todo'[t] = todo[t]
  <1> DEFINE a == Later(act[t], pc, how, fr, said, ok)
  <1>1. IsMessage(act[t]) BY SpeakingIs
  <1>2. /\ IsMessage(a) /\ a.pc = pc /\ a.puts = how /\ a.way = act[t].way /\ a.port = act[t].port
        /\ a.kept = act[t].kept /\ a.left = act[t].left /\ a.changes = act[t].changes
    BY <1>1, MessageGoesOn
  <1>3. Doing(a) BY <1>2 DEF Doing
  <1>4. Does(t, a) OBVIOUS
  <1> HIDE DEF a
  <1>5. Moves(t) /\ act'[t] = a /\ todo'[t] = todo[t] BY <1>3, <1>4, GoesOn
  <1>6. Speaking(a) /\ Writing(a) /\ a.pc # "lock_err" BY <1>2 DEF Speaking, Writing
  <1>7. Proceeds(t) BY <1>2, <1>5, <1>6 DEF Proceeds
  <1>8. InHand(t)' = InHand(t)
    <2>1. InHand(t) = IF act[t].way \in {"printf", "fprintf"} THEN {act[t].port} ELSE {}
      BY DEF InHand, Speaking
    <2>2. InHand(t)' = IF a.way \in {"printf", "fprintf"} THEN {a.port} ELSE {}
      BY <1>5, <1>6 DEF InHand, Speaking
    <2> QED BY <1>2, <2>1, <2>2
  <1> QED BY <1>2, <1>5, <1>6, <1>7, <1>8 DEF Names

\* The thread has done with what it was about.
LEMMA Over ==
  ASSUME Typed, NEW t \in Threads, Returns(t), todo' = todo
  PROVE /\ Moves(t) /\ Proceeds(t) /\ act'[t] = Idle /\ todo'[t] = todo[t] /\ act'[t].pc \notin Changes
        /\ ~Speaking(act'[t]) /\ ~Writing(act'[t]) /\ ~Logging(act'[t]) /\ act'[t].pc # "lock_sysprn"
        /\ InHand(t)' \subseteq Names(t)
  <1>1. Doing(Idle) BY DEF Doing
  <1>2. Moves(t) /\ act'[t] = Idle /\ todo'[t] = todo[t] BY <1>1, GoesOn DEF Returns
  <1>3. /\ ~Speaking(act'[t]) /\ ~Writing(act'[t]) /\ ~Logging(act'[t]) /\ act'[t].pc # "lock_sysprn"
        /\ act'[t].pc \notin Changes
    BY <1>2 DEF Idle, Speaking, Writing, Logging, Changes
  <1> QED BY <1>2, <1>3 DEF Proceeds, InHand, Names

\* A call is made that takes one step.
LEMMA AtOnce ==
  ASSUME Typed, NEW t \in Threads, NEW op, Calls(t, op), Begun(t), act' = act
  PROVE /\ Moves(t) /\ Proceeds(t) /\ act'[t] = Idle /\ act[t] = Idle /\ Heads(t, op)
        /\ act'[t].pc \notin Changes
        /\ ~Speaking(act'[t]) /\ ~Writing(act'[t]) /\ ~Logging(act'[t]) /\ act'[t].pc # "lock_sysprn"
        /\ InHand(t)' \subseteq Names(t)
  <1>1. Moves(t) /\ act'[t] = Idle /\ Heads(t, op) BY BeginsOnly
  <1>2. /\ ~Speaking(act'[t]) /\ ~Writing(act'[t]) /\ ~Logging(act'[t]) /\ act'[t].pc # "lock_sysprn"
        /\ act'[t].pc \notin Changes
    BY <1>1 DEF Idle, Speaking, Writing, Logging, Changes
  <1> QED BY <1>1, <1>2 DEF Proceeds, InHand, Names, Heads

\* A call is made that is about something else than a message first.
LEMMA SomethingElse ==
  ASSUME Typed, NEW t \in Threads, NEW op, Calls(t, op), Begun(t), NEW a, Doing(a), ~Speaking(a), Does(t, a)
  PROVE /\ Moves(t) /\ Proceeds(t) /\ act'[t] = a /\ act[t] = Idle /\ Heads(t, op)
        /\ ~Writing(act'[t]) /\ ~Logging(act'[t]) /\ ~Speaking(act'[t])
        /\ ~Writing(act[t]) /\ ~Logging(act[t]) /\ ~Speaking(act[t]) /\ act[t].pc \notin Changes
  <1>1. Moves(t) /\ act'[t] = a /\ Heads(t, op) BY BeginsWith
  <1> QED BY <1>1 DEF Proceeds, Heads, Idle, Speaking, Writing, Logging, Changes

\* A new message.
Starting(t, op, way, pc, p, how, kept) ==
  /\ Moves(t) /\ Proceeds(t) /\ act[t] = Idle /\ Heads(t, op) /\ Speaking(act'[t])
  /\ act[t].pc \notin Changes /\ act'[t].pc \notin Changes
  /\ ~Writing(act[t]) /\ ~Logging(act[t]) /\ ~Speaking(act[t])
  /\ act'[t].pc = pc /\ act'[t].way = way /\ act'[t].port = p /\ act'[t].puts = how
  /\ act'[t].kept = kept /\ act'[t].left = Len(todo[t])
  /\ act'[t].changes = (IF Changing("change_err") THEN -1 ELSE syserr.changes)
  /\ act'[t].changes <= syserr.changes
  /\ InHand(t)' \subseteq Names(t)
  /\ act[t].pc # "lock_sysprn" /\ act'[t].pc # "lock_sysprn"
  /\ pc \in {"lock_err", "lock_log_lf", "rounds"}

\* A message begins.
LEMMA Started ==
  ASSUME Typed, NEW t \in Threads, NEW op, Calls(t, op), Begun(t),
         NEW way \in Ways, NEW p, NEW how, NEW pc \in {"lock_err", "lock_log_lf", "rounds"},
         pc = "lock_err" => way = "err_log", pc = "lock_log_lf" => way = "uls_log",
         NEW said, NEW kept,
         Does(t, Fresh(t, way, p, how, pc, said, kept)),
         way \in {"printf", "fprintf"} => op \in Naming /\ p = Head(todo[t]).port
  PROVE Starting(t, op, way, pc, p, how, kept)
  <1> DEFINE a == Fresh(t, way, p, how, pc, said, kept)
  <1>1. todo[t] \in Seq(Called) BY DEF Typed
  <1>0. MessageOf(a, t, way, pc, p, how, kept) BY <1>1, MessageIs
  <1>4. Does(t, a) OBVIOUS
  <1> HIDE DEF a
  <1>2. /\ IsMessage(a) /\ a.pc = pc /\ a.way = way /\ a.port = p /\ a.puts = how /\ a.kept = kept
        /\ a.left = Len(todo[t])
        /\ a.changes = (IF Changing("change_err") THEN -1 ELSE syserr.changes)
        /\ a.changes <= syserr.changes
    BY <1>0 DEF MessageOf
  <1>3. Doing(a) BY <1>2 DEF Doing
  <1>5. Moves(t) /\ act'[t] = a /\ Heads(t, op) BY <1>3, <1>4, BeginsWith
  <1>6. Speaking(a) BY <1>2 DEF Speaking
  <1>7. Proceeds(t) BY <1>2, <1>5 DEF Proceeds, Heads
  <1>8. InHand(t)' \subseteq Names(t)
    <2>1. InHand(t)' = IF a.way \in {"printf", "fprintf"} THEN {a.port} ELSE {}
      BY <1>5, <1>6 DEF InHand, Speaking
    <2>2. CASE way \in {"printf", "fprintf"}
      <3>1. Head(todo[t]).op \in Naming /\ act[t] = Idle /\ todo[t] # <<>> /\ p = Head(todo[t]).port
        BY <1>5, <2>2 DEF Heads
      <3> QED BY <1>2, <2>1, <3>1 DEF Names
    <2>3. CASE way \notin {"printf", "fprintf"} BY <1>2, <2>1, <2>3
    <2> QED BY <2>2, <2>3
  <1>9. act[t].pc \notin Changes /\ act'[t].pc \notin Changes /\ ~Writing(act[t]) /\ ~Logging(act[t])
        /\ ~Speaking(act[t]) /\ act[t] = Idle /\ act[t].pc # "lock_sysprn" /\ act'[t].pc # "lock_sysprn"
    BY <1>2, <1>5, <1>6 DEF Heads, Idle, Speaking, Writing, Logging, Changes
  <1> QED BY <1>2, <1>5, <1>6, <1>7, <1>8, <1>9 DEF Starting

-----------------------------------------------------------------------------
(* -------- the actions: messages go on and end -------- *)

LEMMA RoundIs ==
  ASSUME NEW t \in Threads, vxprintf(t)
  PROVE \E pc \in {"rounds", "printed"} : \E fr, said, ok, did :
          /\ Does(t, [act[t] EXCEPT !.fr = fr, !.said = said, !.ok = ok, !.pc = pc])
          /\ \/ port' = port /\ stray' = stray
             \/ port' = Stored(t, act[t], did) /\ stray' = Strayed(act[t], act[t].puts)
  <1>1. PICK fmt \in {act[t].call.fmt}, fr \in {act[t].fr} :
          \E stop \in {Percent(fmt, fr)} :
          \E pf \in {uls_pars_perfmt(fmt, stop + 1)} :
          \E found \in {FindProc(fmt, stop + 1, pf, MapOf(act[t].way))} :
          \E c \in {Converted(found.proc, pf, fr.args, Core)} :
          \E r \in {Round(fmt, fr, stop, found, c)} :
          \E w \in {Given(act[t], act[t].puts, r.chunk \o r.conv)} :
            /\ Does(t, [act[t] EXCEPT !.fr = r.fr, !.said = SaidOf(@, r), !.ok = w.ok,
                                      !.pc = IF r.end \/ ~w.ok THEN "printed" ELSE "rounds"])
            /\ IF r.chunk \o r.conv = <<>> THEN UNCHANGED <<port, stray>>
               ELSE /\ port' = Stored(t, act[t], w.did)
                    /\ stray' = Strayed(act[t], act[t].puts)
    BY DEF vxprintf
  <1>2. PICK r, w :
            /\ Does(t, [act[t] EXCEPT !.fr = r.fr, !.said = SaidOf(@, r), !.ok = w.ok,
                                      !.pc = IF r.end \/ ~w.ok THEN "printed" ELSE "rounds"])
            /\ IF r.chunk \o r.conv = <<>> THEN UNCHANGED <<port, stray>>
               ELSE /\ port' = Stored(t, act[t], w.did)
                    /\ stray' = Strayed(act[t], act[t].puts)
    BY <1>1, Zenon
  <1> DEFINE said == SaidOf(act[t].said, r)  pc == IF r.end \/ ~w.ok THEN "printed" ELSE "rounds"
             fr1 == r.fr  ok == w.ok  did == w.did
  <1>3. pc \in {"rounds", "printed"} OBVIOUS
  <1>4. Does(t, [act[t] EXCEPT !.fr = fr1, !.said = said, !.ok = ok, !.pc = pc]) BY <1>2
  <1>5. \/ port' = port /\ stray' = stray
        \/ port' = Stored(t, act[t], did) /\ stray' = Strayed(act[t], act[t].puts)
    BY <1>2
  <1> HIDE DEF said, pc, fr1, ok, did
  <1> QED BY <1>3, <1>4, <1>5

LEMMA VxprintfKeeps ==
  ASSUME IInv, NEW t \in Threads, vxprintf(t)
  PROVE IInv'
  <1>1. Typed /\ Locking /\ Texts /\ Open /\ Aims /\ StrayHasCause BY DEF IInv
  <1>2. /\ act[t].pc = "rounds" /\ todo' = todo /\ holder' = holder /\ syserr' = syserr /\ log' = log
        /\ sysprn' = sysprn /\ filelf' = filelf BY DEF vxprintf
  <1>3. Speaking(act[t]) /\ Writing(act[t]) /\ Logging(act[t]) /\ act[t].pc # "lock_err" /\ act[t].pc \notin Changes
    BY <1>2 DEF Speaking, Writing, Logging, Changes
  <1>4. PICK pc \in {"rounds", "printed"} : \E fr, said, ok, did :
          /\ Does(t, [act[t] EXCEPT !.fr = fr, !.said = said, !.ok = ok, !.pc = pc])
          /\ \/ port' = port /\ stray' = stray
             \/ port' = Stored(t, act[t], did) /\ stray' = Strayed(act[t], act[t].puts)
    BY RoundIs
  <1>5. PICK fr, said, ok, did :
          /\ Does(t, [act[t] EXCEPT !.fr = fr, !.said = said, !.ok = ok, !.pc = pc])
          /\ \/ port' = port /\ stray' = stray
             \/ port' = Stored(t, act[t], did) /\ stray' = Strayed(act[t], act[t].puts)
    BY <1>4
  <1>6. Does(t, Later(act[t], pc, act[t].puts, fr, said, ok))
    <2> DEFINE b == act[t]
    <2>1. IsMessage(b) BY <1>1, <1>3, SpeakingIs
    <2>2. Does(t, [b EXCEPT !.fr = fr, !.said = said, !.ok = ok, !.pc = pc]) BY <1>5
    <2> HIDE DEF b
    <2>3. [b EXCEPT !.fr = fr, !.said = said, !.ok = ok, !.pc = pc] = Later(b, pc, b.puts, fr, said, ok)
      <3> DEFINE fields == {"pc", "way", "port", "puts", "call", "left", "fr", "said", "ok", "changes", "kept"}
                 d == [b EXCEPT !.fr = fr, !.said = said, !.ok = ok, !.pc = pc]
      <3>1. b = [f \in fields |-> b[f]] BY <2>1 DEF IsMessage
      <3>2. d = [f \in fields |-> CASE f = "fr" -> fr [] f = "said" -> said [] f = "ok" -> ok
                                    [] f = "pc" -> pc [] OTHER -> b[f]] BY <3>1
      <3> HIDE DEF d
      <3>3. d = Later(b, pc, b.puts, fr, said, ok) BY <3>2 DEF Later
      <3> QED BY <3>3 DEF d
    <2>4. Does(t, Later(b, pc, b.puts, fr, said, ok)) BY <2>2, <2>3
    <2> QED BY <2>4 DEF b
  <1>7. /\ Moves(t) /\ Proceeds(t) /\ Speaking(act'[t]) /\ Writing(act'[t])
        /\ act'[t].pc = pc /\ act'[t].puts = act[t].puts /\ act'[t].way = act[t].way
        /\ act'[t].port = act[t].port /\ act'[t].kept = act[t].kept /\ act'[t].left = act[t].left
        /\ act'[t].changes = act[t].changes /\ InHand(t)' \subseteq Names(t) /\ todo'[t] = todo[t]
    BY <1>1, <1>2, <1>3, <1>6, Further, ZenonT(60)
  <1>8. /\ act'[t].pc # "lock_sysprn" /\ act[t].pc # "lock_sysprn" /\ Logging(act'[t])
        /\ act'[t].pc # "lock_err" /\ act'[t].pc \notin Changes
    BY <1>2, <1>7 DEF Logging, Changes
  <1>9. \A l \in Locks : Holds(t, l)' <=> Holds(t, l) BY <1>3, <1>7, <1>8 DEF Holds, Writing, Logging
  <1>10. /\ holder' \in [Locks -> Threads \cup {Nil}]
         /\ \A u \in Threads, l \in Locks : holder'[l] = u <=> Holds(u, l)'
    BY <1>1, <1>2, <1>7, <1>9, LocksKept
  <1>11. Typed' BY <1>1, <1>2, <1>7, <1>10, TypedKept
  <1>12. Locking'
    <2>1. Speaking(act'[t]) /\ act'[t].way = "sysprn" => Inside(todo'[t], 1) BY <1>1, <1>3, <1>7 DEF Locking
    <2>2. sysprn'.opened <=> holder'["sysprn_lf"] # Nil BY <1>1, <1>2 DEF Locking
    <2> QED BY <1>1, <1>7, <1>8, <1>10, <2>1, <2>2, LockingStep
  <1>13. Texts' /\ \A p \in Ports : port'[p].open = port[p].open
    <2>1. CASE port' = port BY <1>1, <1>7, <2>1, TextsUnchanged
    <2>2. CASE port' = Stored(t, act[t], did)
      <3>1. Adds(t, act[t].left, act[t].way) BY <1>1, <1>3, <1>7, <1>8, AddsMore
      <3> QED BY <1>1, <1>7, <2>2, <3>1, TextsAdded
    <2> QED BY <1>5, <2>1, <2>2
  <1>14. Open'
    <2>1. \A p \in SO : port'[p].open = port[p].open BY <1>13 DEF SO, Ports
    <2> QED BY <1>1, <1>2, <1>7, <2>1, OpenKept
  <1>15. Aims'
    <2>1. Aimed(t, act[t]) BY <1>1 DEF Aims, ErrAim, LogAim, SysAim, FileAim, StrAim, Aimed
    <2>2. Aimed(t, act'[t])
      BY <1>3, <1>7, <2>1 DEF Aimed, ErrAimed, LogAimed, SysAimed, FileAimed, StrAimed, OfPrintf
    <2>3. OfPrintf(act'[t]) <=> OfPrintf(act[t]) BY <1>3, <1>7 DEF OfPrintf
    <2> QED BY <1>1, <1>2, <1>3, <1>7, <1>8, <2>2, <2>3, AimsKept
  <1>16. StrayHasCause'
    <2>1. stray' \in {stray, Strayed(act[t], act[t].puts)} BY <1>5
    <2>2. Explained(act[t], act[t].puts) BY <1>1, <1>3, MessageExplained
    <2> QED BY <1>1, <2>1, <2>2, StrayStep
  <1> QED BY <1>11, <1>12, <1>13, <1>14, <1>15, <1>16 DEF IInv

LEMMA ErrLockKeeps ==
  ASSUME IInv, NEW t \in Threads, ErrLock(t)
  PROVE IInv'
  <1>1. Typed /\ Locking /\ Texts /\ Open /\ Aims /\ StrayHasCause BY DEF IInv
  <1>2. /\ act[t].pc = "lock_err" /\ todo' = todo /\ syserr' = syserr /\ log' = log
        /\ sysprn' = sysprn /\ filelf' = filelf /\ port' = port /\ stray' = stray
        /\ Locked(t, "lf_syserr") /\ Does(t, [act[t] EXCEPT !.pc = "rounds", !.puts = syserr.puts])
    BY DEF ErrLock
  <1>3. Speaking(act[t]) /\ ~Writing(act[t]) /\ ~Logging(act[t]) /\ act[t].pc \notin Changes
        /\ act[t].pc # "lock_sysprn"
    BY <1>2 DEF Speaking, Writing, Logging, Changes
  <1>4. IsMessage(act[t]) /\ act[t].way = "err_log" BY <1>1, <1>2, <1>3, SpeakingIs DEF IsMessage
  <1> DEFINE fr == act[t].fr  said == act[t].said  ok == act[t].ok
  <1>5. Does(t, Later(act[t], "rounds", syserr.puts, fr, said, ok))
    <2>1. [act[t] EXCEPT !.pc = "rounds", !.puts = syserr.puts]
            = Later(act[t], "rounds", syserr.puts, act[t].fr, act[t].said, act[t].ok) BY <1>4, LaterIs
    <2> QED BY <1>2, <2>1
  <1> HIDE DEF fr, said, ok
  <1>6. "rounds" \in {"rounds", "printed"} OBVIOUS
  <1>7. /\ Moves(t) /\ Proceeds(t) /\ Speaking(act'[t]) /\ Writing(act'[t])
        /\ act'[t].pc = "rounds" /\ act'[t].puts = syserr.puts /\ act'[t].way = act[t].way
        /\ act'[t].port = act[t].port /\ act'[t].kept = act[t].kept /\ act'[t].left = act[t].left
        /\ act'[t].changes = act[t].changes /\ InHand(t)' \subseteq Names(t) /\ todo'[t] = todo[t]
    BY <1>1, <1>2, <1>3, <1>5, <1>6, Further
  <1>8. act'[t].pc # "lock_sysprn" /\ act'[t].pc \notin Changes BY <1>7 DEF Changes
  <1>9. \A l \in Locks : Holds(t, l)' <=> (l = "lf_syserr" \/ Holds(t, l))
    BY <1>3, <1>4, <1>7, <1>8 DEF Holds, Writing, Logging
  <1>10. /\ holder' \in [Locks -> Threads \cup {Nil}]
         /\ \A u \in Threads, l \in Locks : holder'[l] = u <=> Holds(u, l)'
    <2>1. "lf_syserr" \in Locks BY DEF Locks
    <2> QED BY <1>1, <1>2, <1>7, <1>9, <2>1, LockTaken
  <1>11. Typed' BY <1>1, <1>2, <1>7, <1>10, TypedKept
  <1>12. Locking'
    <2>1. ~(act'[t].way = "sysprn") BY <1>4, <1>7
    <2>2. sysprn'.opened <=> holder'["sysprn_lf"] # Nil
      <3>1. holder \in [Locks -> Threads \cup {Nil}] /\ "sysprn_lf" \in Locks BY <1>1 DEF Typed, Locks
      <3>2. holder'["sysprn_lf"] = holder["sysprn_lf"] BY <1>2, <3>1 DEF Locked
      <3> QED BY <1>1, <1>2, <3>2 DEF Locking
    <2> QED BY <1>1, <1>7, <1>8, <1>10, <2>1, <2>2, LockingStep
  <1>13. Texts' BY <1>1, <1>2, <1>7, TextsUnchanged
  <1>14. Open' BY <1>1, <1>2, <1>7, OpenKept
  <1>15. Aims'
    <2>1. ErrAimed(act[t]) BY <1>1 DEF Aims, ErrAim
    <2>2. ErrAimed(act'[t])
      <3>1. (~syserr.crossed /\ act[t].changes = syserr.changes) => Suits(syserr.puts, syserr.fp)
        BY <1>1, <1>3, <1>4, <2>1 DEF Aims, ErrAim, ErrAimed
      <3> QED BY <1>3, <1>4, <1>7, <2>1, <3>1 DEF ErrAimed
    <2>3. Aimed(t, act'[t])
      BY <1>4, <1>7, <2>2 DEF Aimed, LogAimed, SysAimed, FileAimed, StrAimed, OfPrintf
    <2>4. ~OfPrintf(act[t]) BY <1>4 DEF OfPrintf
    <2> QED BY <1>1, <1>2, <1>3, <1>7, <1>8, <2>3, <2>4, AimsKept
  <1>16. StrayHasCause' BY <1>1, <1>2 DEF StrayHasCause
  <1> QED BY <1>11, <1>12, <1>13, <1>14, <1>15, <1>16 DEF IInv

LEMMA LogLfKeeps ==
  ASSUME IInv, NEW t \in Threads, LogLf(t)
  PROVE IInv'
  <1>1. Typed /\ Locking /\ Texts /\ Open /\ Aims /\ StrayHasCause BY DEF IInv
  <1>2. /\ act[t].pc = "lock_log_lf" /\ todo' = todo /\ syserr' = syserr /\ log' = log
        /\ sysprn' = sysprn /\ filelf' = filelf /\ port' = port /\ stray' = stray
        /\ Locked(t, "log_lf") /\ Does(t, [act[t] EXCEPT !.pc = "rounds", !.puts = log.lf])
    BY DEF LogLf
  <1>3. Speaking(act[t]) /\ ~Writing(act[t]) /\ Logging(act[t]) /\ act[t].pc \notin Changes
        /\ act[t].pc # "lock_sysprn"
    BY <1>2 DEF Speaking, Writing, Logging, Changes
  <1>4. IsMessage(act[t]) /\ act[t].way = "uls_log" BY <1>1, <1>2, <1>3, SpeakingIs DEF IsMessage
  <1> DEFINE fr == act[t].fr  said == act[t].said  ok == act[t].ok
  <1>5. Does(t, Later(act[t], "rounds", log.lf, fr, said, ok))
    <2>1. [act[t] EXCEPT !.pc = "rounds", !.puts = log.lf]
            = Later(act[t], "rounds", log.lf, act[t].fr, act[t].said, act[t].ok) BY <1>4, LaterIs
    <2> QED BY <1>2, <2>1
  <1> HIDE DEF fr, said, ok
  <1>6. "rounds" \in {"rounds", "printed"} OBVIOUS
  <1>7. /\ Moves(t) /\ Proceeds(t) /\ Speaking(act'[t]) /\ Writing(act'[t])
        /\ act'[t].pc = "rounds" /\ act'[t].puts = log.lf /\ act'[t].way = act[t].way
        /\ act'[t].port = act[t].port /\ act'[t].kept = act[t].kept /\ act'[t].left = act[t].left
        /\ act'[t].changes = act[t].changes /\ InHand(t)' \subseteq Names(t) /\ todo'[t] = todo[t]
    BY <1>1, <1>2, <1>3, <1>5, <1>6, Further
  <1>8. act'[t].pc # "lock_sysprn" /\ act'[t].pc \notin Changes /\ Logging(act'[t]) BY <1>7 DEF Changes, Logging
  <1>9. \A l \in Locks : Holds(t, l)' <=> (l = "log_lf" \/ Holds(t, l))
    BY <1>3, <1>4, <1>7, <1>8 DEF Holds, Writing, Logging
  <1>10. /\ holder' \in [Locks -> Threads \cup {Nil}]
         /\ \A u \in Threads, l \in Locks : holder'[l] = u <=> Holds(u, l)'
    <2>1. "log_lf" \in Locks BY DEF Locks
    <2> QED BY <1>1, <1>2, <1>7, <1>9, <2>1, LockTaken
  <1>11. Typed' BY <1>1, <1>2, <1>7, <1>10, TypedKept
  <1>12. Locking'
    <2>1. ~(act'[t].way = "sysprn") BY <1>4, <1>7
    <2>2. sysprn'.opened <=> holder'["sysprn_lf"] # Nil
      <3>1. holder \in [Locks -> Threads \cup {Nil}] /\ "sysprn_lf" \in Locks BY <1>1 DEF Typed, Locks
      <3>2. holder'["sysprn_lf"] = holder["sysprn_lf"] BY <1>2, <3>1 DEF Locked
      <3> QED BY <1>1, <1>2, <3>2 DEF Locking
    <2> QED BY <1>1, <1>7, <1>8, <1>10, <2>1, <2>2, LockingStep
  <1>13. Texts' BY <1>1, <1>2, <1>7, TextsUnchanged
  <1>14. Open' BY <1>1, <1>2, <1>7, OpenKept
  <1>15. Aims'
    <2>1. ErrAimed(act[t]) /\ LogAimed(act[t]) BY <1>1 DEF Aims, ErrAim, LogAim
    <2>2. ErrAimed(act'[t]) BY <1>3, <1>4, <1>7, <2>1 DEF ErrAimed
    <2>3. LogAimed(act'[t]) BY <1>3, <1>4, <1>7, <2>1 DEF LogAimed
    <2>4. Aimed(t, act'[t])
      BY <1>4, <1>7, <2>2, <2>3 DEF Aimed, SysAimed, FileAimed, StrAimed, OfPrintf
    <2>5. ~OfPrintf(act[t]) BY <1>4 DEF OfPrintf
    <2> QED BY <1>1, <1>2, <1>3, <1>7, <1>8, <2>4, <2>5, AimsKept
  <1>16. StrayHasCause' BY <1>1, <1>2 DEF StrayHasCause
  <1> QED BY <1>11, <1>12, <1>13, <1>14, <1>15, <1>16 DEF IInv

\* A message ends: its locks are given back, but for that of uls_sysprn().
LEMMA MessageEnds ==
  ASSUME IInv, NEW t \in Threads, act[t].pc = "printed", Returns(t),
         todo' = todo, syserr' = syserr, log' = log, sysprn' = sysprn,
         NEW R \in SUBSET Locks, Releases(R), \A l \in Locks : l \in R <=> Holds(t, l) /\ l # "sysprn_lf",
         filelf' = IF act[t].way = "printf" THEN act[t].kept ELSE filelf,
         NEW how, NEW texts, (Explained(act[t], how) /\ Put(t, act[t], how, texts)) \/ (port' = port /\ stray' = stray)
  PROVE IInv'
  <1>1. Typed /\ Locking /\ Texts /\ Open /\ Aims /\ StrayHasCause BY DEF IInv
  <1>2. Speaking(act[t]) /\ Writing(act[t]) /\ act[t].pc \notin Changes
        /\ act[t].pc # "lock_sysprn" /\ act[t].pc # "lock_err" BY DEF Speaking, Writing, Changes
  <1>3. /\ Moves(t) /\ Proceeds(t) /\ todo'[t] = todo[t] /\ act'[t].pc \notin Changes
        /\ ~Speaking(act'[t]) /\ ~Writing(act'[t]) /\ ~Logging(act'[t]) /\ act'[t].pc # "lock_sysprn"
        /\ InHand(t)' \subseteq Names(t) BY <1>1, Over
  <1>4. /\ \A l \in Locks : Holds(t, l)' <=> (l \notin R /\ Holds(t, l))
        /\ \A l \in R : Holds(t, l)
    <2>1. \A l \in Locks : Holds(t, l)' <=> (l = "sysprn_lf" /\ Holds(t, l)) BY <1>2, <1>3 DEF Holds
    <2> QED BY <2>1
  <1>5. /\ holder' \in [Locks -> Threads \cup {Nil}]
        /\ \A u \in Threads, l \in Locks : holder'[l] = u <=> Holds(u, l)'
    BY <1>1, <1>3, <1>4, LocksReleased
  <1>6. Typed' BY <1>1, <1>3, <1>5, TypedKept
  <1>7. Locking'
    <2>1. sysprn'.opened <=> holder'["sysprn_lf"] # Nil
      <3>1. "sysprn_lf" \in Locks /\ "sysprn_lf" \notin R BY DEF Locks
      <3>2. holder'["sysprn_lf"] = holder["sysprn_lf"] BY <3>1 DEF Releases
      <3> QED BY <1>1, <3>2 DEF Locking
    <2> QED BY <1>1, <1>3, <1>5, <2>1, LockingStep
  <1>8. Texts' /\ \A p \in Ports : port'[p].open = port[p].open
    <2>1. CASE port' = port BY <1>1, <1>3, <2>1, TextsUnchanged
    <2>2. CASE port' # port
      <3> DEFINE did == Given(act[t], how, texts).did
      <3>1. port' = Stored(t, act[t], did) BY <2>2 DEF Put
      <3> HIDE DEF did
      <3>2. Adds(t, act[t].left, act[t].way) BY <1>1, <1>2, <1>3, AddsMore
      <3> QED BY <1>1, <1>3, <3>1, <3>2, TextsAdded
    <2> QED BY <2>1, <2>2
  <1>9. Open'
    <2>1. \A p \in SO : port'[p].open = port[p].open BY <1>8 DEF SO, Ports
    <2> QED BY <1>1, <1>3, <2>1, OpenKept
  <1>10. Aims'
    <2>1. Aimed(t, act'[t]) BY <1>3, SilentAimed
    <2>2. CASE act[t].way # "printf"
      <3>1. ~OfPrintf(act[t]) BY <2>2 DEF OfPrintf
      <3> QED BY <1>1, <1>2, <1>3, <2>1, <2>2, <3>1, AimsKept
    <2>3. CASE act[t].way = "printf"
      <3>1. OfPrintf(act[t]) BY <1>2, <2>3 DEF OfPrintf
      <3>2. filelf' = "puts_file" BY <1>1, <2>3, <3>1 DEF Aims, FileAim, FileAimed
      <3>3. \A u \in Threads : FileAimed(act[u])'
        <4> SUFFICES ASSUME NEW u \in Threads PROVE FileAimed(act[u])' OBVIOUS
        <4>1. CASE u = t BY <1>3, <4>1 DEF FileAimed, OfPrintf, Speaking
        <4>2. CASE u # t BY <1>1, <1>3, <4>2 DEF Moves, Aims, FileAim, FileAimed, OfPrintf, Speaking
        <4> QED BY <4>1, <4>2
      <3>4. FileAim' BY <3>2, <3>3 DEF FileAim
      <3> QED BY <1>1, <1>2, <1>3, <2>1, <3>4, AimsMost DEF Aims
    <2> QED BY <2>2, <2>3
  <1>11. StrayHasCause'
    <2>1. CASE Explained(act[t], how) /\ Put(t, act[t], how, texts)
      <3>1. stray' \in {stray, Strayed(act[t], how)} BY <2>1 DEF Put
      <3> QED BY <1>1, <2>1, <3>1, StrayStep
    <2>2. CASE stray' = stray BY <1>1, <2>2 DEF StrayHasCause
    <2> QED BY <2>1, <2>2
  <1> QED BY <1>6, <1>7, <1>8, <1>9, <1>10, <1>11 DEF IInv

LEMMA ErrEndKeeps ==
  ASSUME IInv, NEW t \in Threads, ErrEnd(t)
  PROVE IInv'
  <1>1. /\ act[t].pc = "printed" /\ act[t].way = "err_log" /\ todo' = todo /\ syserr' = syserr /\ log' = log
        /\ sysprn' = sysprn /\ filelf' = filelf /\ Put(t, act[t], act[t].kept, <<<<"lf">>>>)
        /\ Releases({"lf_syserr"}) /\ Returns(t) BY DEF ErrEnd
  <1>2. Speaking(act[t]) /\ Writing(act[t]) /\ {"lf_syserr"} \in SUBSET Locks
    BY <1>1 DEF Speaking, Writing, Locks
  <1>3. \A l \in Locks : l \in {"lf_syserr"} <=> Holds(t, l) /\ l # "sysprn_lf" BY <1>1, <1>2 DEF Holds, Locks
  <1>4. Explained(act[t], act[t].kept) BY <1>1, <1>2, TailExplained DEF IInv
  <1> QED BY <1>1, <1>2, <1>3, <1>4, MessageEnds

LEMMA LogEndKeeps ==
  ASSUME IInv, NEW t \in Threads, LogEnd(t)
  PROVE IInv'
  <1>1. /\ act[t].pc = "printed" /\ act[t].way = "uls_log" /\ todo' = todo /\ syserr' = syserr /\ log' = log
        /\ sysprn' = sysprn /\ filelf' = filelf /\ Put(t, act[t], log.puts, <<<<"lf">>>>)
        /\ Releases({"log", "log_lf"}) /\ Returns(t) BY DEF LogEnd
  <1>2. Speaking(act[t]) /\ Writing(act[t]) /\ Logging(act[t]) /\ {"log", "log_lf"} \in SUBSET Locks
    BY <1>1 DEF Speaking, Writing, Logging, Locks
  <1>3. \A l \in Locks : l \in {"log", "log_lf"} <=> Holds(t, l) /\ l # "sysprn_lf"
    BY <1>1, <1>2 DEF Holds, Locks
  <1>4. Explained(act[t], log.puts)
    <2>1. act[t].port = log.port BY <1>1, <1>2 DEF IInv, Aims, LogAim, LogAimed
    <2> QED BY <2>1, LogFits DEF IInv, Explained
  <1> QED BY <1>1, <1>2, <1>3, <1>4, MessageEnds

LEMMA SysprnEndKeeps ==
  ASSUME IInv, NEW t \in Threads, SysprnEnd(t)
  PROVE IInv'
  <1>1. /\ act[t].pc = "printed" /\ act[t].way = "sysprn" /\ todo' = todo /\ syserr' = syserr /\ log' = log
        /\ sysprn' = sysprn /\ filelf' = filelf /\ port' = port /\ stray' = stray
        /\ holder' = holder /\ Returns(t) BY DEF SysprnEnd
  <1>2. \A l \in Locks : l \in {} <=> Holds(t, l) /\ l # "sysprn_lf"
    BY <1>1 DEF Holds, Locks
  <1>3. Releases({})
    <2>1. holder = [l \in Locks |-> holder[l]] BY DEF IInv, Typed
    <2> QED BY <1>1, <2>1 DEF Releases
  <1>4. {} \in SUBSET Locks OBVIOUS
  <1> DEFINE R == {}
  <1>5. R \in SUBSET Locks /\ Releases(R) /\ \A l \in Locks : l \in R <=> Holds(t, l) /\ l # "sysprn_lf"
    BY <1>2, <1>3, <1>4
  <1> HIDE DEF R
  <1> QED BY <1>1, <1>5, MessageEnds

LEMMA PrintfEndKeeps ==
  ASSUME IInv, NEW t \in Threads, PrintfEnd(t)
  PROVE IInv'
  <1>1. /\ act[t].pc = "printed" /\ act[t].way = "printf" /\ todo' = todo /\ syserr' = syserr /\ log' = log
        /\ sysprn' = sysprn /\ filelf' = act[t].kept /\ port' = port /\ stray' = stray
        /\ Releases({"file_lf"}) /\ Returns(t) BY DEF PrintfEnd
  <1>2. Writing(act[t]) /\ {"file_lf"} \in SUBSET Locks BY <1>1 DEF Writing, Locks
  <1>3. \A l \in Locks : l \in {"file_lf"} <=> Holds(t, l) /\ l # "sysprn_lf" BY <1>1, <1>2 DEF Holds, Locks
  <1> QED BY <1>1, <1>2, <1>3, MessageEnds

LEMMA LockedEndKeeps ==
  ASSUME IInv, NEW t \in Threads, LockedEnd(t)
  PROVE IInv'
  <1> DEFINE R == {IF act[t].way = "fprintf" THEN "file_lf" ELSE "str_lf"}
  <1>1. /\ act[t].pc = "printed" /\ act[t].way \in {"fprintf", "snprintf"} /\ todo' = todo /\ syserr' = syserr
        /\ log' = log /\ sysprn' = sysprn /\ filelf' = filelf /\ port' = port /\ stray' = stray
        /\ Releases(R) /\ Returns(t) BY DEF LockedEnd
  <1>2. Writing(act[t]) /\ R \in SUBSET Locks BY <1>1 DEF Writing, Locks
  <1>3. \A l \in Locks : l \in R <=> Holds(t, l) /\ l # "sysprn_lf" BY <1>1, <1>2 DEF Holds, Locks
  <1> HIDE DEF R
  <1> QED BY <1>1, <1>2, <1>3, MessageEnds

-----------------------------------------------------------------------------
(* -------- the actions: messages begin -------- *)

LEMMA MessageBegins ==
  ASSUME IInv, NEW t \in Threads, NEW op, op \notin {"sysprn_open", "sysprn_close"},
         NEW way, NEW pc, NEW p, NEW how, NEW kept, Starting(t, op, way, pc, p, how, kept),
         syserr' = syserr, log' = log, sysprn' = sysprn,
         /\ holder' \in [Locks -> Threads \cup {Nil}]
         /\ \A u \in Threads, l \in Locks : holder'[l] = u <=> Holds(u, l)',
         holder'["sysprn_lf"] = holder["sysprn_lf"], way = "sysprn" => op = "sysprn",
         Texts', \A q \in SO : port'[q].open = port[q].open,
         Aimed(t, act'[t]), FileAim', StrayHasCause'
  PROVE IInv'
  <1>1. Typed /\ Locking /\ Open /\ Aims BY DEF IInv
  <1>2. /\ Moves(t) /\ Heads(t, op) /\ act[t].pc \notin Changes /\ act'[t].pc \notin Changes
        /\ act'[t].pc # "lock_sysprn" /\ InHand(t)' \subseteq Names(t) /\ act'[t].way = way
    BY DEF Starting
  <1>3. Typed' BY <1>1, <1>2, TypedKept
  <1>4. Locking'
    <2>1. act'[t].way = "sysprn" => Inside(todo'[t], 1) BY <1>1, <1>2, BeginsInSections
    <2>2. sysprn'.opened <=> holder'["sysprn_lf"] # Nil BY <1>1 DEF Locking
    <2> QED BY <1>1, <1>2, <2>1, <2>2, LockingStep
  <1>5. Open' BY <1>1, <1>2, OpenKept
  <1>6. Aims'
    <2>1. ErrAim' /\ LogAim' /\ SysAim' /\ StrAim' BY <1>1, <1>2, AimsMost
    <2> QED BY <2>1 DEF Aims
  <1> QED BY <1>3, <1>4, <1>5, <1>6 DEF IInv

\* Which locks a thread has whose new message waits for none, or has one.
LEMMA StartingHolds ==
  ASSUME Locking, NEW t \in Threads, NEW op, op \notin {"sysprn_open", "sysprn_close"},
         NEW way, NEW pc, NEW p, NEW how, NEW kept, Starting(t, op, way, pc, p, how, kept)
  PROVE \A l \in Locks : Holds(t, l)' <=>
          \/ Holds(t, l)
          \/ pc = "rounds" /\ \/ l = "lf_syserr" /\ way = "err_log"
                              \/ l \in {"log", "log_lf"} /\ way = "uls_log"
                              \/ l = "file_lf" /\ way \in {"printf", "fprintf"}
                              \/ l = "str_lf" /\ way = "snprintf"
          \/ pc = "lock_log_lf" /\ l = "log" /\ way = "uls_log"
  <1>1. /\ Heads(t, op) /\ ~Writing(act[t]) /\ ~Logging(act[t]) /\ act'[t].pc = pc /\ act'[t].way = way
        /\ act[t].pc # "lock_sysprn" /\ act'[t].pc # "lock_sysprn"
        /\ pc \in {"lock_err", "lock_log_lf", "rounds"} BY DEF Starting
  <1>2. Inside(todo[t], 1) <=> Inside(todo'[t], 1) BY <1>1, BeginsInSections
  <1>3. /\ Writing(act'[t]) <=> pc = "rounds"
        /\ Logging(act'[t]) <=> pc \in {"rounds", "lock_log_lf"} BY <1>1 DEF Writing, Logging
  <1> QED BY <1>1, <1>2, <1>3 DEF Holds, Locks

LEMMA ErrVlogKeeps ==
  ASSUME IInv, NEW t \in Threads, err_vlog(t)
  PROVE IInv'
  <1>1. Typed /\ Locking /\ Texts /\ Open /\ Aims /\ StrayHasCause BY DEF IInv
  <1>2. /\ Calls(t, "err_log") /\ Begun(t) /\ syserr' = syserr /\ log' = log /\ sysprn' = sysprn
        /\ filelf' = filelf /\ port' = port /\ stray' = stray /\ holder' = holder
        /\ Does(t, [Message(t, "err_log", syserr.fp, syserr.puts, "lock_err") EXCEPT !.kept = syserr.puts])
    BY DEF err_vlog
  <1>3. Does(t, Fresh(t, "err_log", syserr.fp, syserr.puts, "lock_err", <<>>, syserr.puts))
    BY <1>2, KeepingIs
  <1>4. Starting(t, "err_log", "err_log", "lock_err", syserr.fp, syserr.puts, syserr.puts)
    BY <1>1, <1>2, <1>3, Started DEF Ways
  <1>5. /\ Moves(t) /\ Proceeds(t) /\ Speaking(act'[t]) /\ act'[t].pc = "lock_err" /\ act'[t].way = "err_log"
        /\ act'[t].port = syserr.fp /\ act'[t].kept = syserr.puts /\ ~Speaking(act[t])
        /\ act'[t].changes = (IF Changing("change_err") THEN -1 ELSE syserr.changes)
        /\ act'[t].changes <= syserr.changes /\ act[t].pc \notin Changes /\ act'[t].pc \notin Changes
    BY <1>4 DEF Starting
  <1>6. \A l \in Locks : Holds(t, l)' <=> Holds(t, l) BY <1>1, <1>4, StartingHolds
  <1>7. /\ holder' \in [Locks -> Threads \cup {Nil}]
        /\ \A u \in Threads, l \in Locks : holder'[l] = u <=> Holds(u, l)'
    BY <1>1, <1>2, <1>5, <1>6, LocksKept
  <1>8. Texts' BY <1>1, <1>2, <1>5, TextsUnchanged
  <1>9. Aimed(t, act'[t])
    <2>1. ErrAimed(act'[t])
      <3>1. act'[t].changes = syserr.changes => ~Changing("change_err") BY <1>1, <1>5 DEF Typed
      <3>2. ~Writing(act'[t]) BY <1>5 DEF Writing
      <3> QED BY <1>1, <1>5, <3>1, <3>2 DEF Aims, ErrAim, ErrAimed
    <2> QED BY <1>5, <2>1 DEF Aimed, LogAimed, SysAimed, FileAimed, StrAimed, OfPrintf
  <1>10. FileAim'
    <2>1. ~OfPrintf(act[t]) BY <1>5 DEF OfPrintf
    <2> QED BY <1>1, <1>2, <1>5, <1>9, <2>1, FileAimKept DEF Aims, Aimed
  <1>11. StrayHasCause' BY <1>1, <1>2 DEF StrayHasCause
  <1> QED BY <1>2, <1>4, <1>7, <1>8, <1>9, <1>10, <1>11, MessageBegins

LEMMA UlsVlogKeeps ==
  ASSUME IInv, NEW t \in Threads, uls_vlog(t)
  PROVE IInv'
  <1>1. Typed /\ Locking /\ Texts /\ Open /\ Aims /\ StrayHasCause BY DEF IInv
  <1> DEFINE a == Message(t, "uls_log", log.port, log.puts, "lock_log_lf")
             texts == IF Core.long THEN <<>> ELSE <<Core.coord>>
             did == Given(a, log.puts, texts).did
  <1>2. /\ Calls(t, "uls_log") /\ Begun(t) /\ syserr' = syserr /\ log' = log /\ sysprn' = sysprn
        /\ filelf' = filelf /\ Locked(t, "log") /\ Does(t, a)
        /\ port' = Stored(t, a, did) /\ stray' = Strayed(a, log.puts)
    BY DEF uls_vlog, Put
  <1>3. Does(t, Fresh(t, "uls_log", log.port, log.puts, "lock_log_lf", <<>>, Nil))
    BY <1>2 DEF Fresh, Message
  <1>4. Starting(t, "uls_log", "uls_log", "lock_log_lf", log.port, log.puts, Nil)
    BY <1>1, <1>2, <1>3, Started DEF Ways
  <1>5. /\ Moves(t) /\ Proceeds(t) /\ Speaking(act'[t]) /\ act'[t].pc = "lock_log_lf"
        /\ act'[t].way = "uls_log" /\ act'[t].port = log.port /\ ~Speaking(act[t])
        /\ act'[t].left = Len(todo[t]) /\ Heads(t, "uls_log")
        /\ act'[t].changes <= syserr.changes /\ act[t].pc \notin Changes /\ act'[t].pc \notin Changes
    BY <1>4 DEF Starting
  <1>6. \A l \in Locks : Holds(t, l)' <=> (l = "log" \/ Holds(t, l)) BY <1>1, <1>4, StartingHolds
  <1>7. /\ holder' \in [Locks -> Threads \cup {Nil}]
        /\ \A u \in Threads, l \in Locks : holder'[l] = u <=> Holds(u, l)'
    <2>1. "log" \in Locks BY DEF Locks
    <2> QED BY <1>1, <1>2, <1>5, <1>6, <2>1, LockTaken
  <1>8. holder'["sysprn_lf"] = holder["sysprn_lf"] BY <1>1, <1>2 DEF Locked, Typed, Locks
  <1>9. Texts' /\ \A q \in SO : port'[q].open = port[q].open
    <2>1. Free(t, LockOf("uls_log")) BY <1>2 DEF Locked, LockOf
    <2>2. Adds(t, Len(todo[t]), "uls_log") BY <1>1, <1>5, <2>1, AddsFirst
    <2>3. a.left = Len(todo[t]) /\ a.way = "uls_log" BY DEF Message
    <2>4. Adds(t, a.left, a.way) BY <2>2, <2>3
    <2> HIDE DEF a, did
    <2>5. Texts' /\ \A p \in Ports : port'[p].open = port[p].open BY <1>1, <1>2, <1>5, <2>4, TextsAdded
    <2> QED BY <2>5 DEF SO, Ports
  <1>10. Aimed(t, act'[t])
    <2>1. ~Writing(act'[t]) BY <1>5 DEF Writing
    <2> QED BY <1>5, <2>1 DEF Aimed, ErrAimed, LogAimed, SysAimed, FileAimed, StrAimed, OfPrintf
  <1>11. FileAim'
    <2>1. ~OfPrintf(act[t]) BY <1>5 DEF OfPrintf
    <2> QED BY <1>1, <1>2, <1>5, <1>10, <2>1, FileAimKept DEF Aims, Aimed
  <1>12. StrayHasCause'
    <2>1. a.port = log.port BY DEF Message
    <2>2. Explained(a, log.puts) BY <1>1, <2>1, LogFits DEF Explained
    <2> HIDE DEF a
    <2>3. stray' \in {stray, Strayed(a, log.puts)} BY <1>2
    <2> QED BY <1>1, <2>2, <2>3, StrayStep
  <1> QED BY <1>2, <1>4, <1>7, <1>8, <1>9, <1>10, <1>11, <1>12, MessageBegins

LEMMA SysprnTabsKeeps ==
  ASSUME IInv, NEW t \in Threads, uls_sysprn_tabs(t)
  PROVE IInv'
  <1>1. Typed /\ Locking /\ Texts /\ Open /\ Aims /\ StrayHasCause BY DEF IInv
  <1> DEFINE a == Message(t, "sysprn", sysprn.xdat, sysprn.puts, "rounds")
             tabs == Tabs(Head(todo[t]).tabs, sysprn.tab)
             said == IF tabs = <<>> THEN <<>> ELSE Say(<<>>, "text", FlattenSeq(tabs))
             did == Given(a, sysprn.puts, tabs).did
  <1>2. /\ Calls(t, "sysprn") /\ Begun(t) /\ syserr' = syserr /\ log' = log /\ sysprn' = sysprn
        /\ filelf' = filelf /\ holder' = holder /\ Does(t, [a EXCEPT !.said = said])
        /\ port' = Stored(t, a, did) /\ stray' = Strayed(a, sysprn.puts)
    BY DEF uls_sysprn_tabs, Put
  <1>3. Does(t, Fresh(t, "sysprn", sysprn.xdat, sysprn.puts, "rounds", said, Nil))
    <2> HIDE DEF said
    <2>1. [Message(t, "sysprn", sysprn.xdat, sysprn.puts, "rounds") EXCEPT !.said = said]
            = Fresh(t, "sysprn", sysprn.xdat, sysprn.puts, "rounds", said, Nil) BY SayingIs
    <2> QED BY <1>2, <2>1
  <1>4. Starting(t, "sysprn", "sysprn", "rounds", sysprn.xdat, sysprn.puts, Nil)
    <2> HIDE DEF said
    <2> QED BY <1>1, <1>2, <1>3, Started DEF Ways
  <1>5. /\ Moves(t) /\ Proceeds(t) /\ Speaking(act'[t]) /\ act'[t].pc = "rounds"
        /\ act'[t].way = "sysprn" /\ act'[t].port = sysprn.xdat /\ act'[t].puts = sysprn.puts
        /\ ~Speaking(act[t]) /\ act[t].pc # "lock_sysprn"
        /\ act'[t].left = Len(todo[t]) /\ Heads(t, "sysprn")
        /\ act'[t].changes <= syserr.changes /\ act[t].pc \notin Changes /\ act'[t].pc \notin Changes
    BY <1>4 DEF Starting
  <1>6. \A l \in Locks : Holds(t, l)' <=> Holds(t, l) BY <1>1, <1>4, StartingHolds
  <1>7. /\ holder' \in [Locks -> Threads \cup {Nil}]
        /\ \A u \in Threads, l \in Locks : holder'[l] = u <=> Holds(u, l)'
    BY <1>1, <1>2, <1>5, <1>6, LocksKept
  <1>8. Texts' /\ \A q \in SO : port'[q].open = port[q].open
    <2>1. Inside(todo[t], 1) BY <1>1, <1>5, BeginsInSections
    <2>2. holder["sysprn_lf"] = t BY <1>1, <1>5, <2>1 DEF Locking, Holds, Locks
    <2>3. Free(t, LockOf("sysprn")) BY <2>2 DEF Free, LockOf
    <2>4. Adds(t, Len(todo[t]), "sysprn") BY <1>1, <1>5, <2>3, AddsFirst
    <2>5. a.left = Len(todo[t]) /\ a.way = "sysprn" BY DEF Message
    <2>6. Adds(t, a.left, a.way) BY <2>4, <2>5
    <2> HIDE DEF a, did
    <2>7. Texts' /\ \A p \in Ports : port'[p].open = port[p].open BY <1>1, <1>2, <1>5, <2>6, TextsAdded
    <2> QED BY <2>7 DEF SO, Ports
  <1>9. Aimed(t, act'[t])
    BY <1>5 DEF Aimed, ErrAimed, LogAimed, SysAimed, FileAimed, StrAimed, OfPrintf
  <1>10. FileAim'
    <2>1. ~OfPrintf(act[t]) BY <1>5 DEF OfPrintf
    <2> QED BY <1>1, <1>2, <1>5, <1>9, <2>1, FileAimKept DEF Aims, Aimed
  <1>11. StrayHasCause'
    <2>1. a.port = sysprn.xdat BY DEF Message
    <2>2. Fits(sysprn.puts, sysprn.xdat) BY <1>1, InUseFits DEF Aims, SysAim, InUse
    <2>3. Explained(a, sysprn.puts) BY <2>1, <2>2 DEF Explained
    <2> HIDE DEF a
    <2>4. stray' \in {stray, Strayed(a, sysprn.puts)} BY <1>2
    <2> QED BY <1>1, <2>3, <2>4, StrayStep
  <1> QED BY <1>2, <1>4, <1>7, <1>8, <1>9, <1>10, <1>11, MessageBegins

\* While no one has the lock of the file's context, its puts is its own.
LEMMA FileFree ==
  ASSUME Typed, Locking, Aims, NEW t \in Threads, ~Speaking(act[t]), Free(t, "file_lf")
  PROVE filelf = "puts_file"
  <1> SUFFICES ASSUME NEW u \in Threads, OfPrintf(act[u]) PROVE FALSE BY DEF Aims, FileAim
  <1>1. Speaking(act[u]) /\ act[u].way = "printf" BY DEF OfPrintf
  <1>2. act[u].pc # "lock_err" BY <1>1, SpeakingIs DEF IsMessage
  <1>3. holder["file_lf"] = u
    <2>1. holder[LockOf(act[u].way)] = u BY <1>1, <1>2, WritersLock
    <2> QED BY <1>1, <2>1 DEF LockOf
  <1> QED BY <1>1, <1>3, PrintingConstants DEF Free, Nil

\* A file that is named by a call is a stream.
LEMMA NamedStream ==
  ASSUME NEW t \in Threads, NEW op \in {"printf", "fprintf"}, Heads(t, op)
  PROVE op \in Naming /\ Head(todo[t]).port \in Streams
  <1>1. Head(todo[t]) \in Called /\ Head(todo[t]).op = op BY DEF Heads
  <1>2. op \in Naming BY DEF Naming
  <1>3. Suits(PutsOf(Head(todo[t])), Head(todo[t]).port) BY <1>1, <1>2, Orderly DEF OrderlyCall
  <1>4. PutsOf(Head(todo[t])) = "puts_file" BY <1>1 DEF PutsOf
  <1> QED BY <1>2, <1>3, <1>4 DEF Suits

LEMMA VprintfKeeps ==
  ASSUME IInv, NEW t \in Threads, uls_vprintf(t)
  PROVE IInv'
  <1>1. Typed /\ Locking /\ Texts /\ Open /\ Aims /\ StrayHasCause BY DEF IInv
  <1> DEFINE p == Head(todo[t]).port
  <1>2. /\ Calls(t, "printf") /\ Begun(t) /\ Locked(t, "file_lf") /\ filelf' = "puts_cons"
        /\ syserr' = syserr /\ log' = log /\ sysprn' = sysprn /\ port' = port /\ stray' = stray
        /\ Does(t, [Message(t, "printf", p, "puts_cons", "rounds") EXCEPT !.kept = filelf])
    BY DEF uls_vprintf
  <1>3. Does(t, Fresh(t, "printf", p, "puts_cons", "rounds", <<>>, filelf)) BY <1>2, KeepingIs
  <1>4. Starting(t, "printf", "printf", "rounds", p, "puts_cons", filelf)
    BY <1>1, <1>2, <1>3, Started DEF Ways, Naming
  <1>5. /\ Moves(t) /\ Proceeds(t) /\ Speaking(act'[t]) /\ act'[t].pc = "rounds"
        /\ act'[t].way = "printf" /\ act'[t].port = p /\ act'[t].puts = "puts_cons" /\ act'[t].kept = filelf
        /\ ~Speaking(act[t]) /\ Heads(t, "printf")
        /\ act'[t].changes <= syserr.changes /\ act[t].pc \notin Changes /\ act'[t].pc \notin Changes
    BY <1>4 DEF Starting
  <1>6. \A l \in Locks : Holds(t, l)' <=> (l = "file_lf" \/ Holds(t, l)) BY <1>1, <1>4, StartingHolds
  <1>7. /\ holder' \in [Locks -> Threads \cup {Nil}]
        /\ \A u \in Threads, l \in Locks : holder'[l] = u <=> Holds(u, l)'
    <2>1. "file_lf" \in Locks BY DEF Locks
    <2> QED BY <1>1, <1>2, <1>5, <1>6, <2>1, LockTaken
  <1>8. holder'["sysprn_lf"] = holder["sysprn_lf"] BY <1>1, <1>2 DEF Locked, Typed, Locks
  <1>9. Texts' BY <1>1, <1>2, <1>5, TextsUnchanged
  <1>10. filelf = "puts_file" BY <1>1, <1>2, <1>5, FileFree DEF Locked
  <1>11. p \in Streams BY <1>5, NamedStream
  <1>12. Aimed(t, act'[t])
    BY <1>5, <1>10, <1>11 DEF Aimed, ErrAimed, LogAimed, SysAimed, FileAimed, StrAimed, OfPrintf
  <1>13. FileAim'
    <2>1. \A u \in Threads : FileAimed(act[u])'
      <3> SUFFICES ASSUME NEW u \in Threads PROVE FileAimed(act[u])' OBVIOUS
      <3>1. CASE u = t BY <1>12, <3>1 DEF Aimed, FileAimed, OfPrintf, Speaking
      <3>2. CASE u # t BY <1>1, <1>5, <3>2 DEF Moves, Aims, FileAim, FileAimed, OfPrintf, Speaking
      <3> QED BY <3>1, <3>2
    <2>2. OfPrintf(act[t])' BY <1>5 DEF OfPrintf, Speaking
    <2> QED BY <2>1, <2>2 DEF FileAim
  <1>14. StrayHasCause' BY <1>1, <1>2 DEF StrayHasCause
  <1> QED BY <1>2, <1>4, <1>7, <1>8, <1>9, <1>12, <1>13, <1>14, MessageBegins

LEMMA VfprintfKeeps ==
  ASSUME IInv, NEW t \in Threads, uls_vfprintf(t)
  PROVE IInv'
  <1>1. Typed /\ Locking /\ Texts /\ Open /\ Aims /\ StrayHasCause BY DEF IInv
  <1> DEFINE p == Head(todo[t]).port
  <1>2. /\ Calls(t, "fprintf") /\ Begun(t) /\ Locked(t, "file_lf") /\ filelf' = filelf
        /\ syserr' = syserr /\ log' = log /\ sysprn' = sysprn /\ port' = port /\ stray' = stray
        /\ Does(t, Message(t, "fprintf", p, filelf, "rounds"))
    BY DEF uls_vfprintf
  <1>3. Does(t, Fresh(t, "fprintf", p, filelf, "rounds", <<>>, Nil)) BY <1>2, FreshIs
  <1>4. Starting(t, "fprintf", "fprintf", "rounds", p, filelf, Nil)
    BY <1>1, <1>2, <1>3, Started DEF Ways, Naming
  <1>5. /\ Moves(t) /\ Proceeds(t) /\ Speaking(act'[t]) /\ act'[t].pc = "rounds"
        /\ act'[t].way = "fprintf" /\ act'[t].port = p /\ act'[t].puts = filelf
        /\ ~Speaking(act[t]) /\ Heads(t, "fprintf")
        /\ act'[t].changes <= syserr.changes /\ act[t].pc \notin Changes /\ act'[t].pc \notin Changes
    BY <1>4 DEF Starting
  <1>6. \A l \in Locks : Holds(t, l)' <=> (l = "file_lf" \/ Holds(t, l)) BY <1>1, <1>4, StartingHolds
  <1>7. /\ holder' \in [Locks -> Threads \cup {Nil}]
        /\ \A u \in Threads, l \in Locks : holder'[l] = u <=> Holds(u, l)'
    <2>1. "file_lf" \in Locks BY DEF Locks
    <2> QED BY <1>1, <1>2, <1>5, <1>6, <2>1, LockTaken
  <1>8. holder'["sysprn_lf"] = holder["sysprn_lf"] BY <1>1, <1>2 DEF Locked, Typed, Locks
  <1>9. Texts' BY <1>1, <1>2, <1>5, TextsUnchanged
  <1>10. filelf = "puts_file" BY <1>1, <1>2, <1>5, FileFree DEF Locked
  <1>11. p \in Streams BY <1>5, NamedStream
  <1>12. Aimed(t, act'[t])
    BY <1>5, <1>10, <1>11 DEF Aimed, ErrAimed, LogAimed, SysAimed, FileAimed, StrAimed, OfPrintf
  <1>13. FileAim'
    <2>1. ~OfPrintf(act[t]) BY <1>5 DEF OfPrintf
    <2> QED BY <1>1, <1>2, <1>5, <1>12, <2>1, FileAimKept DEF Aims, Aimed
  <1>14. StrayHasCause' BY <1>1, <1>2 DEF StrayHasCause
  <1> QED BY <1>2, <1>4, <1>7, <1>8, <1>9, <1>12, <1>13, <1>14, MessageBegins

\* A buffer is made empty; it is neither a stream nor another port.
LEMMA BufferCleared ==
  ASSUME Texts, NEW t \in Threads, NEW room,
         port' = [port EXCEPT ![t] = [got |-> <<>>, room |-> room, open |-> TRUE]]
  PROVE /\ port' = [p \in Ports |-> port'[p]] /\ \A p \in Ports : IsPort(port'[p])
        /\ \A p \in SO : port'[p].got = port[p].got /\ port'[p].open = port[p].open
  <1>1. port = [p \in Ports |-> port[p]] /\ \A p \in Ports : IsPort(port[p]) BY DEF Texts
  <1> DEFINE e == <<>>  r == [got |-> e, room |-> room, open |-> TRUE]
  <1>2. port' = [p \in Ports |-> IF p = t THEN r ELSE port[p]] BY <1>1
  <1>3. IsPort(r)
    <2>1. IsSequence(e)
      <3>1. Len(e) = 0 /\ e = [i \in 1 .. 0 |-> e[i]] BY EmptySeq
      <3> QED BY <3>1 DEF IsSequence
    <2>2. DOMAIN e = {} OBVIOUS
    <2> HIDE DEF e
    <2>3. r.got = e /\ r = [got |-> r.got, open |-> r.open, room |-> r.room] OBVIOUS
    <2> HIDE DEF r
    <2> QED BY <2>1, <2>2, <2>3 DEF IsPort
  <1> HIDE DEF r
  <1>4. \A p \in Ports : IsPort(port'[p])
    <2> SUFFICES ASSUME NEW p \in Ports PROVE IsPort(port'[p]) OBVIOUS
    <2>1. CASE p = t BY <1>2, <1>3, <2>1
    <2>2. CASE p # t BY <1>1, <1>2, <2>2
    <2> QED BY <2>1, <2>2
  <1>5. \A p \in SO : p \in Ports /\ p # t BY PrintingConstants DEF SO, Ports
  <1>6. \A p \in SO : port'[p] = port[p] BY <1>2, <1>5
  <1>7. port' = [p \in Ports |-> port'[p]] BY <1>2
  <1> QED BY <1>4, <1>6, <1>7

\* A call of one step that changes no lock and no aim.
LEMMA CallKeeps ==
  ASSUME IInv, NEW t \in Threads, NEW op, op \notin {"sysprn_open", "sysprn_close"},
         Calls(t, op), Begun(t), act' = act, holder' = holder,
         syserr' = syserr, log' = log, filelf' = filelf, stray' = stray,
         sysprn' = [opened |-> sysprn.opened, xdat |-> sysprn.xdat, tab |-> sysprn'.tab, puts |-> sysprn.puts],
         Texts', Open' \/ (\A q \in SO : port'[q].open = port[q].open)
  PROVE IInv'
  <1>1. Typed /\ Locking /\ Texts /\ Open /\ Aims /\ StrayHasCause BY DEF IInv
  <1>2. /\ Moves(t) /\ Proceeds(t) /\ act'[t] = Idle /\ act[t] = Idle /\ Heads(t, op)
        /\ act'[t].pc \notin Changes
        /\ ~Speaking(act'[t]) /\ ~Writing(act'[t]) /\ ~Logging(act'[t]) /\ act'[t].pc # "lock_sysprn"
        /\ InHand(t)' \subseteq Names(t) BY <1>1, AtOnce
  <1>3. \A l \in Locks : Holds(t, l)' <=> Holds(t, l)
    <2>1. Inside(todo[t], 1) <=> Inside(todo'[t], 1) BY <1>1, <1>2, BeginsInSections
    <2> QED BY <1>2, <2>1 DEF Holds
  <1>4. /\ holder' \in [Locks -> Threads \cup {Nil}]
        /\ \A u \in Threads, l \in Locks : holder'[l] = u <=> Holds(u, l)'
    BY <1>1, <1>2, <1>3, LocksKept
  <1>5. /\ sysprn'.opened = sysprn.opened /\ sysprn'.xdat = sysprn.xdat /\ sysprn'.puts = sysprn.puts
        /\ sysprn' = [opened |-> sysprn'.opened, xdat |-> sysprn'.xdat, tab |-> sysprn'.tab,
                      puts |-> sysprn'.puts]
    <2> DEFINE b == sysprn'.tab
    <2>1. sysprn' = [opened |-> sysprn.opened, xdat |-> sysprn.xdat, tab |-> b, puts |-> sysprn.puts]
      OBVIOUS
    <2> HIDE DEF b
    <2>2. sysprn'.opened = sysprn.opened /\ sysprn'.xdat = sysprn.xdat /\ sysprn'.puts = sysprn.puts
      BY <2>1
    <2> QED BY <2>2
  <1>6. Typed'
    <2>1. /\ syserr' = [fp |-> syserr'.fp, puts |-> syserr'.puts, changes |-> syserr'.changes,
                        crossed |-> syserr'.crossed]
          /\ syserr'.changes \in Nat /\ syserr'.crossed \in BOOLEAN BY <1>1 DEF Typed
    <2>2. /\ log' = [port |-> log'.port, puts |-> log'.puts, lf |-> log'.lf, crossed |-> log'.crossed]
          /\ log'.crossed \in BOOLEAN BY <1>1 DEF Typed
    <2>3. sysprn'.opened \in BOOLEAN BY <1>1, <1>5 DEF Typed
    <2> QED BY <1>1, <1>2, <1>4, <1>5, <2>1, <2>2, <2>3, TypedStep
  <1>7. Locking'
    <2>1. sysprn'.opened <=> holder'["sysprn_lf"] # Nil BY <1>1, <1>5 DEF Locking
    <2> QED BY <1>1, <1>2, <1>4, <2>1, LockingStep
  <1>8. Open' BY <1>1, <1>2, <1>5, OpenKept
  <1>9. Aims'
    <2>1. Aimed(t, act'[t]) BY <1>2, SilentAimed
    <2>2. ~OfPrintf(act[t]) /\ act[t].pc \notin Changes BY <1>2 DEF OfPrintf
    <2> QED BY <1>1, <1>2, <1>5, <2>1, <2>2, AimsKept
  <1>10. StrayHasCause' BY <1>1 DEF StrayHasCause
  <1> QED BY <1>6, <1>7, <1>8, <1>9, <1>10 DEF IInv

\* The console is not changed.
LEMMA ConsoleKept ==
  ASSUME Typed, sysprn' = sysprn
  PROVE sysprn' = [opened |-> sysprn.opened, xdat |-> sysprn.xdat, tab |-> sysprn'.tab, puts |-> sysprn.puts]
  BY DEF Typed

LEMMA VsnprintfKeeps ==
  ASSUME IInv, NEW t \in Threads, uls_vsnprintf(t)
  PROVE IInv'
  <1>1. Typed /\ Locking /\ Texts /\ Open /\ Aims /\ StrayHasCause BY DEF IInv
  <1> DEFINE room == Max({0, Head(todo[t]).size - 1})
  <1>2. /\ Calls(t, "snprintf") /\ Begun(t) /\ filelf' = filelf
        /\ syserr' = syserr /\ log' = log /\ sysprn' = sysprn /\ stray' = stray
        /\ port' = [port EXCEPT ![t] = [got |-> <<>>, room |-> room, open |-> TRUE]]
        /\ \/ act' = act /\ holder' = holder
           \/ Locked(t, "str_lf") /\ Does(t, Message(t, "snprintf", t, "puts_str", "rounds"))
    BY DEF uls_vsnprintf
  <1> HIDE DEF room
  <1>3. /\ port' = [p \in Ports |-> port'[p]] /\ \A p \in Ports : IsPort(port'[p])
        /\ \A p \in SO : port'[p].got = port[p].got /\ port'[p].open = port[p].open
    BY <1>1, <1>2, BufferCleared
  <1>4. CASE act' = act /\ holder' = holder
    <2>1. Moves(t) /\ Proceeds(t) BY <1>1, <1>2, <1>4, AtOnce
    <2>2. Texts' BY <1>1, <1>3, <2>1, TextsKept
    <2>3. sysprn' = [opened |-> sysprn.opened, xdat |-> sysprn.xdat, tab |-> sysprn'.tab, puts |-> sysprn.puts]
      BY <1>1, <1>2, ConsoleKept
    <2>4. \A q \in SO : port'[q].open = port[q].open BY <1>3
    <2> QED BY <1>2, <1>4, <2>2, <2>3, <2>4, CallKeeps
  <1>5. CASE Locked(t, "str_lf") /\ Does(t, Message(t, "snprintf", t, "puts_str", "rounds"))
    <2>1. Does(t, Fresh(t, "snprintf", t, "puts_str", "rounds", <<>>, Nil)) BY <1>5, FreshIs
    <2>2. Starting(t, "snprintf", "snprintf", "rounds", t, "puts_str", Nil)
      BY <1>1, <1>2, <2>1, Started DEF Ways
    <2>3. /\ Moves(t) /\ Proceeds(t) /\ Speaking(act'[t]) /\ act'[t].pc = "rounds"
          /\ act'[t].way = "snprintf" /\ act'[t].port = t /\ act'[t].puts = "puts_str"
          /\ ~Speaking(act[t])
          /\ act'[t].changes <= syserr.changes /\ act[t].pc \notin Changes /\ act'[t].pc \notin Changes
      BY <2>2 DEF Starting
    <2>4. \A l \in Locks : Holds(t, l)' <=> (l = "str_lf" \/ Holds(t, l)) BY <1>1, <2>2, StartingHolds
    <2>5. /\ holder' \in [Locks -> Threads \cup {Nil}]
          /\ \A u \in Threads, l \in Locks : holder'[l] = u <=> Holds(u, l)'
      <3>1. "str_lf" \in Locks BY DEF Locks
      <3> QED BY <1>1, <1>5, <2>3, <2>4, <3>1, LockTaken
    <2>6. holder'["sysprn_lf"] = holder["sysprn_lf"] BY <1>1, <1>5 DEF Locked, Typed, Locks
    <2>7. Texts' BY <1>1, <1>3, <2>3, TextsKept
    <2>8. Aimed(t, act'[t])
      BY <2>3 DEF Aimed, ErrAimed, LogAimed, SysAimed, FileAimed, StrAimed, OfPrintf
    <2>9. FileAim'
      <3>1. ~OfPrintf(act[t]) BY <2>3 DEF OfPrintf
      <3> QED BY <1>1, <1>2, <2>3, <2>8, <3>1, FileAimKept DEF Aims, Aimed
    <2>10. StrayHasCause' BY <1>1, <1>2 DEF StrayHasCause
    <2>11. \A q \in SO : port'[q].open = port[q].open BY <1>3
    <2> QED BY <1>2, <2>2, <2>5, <2>6, <2>7, <2>8, <2>9, <2>10, <2>11, MessageBegins
  <1> QED BY <1>2, <1>4, <1>5

-----------------------------------------------------------------------------
(* -------- the actions: the rest -------- *)

LEMMA RegisterKeeps ==
  ASSUME IInv, NEW t \in Threads, Register(t)
  PROVE IInv'
  <1>1. Typed /\ Texts BY DEF IInv
  <1>2. /\ Calls(t, "register") /\ Begun(t) /\ filelf' = filelf /\ act' = act /\ holder' = holder
        /\ syserr' = syserr /\ log' = log /\ sysprn' = sysprn /\ stray' = stray /\ port' = port
    BY DEF Register
  <1>3. Moves(t) /\ Proceeds(t) BY <1>1, <1>2, AtOnce
  <1>4. Texts' BY <1>1, <1>2, <1>3, TextsUnchanged
  <1>5. sysprn' = [opened |-> sysprn.opened, xdat |-> sysprn.xdat, tab |-> sysprn'.tab, puts |-> sysprn.puts]
    BY <1>1, <1>2, ConsoleKept
  <1>6. \A q \in SO : port'[q].open = port[q].open BY <1>2
  <1> QED BY <1>2, <1>4, <1>5, <1>6, CallKeeps

LEMMA SetTabsizKeeps ==
  ASSUME IInv, NEW t \in Threads, uls_sysprn_set_tabsiz(t)
  PROVE IInv'
  <1>1. Typed /\ Texts BY DEF IInv
  <1> DEFINE tab == Tab(Head(todo[t]).n)
  <1>2. /\ Calls(t, "sysprn_set_tabsiz") /\ Begun(t) /\ filelf' = filelf /\ act' = act /\ holder' = holder
        /\ syserr' = syserr /\ log' = log /\ stray' = stray /\ port' = port
        /\ sysprn' = IF sysprn.opened THEN [sysprn EXCEPT !.tab = tab] ELSE sysprn
    BY DEF uls_sysprn_set_tabsiz
  <1> HIDE DEF tab
  <1>3. Moves(t) /\ Proceeds(t) BY <1>1, <1>2, AtOnce
  <1>4. Texts' BY <1>1, <1>2, <1>3, TextsUnchanged
  <1>5. sysprn' = [opened |-> sysprn.opened, xdat |-> sysprn.xdat, tab |-> sysprn'.tab, puts |-> sysprn.puts]
    <2>1. CASE sysprn' = sysprn BY <1>1, <2>1, ConsoleKept
    <2>2. CASE sysprn' = [sysprn EXCEPT !.tab = tab]
      <3> DEFINE o == sysprn.opened  x == sysprn.xdat  u == sysprn.puts  b == sysprn.tab
      <3>1. sysprn = [opened |-> o, xdat |-> x, tab |-> b, puts |-> u] BY <1>1 DEF Typed
      <3> HIDE DEF o, x, u, b
      <3>2. sysprn' = [opened |-> o, xdat |-> x, tab |-> tab, puts |-> u] BY <2>2, <3>1
      <3>3. sysprn'.tab = tab BY <3>2
      <3> QED BY <3>2, <3>3 DEF o, x, u
    <2> QED BY <1>2, <2>1, <2>2
  <1>6. \A q \in SO : port'[q].open = port[q].open BY <1>2
  <1> QED BY <1>2, <1>4, <1>5, <1>6, CallKeeps

\* The steps that are neither about messages nor change what they are aimed at.
LEMMA QuietAims ==
  ASSUME Aims, NEW t \in Threads, Moves(t), syserr' = syserr, log' = log, filelf' = filelf,
         ~Speaking(act[t]), ~Speaking(act'[t]), act[t].pc \notin Changes, act'[t].pc \notin Changes
  PROVE ErrAim' /\ LogAim' /\ FileAim' /\ StrAim'
  <1>1. act[t].pc # "change_err" /\ act'[t].pc # "change_err" /\ act[t].pc # "change_log"
        /\ act'[t].pc # "change_log" BY DEF Changes
  <1>2. Aimed(t, act'[t]) BY SilentAimed
  <1>3. ErrAim' BY <1>1, <1>2, ErrAimKept DEF Aims, Aimed
  <1>4. LogAim' BY <1>1, <1>2, LogAimKept DEF Aims, Aimed
  <1>5. ~OfPrintf(act[t]) BY DEF OfPrintf
  <1>6. FileAim' BY <1>2, <1>5, FileAimKept DEF Aims, Aimed
  <1>7. StrAim' BY <1>2, StrAimKept DEF Aims, Aimed
  <1> QED BY <1>3, <1>4, <1>6, <1>7

\* Who may have the lock of uls_sysprn() may change where it prints.
LEMMA ConsoleChanges ==
  ASSUME Typed, Locking, NEW t \in Threads, Moves(t), Free(t, "sysprn_lf"), ~Speaking(act'[t]),
         Suits(sysprn'.puts, sysprn'.xdat)
  PROVE SysAim'
  <1>1. Free(t, LockOf("sysprn")) BY DEF LockOf
  <1>2. \A u \in Threads : (u # t /\ Speaking(act[u]) /\ LockOf(act[u].way) = LockOf("sysprn"))
                             => act[u].pc = "lock_err" BY <1>1, WritesAlone
  <1>3. ASSUME NEW u \in Threads PROVE SysAimed(act[u])'
    <2>1. CASE u = t BY <2>1 DEF SysAimed, Speaking
    <2>2. CASE u # t
      <3>1. act'[u] = act[u] BY <2>2 DEF Moves
      <3>2. ~(Speaking(act[u]) /\ act[u].way = "sysprn")
        <4> SUFFICES ASSUME Speaking(act[u]), act[u].way = "sysprn" PROVE FALSE OBVIOUS
        <4>1. act[u].pc = "lock_err" BY <1>2, <2>2
        <4> QED BY <4>1, SpeakingIs DEF IsMessage
      <3> QED BY <3>1, <3>2 DEF SysAimed, Speaking
    <2> QED BY <2>1, <2>2
  <1>4. Suits(sysprn.puts, sysprn.xdat)' BY DEF Suits
  <1> QED BY <1>3, <1>4 DEF SysAim

LEMMA SysprnLockKeeps ==
  ASSUME IInv, NEW t \in Threads, SysprnLock(t)
  PROVE IInv'
  <1>1. Typed /\ Locking /\ Texts /\ Open /\ Aims /\ StrayHasCause BY DEF IInv
  <1> DEFINE c == act[t].call
             how == IF c.puts # Nil THEN c.puts ELSE "puts_file"
             tab == Tab(0)
  <1>2. /\ act[t].pc = "lock_sysprn" /\ Locked(t, "sysprn_lf") /\ Returns(t) /\ todo' = todo
        /\ sysprn' = [opened |-> TRUE, xdat |-> c.port, tab |-> tab, puts |-> how]
        /\ stray' = stray /\ syserr' = syserr /\ log' = log /\ filelf' = filelf /\ port' = port
    BY DEF SysprnLock
  <1>3. c \in Called /\ c.op = "sysprn_open"
    <2>1. Doing(act[t]) BY <1>1 DEF Typed
    <2>2. IsWaiting(act[t])
      BY <1>2, <2>1 DEF Doing, Idle, IsMessage, IsChange, Speaking, Changes
    <2> QED BY <2>2 DEF IsWaiting
  <1>4. Suits(how, c.port)
    <2>1. Suits(PutsOf(c), c.port) BY <1>3, Orderly DEF OrderlyCall, Naming
    <2>2. PutsOf(c) = how BY <1>3 DEF PutsOf
    <2> QED BY <2>1, <2>2
  <1> HIDE DEF how, tab
  <1>5. /\ sysprn'.opened = TRUE /\ sysprn'.xdat = c.port /\ sysprn'.puts = how
        /\ sysprn' = [opened |-> sysprn'.opened, xdat |-> sysprn'.xdat, tab |-> sysprn'.tab,
                      puts |-> sysprn'.puts]
    <2> DEFINE p == c.port
    <2>1. sysprn' = [opened |-> TRUE, xdat |-> p, tab |-> tab, puts |-> how] BY <1>2
    <2> HIDE DEF p
    <2>2. sysprn'.opened = TRUE /\ sysprn'.xdat = p /\ sysprn'.puts = how /\ sysprn'.tab = tab BY <2>1
    <2>3. sysprn' = [opened |-> sysprn'.opened, xdat |-> sysprn'.xdat, tab |-> sysprn'.tab,
                     puts |-> sysprn'.puts] BY <2>1
    <2> QED BY <2>2, <2>3 DEF p
  <1>6. ~Speaking(act[t]) /\ ~Writing(act[t]) /\ ~Logging(act[t]) /\ act[t].pc \notin Changes
    BY <1>2 DEF Speaking, Writing, Logging, Changes
  <1>7. /\ Moves(t) /\ Proceeds(t) /\ todo'[t] = todo[t] /\ act'[t].pc \notin Changes
        /\ ~Speaking(act'[t]) /\ ~Writing(act'[t]) /\ ~Logging(act'[t]) /\ act'[t].pc # "lock_sysprn"
        /\ InHand(t)' \subseteq Names(t) BY <1>1, <1>2, Over
  <1>8. Inside(todo[t], 1) /\ Inside(todo'[t], 1) BY <1>1, <1>2, <1>7 DEF Locking
  <1>9. "sysprn_lf" \in Locks BY DEF Locks
  <1>10. \A l \in Locks : Holds(t, l)' <=> (l = "sysprn_lf" \/ Holds(t, l))
    BY <1>6, <1>7, <1>8 DEF Holds
  <1>11. /\ holder' \in [Locks -> Threads \cup {Nil}]
         /\ \A u \in Threads, l \in Locks : holder'[l] = u <=> Holds(u, l)'
    BY <1>1, <1>2, <1>7, <1>9, <1>10, LockTaken
  <1>12. Typed'
    <2>1. /\ syserr' = [fp |-> syserr'.fp, puts |-> syserr'.puts, changes |-> syserr'.changes,
                        crossed |-> syserr'.crossed]
          /\ syserr'.changes \in Nat /\ syserr'.crossed \in BOOLEAN BY <1>1, <1>2 DEF Typed
    <2>2. /\ log' = [port |-> log'.port, puts |-> log'.puts, lf |-> log'.lf, crossed |-> log'.crossed]
          /\ log'.crossed \in BOOLEAN BY <1>1, <1>2 DEF Typed
    <2>3. sysprn'.opened \in BOOLEAN BY <1>5
    <2> QED BY <1>1, <1>5, <1>7, <1>11, <2>1, <2>2, <2>3, TypedStep
  <1>13. Locking'
    <2>1. holder'["sysprn_lf"] = t BY <1>9, <1>10, <1>11
    <2>2. t # Nil BY PrintingConstants DEF Nil
    <2>3. sysprn'.opened <=> holder'["sysprn_lf"] # Nil BY <1>5, <2>1, <2>2
    <2> QED BY <1>1, <1>7, <1>11, <2>3, LockingStep
  <1>14. Texts' BY <1>1, <1>2, <1>7, TextsUnchanged
  <1>15. Open'
    <2>1. c.port \in Names(t) BY <1>2, <1>6 DEF Names, InHand
    <2>2. InUse' \subseteq InUse \cup Names(t) \cup {Nil} BY <1>2, <1>5, <2>1 DEF InUse
    <2> QED BY <1>1, <1>2, <1>7, <2>2, OpenStep
  <1>16. Aims'
    <2>1. SysAim' BY <1>1, <1>2, <1>4, <1>5, <1>7, ConsoleChanges DEF Locked
    <2>2. ErrAim' /\ LogAim' /\ FileAim' /\ StrAim' BY <1>1, <1>2, <1>6, <1>7, QuietAims
    <2> QED BY <2>1, <2>2 DEF Aims
  <1>17. StrayHasCause' BY <1>1, <1>2 DEF StrayHasCause
  <1> QED BY <1>12, <1>13, <1>14, <1>15, <1>16, <1>17 DEF IInv

LEMMA SysprnCloseKeeps ==
  ASSUME IInv, NEW t \in Threads, uls_sysprn_close(t)
  PROVE IInv'
  <1>1. Typed /\ Locking /\ Texts /\ Open /\ Aims /\ StrayHasCause BY DEF IInv
  <1>2. /\ Calls(t, "sysprn_close") /\ Begun(t) /\ act' = act
        /\ stray' = stray /\ syserr' = syserr /\ log' = log /\ filelf' = filelf /\ port' = port
        /\ sysprn.opened =>
             /\ sysprn' = [sysprn EXCEPT !.opened = FALSE, !.xdat = Nil, !.puts = "puts_null"]
             /\ Releases({"sysprn_lf"})
    BY DEF uls_sysprn_close
  <1>3. /\ Moves(t) /\ Proceeds(t) /\ act'[t] = Idle /\ act[t] = Idle /\ Heads(t, "sysprn_close")
        /\ act'[t].pc \notin Changes
        /\ ~Speaking(act'[t]) /\ ~Writing(act'[t]) /\ ~Logging(act'[t]) /\ act'[t].pc # "lock_sysprn"
        /\ InHand(t)' \subseteq Names(t) BY <1>1, <1>2, AtOnce
  <1>4. Inside(todo[t], 1) /\ ~Inside(todo'[t], 1) BY <1>1, <1>3, BeginsInSections
  <1>5. "sysprn_lf" \in Locks /\ {"sysprn_lf"} \in SUBSET Locks BY DEF Locks
  <1>6. Holds(t, "sysprn_lf") /\ holder["sysprn_lf"] = t /\ sysprn.opened
    <2>1. Holds(t, "sysprn_lf") BY <1>3, <1>4 DEF Holds
    <2>2. holder["sysprn_lf"] = t BY <1>1, <1>5, <2>1 DEF Locking
    <2>3. t # Nil BY PrintingConstants DEF Nil
    <2> QED BY <1>1, <2>1, <2>2, <2>3 DEF Locking
  <1>7. /\ sysprn'.opened = FALSE /\ sysprn'.xdat = Nil /\ sysprn'.puts = "puts_null"
        /\ sysprn' = [opened |-> sysprn'.opened, xdat |-> sysprn'.xdat, tab |-> sysprn'.tab,
                      puts |-> sysprn'.puts]
    <2> DEFINE o == sysprn.opened  x == sysprn.xdat  u == sysprn.puts  b == sysprn.tab
    <2>1. sysprn = [opened |-> o, xdat |-> x, tab |-> b, puts |-> u] BY <1>1 DEF Typed
    <2>2. sysprn' = [sysprn EXCEPT !.opened = FALSE, !.xdat = Nil, !.puts = "puts_null"] BY <1>2, <1>6
    <2> HIDE DEF o, x, u, b
    <2>3. sysprn' = [opened |-> FALSE, xdat |-> Nil, tab |-> b, puts |-> "puts_null"] BY <2>1, <2>2
    <2>4. sysprn'.opened = FALSE /\ sysprn'.xdat = Nil /\ sysprn'.puts = "puts_null" /\ sysprn'.tab = b
      BY <2>3
    <2> QED BY <2>3, <2>4
  <1>8. \A l \in Locks : Holds(t, l)' <=> (l \notin {"sysprn_lf"} /\ Holds(t, l))
    BY <1>3, <1>4 DEF Holds
  <1>9. Releases({"sysprn_lf"}) /\ \A l \in {"sysprn_lf"} : Holds(t, l) BY <1>2, <1>6
  <1>10. /\ holder' \in [Locks -> Threads \cup {Nil}]
         /\ \A u \in Threads, l \in Locks : holder'[l] = u <=> Holds(u, l)'
    <2> DEFINE R == {"sysprn_lf"}
    <2>1. /\ R \in SUBSET Locks /\ Releases(R) /\ \A l \in R : Holds(t, l)
          /\ \A l \in Locks : Holds(t, l)' <=> (l \notin R /\ Holds(t, l)) BY <1>5, <1>8, <1>9
    <2> HIDE DEF R
    <2> QED BY <1>1, <1>3, <2>1, LocksReleased
  <1>11. Typed'
    <2>1. /\ syserr' = [fp |-> syserr'.fp, puts |-> syserr'.puts, changes |-> syserr'.changes,
                        crossed |-> syserr'.crossed]
          /\ syserr'.changes \in Nat /\ syserr'.crossed \in BOOLEAN BY <1>1, <1>2 DEF Typed
    <2>2. /\ log' = [port |-> log'.port, puts |-> log'.puts, lf |-> log'.lf, crossed |-> log'.crossed]
          /\ log'.crossed \in BOOLEAN BY <1>1, <1>2 DEF Typed
    <2>3. sysprn'.opened \in BOOLEAN BY <1>7
    <2> QED BY <1>1, <1>3, <1>7, <1>10, <2>1, <2>2, <2>3, TypedStep
  <1>12. Locking'
    <2>1. holder'["sysprn_lf"] = Nil BY <1>5, <1>9 DEF Releases
    <2>2. sysprn'.opened <=> holder'["sysprn_lf"] # Nil BY <1>7, <2>1
    <2> QED BY <1>1, <1>3, <1>10, <2>2, LockingStep
  <1>13. Texts' BY <1>1, <1>2, <1>3, TextsUnchanged
  <1>14. Open' BY <1>1, <1>2, <1>3, <1>7, OpenKept
  <1>15. Aims'
    <2>1. Suits(sysprn'.puts, sysprn'.xdat) BY <1>7 DEF Suits
    <2>2. Free(t, "sysprn_lf") BY <1>6 DEF Free
    <2>3. SysAim' BY <1>1, <1>3, <2>1, <2>2, ConsoleChanges
    <2>4. ~Speaking(act[t]) /\ act[t].pc \notin Changes BY <1>3 DEF Idle, Speaking, Changes
    <2>5. ErrAim' /\ LogAim' /\ FileAim' /\ StrAim' BY <1>1, <1>2, <1>3, <2>4, QuietAims
    <2> QED BY <2>3, <2>5 DEF Aims
  <1>16. StrayHasCause' BY <1>1, <1>2 DEF StrayHasCause
  <1> QED BY <1>11, <1>12, <1>13, <1>14, <1>15, <1>16 DEF IInv

\* Where a caller goes on that is refused: after the first close, which ends
\* the section it wanted to open.
LEMMA SkippedIs ==
  ASSUME NEW s \in Seq(Called), s # <<>>, InSections(s), Head(s).op = "sysprn_open"
  PROVE /\ ~Inside(s, 1) /\ ~Inside(Skipped(s), 1)
        /\ \E d \in 0 .. Len(s) : Skipped(s) = After(s, d)
  <1>1. Head(s) = s[1] /\ 1 \in DOMAIN s /\ Len(s) \in Nat /\ DOMAIN s = 1 .. Len(s)
    BY TailIsAfter, LenProperties
  <1>2. ~Inside(s, 1) BY HeadAndSections
  <1>3. Inside(s, 1 + 1) BY <1>1 DEF InSections
  <1>4. PICK m \in 2 .. Len(s) :
          s[m].op = "sysprn_close" /\ \A j \in 2 .. m - 1 : s[j].op # "sysprn_open"
    <2>1. 1 + 1 = 2 OBVIOUS
    <2> QED BY <1>3, <2>1 DEF Inside
  <1> DEFINE close == {k \in DOMAIN s : s[k].op = "sysprn_close"}
  <1>5. m \in close BY <1>1, <1>4
  <1>6. \A k \in close : m <= k
    <2> SUFFICES ASSUME NEW k \in close, ~(m <= k) PROVE FALSE OBVIOUS
    <2>1. k \in 1 .. Len(s) /\ s[k].op = "sysprn_close" /\ k < m BY <1>1, <1>4
    <2>2. k # 1 BY <1>1, <2>1
    <2>3. m \in k + 1 .. Len(s) /\ \A j \in k + 1 .. m - 1 : s[j].op # "sysprn_open"
      BY <1>4, <2>1, <2>2
    <2>4. Inside(s, k + 1) BY <1>4, <2>3 DEF Inside
    <2> QED BY <1>1, <2>1, <2>4 DEF InSections
  <1>7. Min(close) = m
    <2>1. \A x \in close : x \in Int BY <1>1
    <2> HIDE DEF close
    <2>2. Min(close) = CHOOSE x \in close : \A y \in close : x <= y BY DEF Min
    <2>3. \A x \in close : (\A y \in close : x <= y) => x = m BY <1>4, <1>5, <1>6, <2>1
    <2> QED BY <1>5, <1>6, <2>2, <2>3
  <1>8. Skipped(s) = After(s, m) BY <1>7 DEF Skipped, After
  <1>9. ~Inside(s, m + 1) BY <1>1, <1>4 DEF InSections
  <1>10. m \in 0 .. Len(s) BY <1>4
  <1>11. Inside(After(s, m), 0 + 1) <=> Inside(s, 0 + m + 1)
    <2>1. \A k \in Nat : Inside(After(s, m), k + 1) <=> Inside(s, k + m + 1) BY <1>10, AfterInSections
    <2> QED BY <2>1
  <1>12. 0 + 1 = 1 /\ 0 + m + 1 = m + 1 BY <1>4
  <1> QED BY <1>2, <1>8, <1>9, <1>10, <1>11, <1>12

LEMMA SysprnOpenKeeps ==
  ASSUME IInv, NEW t \in Threads, uls_sysprn_open(t)
  PROVE IInv'
  <1>1. Typed /\ Locking /\ Texts /\ Open /\ Aims /\ StrayHasCause BY DEF IInv
  <1> DEFINE c == Head(todo[t])  a == [pc |-> "lock_sysprn", call |-> c]
  <1>2. /\ Calls(t, "sysprn_open") /\ holder' = holder /\ sysprn' = sysprn
        /\ stray' = stray /\ syserr' = syserr /\ log' = log /\ filelf' = filelf /\ port' = port
        /\ \/ todo' = [todo EXCEPT ![t] = Skipped(todo[t])] /\ act' = act
           \/ Begun(t) /\ Does(t, a)
    BY DEF uls_sysprn_open
  <1>3. act[t] = Idle
    <2>1. Doing(act[t]) /\ act[t].pc = "idle" BY <1>1, <1>2 DEF Typed, Calls
    <2> QED BY <2>1 DEF Doing, IsMessage, IsChange, IsWaiting, Speaking, Changes
  <1>4. /\ todo[t] \in Seq(Called) /\ todo[t] # <<>> /\ c.op = "sysprn_open" /\ InSections(todo[t])
        /\ c \in Called
    <2>1. todo[t] \in Seq(Called) /\ todo[t] # <<>> /\ c.op = "sysprn_open" /\ InSections(todo[t])
      BY <1>1, <1>2 DEF Typed, Locking, Calls
    <2> QED BY <2>1, HeadTailProperties
  <1> HIDE DEF c
  <1>5. ~Inside(todo[t], 1) BY <1>4, SkippedIs DEF c
  <1>6. /\ Moves(t) /\ Proceeds(t) /\ ~Speaking(act'[t]) /\ ~Writing(act'[t]) /\ ~Logging(act'[t])
        /\ act'[t].pc \notin Changes /\ InHand(t)' \subseteq Names(t)
        /\ act'[t].pc = "lock_sysprn" \/ ~Inside(todo'[t], 1)
        /\ act'[t].pc = "lock_sysprn" => Inside(todo'[t], 1)
    <2>1. CASE todo' = [todo EXCEPT ![t] = Skipped(todo[t])] /\ act' = act
      <3> DEFINE r == Skipped(todo[t])
      <3>1. ~Inside(r, 1) /\ \E d \in 0 .. Len(todo[t]) : r = After(todo[t], d)
        BY <1>4, SkippedIs DEF c
      <3>2. r \in Seq(Called) BY <1>4, <3>1, AfterIs
      <3>3. todo' = [todo EXCEPT ![t] = r] BY <2>1
      <3> HIDE DEF r
      <3>4. /\ todo' \in [Threads -> Seq(Called)] /\ todo'[t] = r
            /\ \A u \in Threads : u # t => todo'[u] = todo[u] BY <1>1, <3>2, <3>3, TodoOf
      <3>5. act = [u \in Threads |-> act[u]] /\ Doing(act[t]) BY <1>1 DEF Typed
      <3>6. Moves(t) BY <2>1, <3>1, <3>4, <3>5 DEF Moves
      <3>7. act'[t] = Idle BY <1>3, <2>1
      <3>8. /\ ~Speaking(act'[t]) /\ ~Writing(act'[t]) /\ ~Logging(act'[t])
            /\ act'[t].pc \notin Changes /\ act'[t].pc # "lock_sysprn"
        BY <3>7 DEF Idle, Speaking, Writing, Logging, Changes
      <3>9. InHand(t)' = {} BY <3>8 DEF InHand, Speaking
      <3>10. Proceeds(t) BY <3>8 DEF Proceeds
      <3> QED BY <3>1, <3>4, <3>6, <3>8, <3>9, <3>10
    <2>2. CASE Begun(t) /\ Does(t, a)
      <3>1. a.pc = "lock_sysprn" /\ a.call = c OBVIOUS
      <3>2. a = [pc |-> "lock_sysprn", call |-> a.call] OBVIOUS
      <3>3. Does(t, a) BY <2>2
      <3> HIDE DEF a
      <3>4. Doing(a) BY <1>4, <3>1, <3>2 DEF Doing, IsWaiting
      <3>5. ~Speaking(a) BY <3>1 DEF Speaking
      <3>6. /\ Moves(t) /\ Proceeds(t) /\ act'[t] = a /\ Heads(t, "sysprn_open")
            /\ ~Writing(act'[t]) /\ ~Logging(act'[t]) /\ ~Speaking(act'[t])
        BY <1>1, <1>2, <2>2, <3>3, <3>4, <3>5, SomethingElse
      <3>7. Inside(todo'[t], 1) BY <1>1, <3>6, BeginsInSections
      <3>8. act'[t].pc = "lock_sysprn" /\ act'[t].pc \notin Changes BY <3>1, <3>6 DEF Changes
      <3>9. InHand(t)' = {c.port}
        <4>1. ~Speaking(act[t])' BY <3>6 DEF Speaking
        <4> QED BY <3>1, <3>6, <3>8, <4>1 DEF InHand
      <3>10. c.port \in Names(t)
        <4>1. c.op \in Naming BY <1>4 DEF Naming
        <4> QED BY <1>3, <1>4, <4>1 DEF Names, c
      <3> QED BY <3>6, <3>7, <3>8, <3>9, <3>10
    <2> QED BY <1>2, <2>1, <2>2
  <1>7. ~Speaking(act[t]) /\ ~Writing(act[t]) /\ ~Logging(act[t]) /\ act[t].pc \notin Changes
        /\ act[t].pc # "lock_sysprn"
    BY <1>3 DEF Idle, Speaking, Writing, Logging, Changes
  <1>8. \A l \in Locks : Holds(t, l)' <=> Holds(t, l) BY <1>5, <1>6, <1>7 DEF Holds
  <1>9. /\ holder' \in [Locks -> Threads \cup {Nil}]
        /\ \A u \in Threads, l \in Locks : holder'[l] = u <=> Holds(u, l)'
    BY <1>1, <1>2, <1>6, <1>8, LocksKept
  <1>10. Typed' BY <1>1, <1>2, <1>6, <1>9, TypedKept
  <1>11. Locking'
    <2>1. sysprn'.opened <=> holder'["sysprn_lf"] # Nil BY <1>1, <1>2 DEF Locking
    <2> QED BY <1>1, <1>6, <1>9, <2>1, LockingStep
  <1>12. Texts' BY <1>1, <1>2, <1>6, TextsUnchanged
  <1>13. Open' BY <1>1, <1>2, <1>6, OpenKept
  <1>14. Aims'
    <2>1. Aimed(t, act'[t]) BY <1>6, SilentAimed
    <2>2. ~OfPrintf(act[t]) BY <1>7 DEF OfPrintf
    <2> QED BY <1>1, <1>2, <1>6, <1>7, <2>1, <2>2, AimsKept
  <1>15. StrayHasCause' BY <1>1, <1>2 DEF StrayHasCause
  <1> QED BY <1>10, <1>11, <1>12, <1>13, <1>14, <1>15 DEF IInv

\* A port is closed that no one uses or will name.
LEMMA CloseKeepsOpen ==
  ASSUME Typed, Open, NEW t \in Threads, Moves(t), Heads(t, "close"), InHand(t)' = {},
         syserr' = syserr, log' = log, sysprn' = sysprn,
         NEW p, p = Head(todo[t]).port, p \notin InUse,
         \A q \in SO : q # p => port'[q].open = port[q].open
  PROVE Open'
  <1>1. todo[t][1] = Head(todo[t]) /\ 1 \in DOMAIN todo[t] /\ Head(todo[t]).op = "close"
    BY DEF Heads
  <1>2. ClosedLast(todo) /\ ClosedLast(todo') BY ClosedStillLast DEF Open
  <1>3. \A q \in SO \cap InUse : port'[q].open BY DEF Open, InUse
  <1>4. ASSUME NEW u \in Threads, NEW q \in SO, q \in InHand(u)' PROVE port'[q].open
    <2>1. u # t BY <1>4
    <2>2. q \in InHand(u) BY <1>4, <2>1 DEF InHand, Moves
    <2>3. q # p BY <1>1, <2>1, <2>2 DEF Open
    <2> QED BY <2>2, <2>3 DEF Open
  <1>5. ASSUME NEW u \in Threads, NEW k \in DOMAIN todo'[u], todo'[u][k].op \in Naming, todo'[u][k].port \in SO
        PROVE port'[todo'[u][k].port].open
    <2>0. CASE u = t
      <3>1. PICK d \in 0 .. Len(todo[t]) : d >= 1 /\ todo'[t] = After(todo[t], d)
        <4>1. todo[t] \in Seq(Called) /\ todo[t] # <<>> /\ todo'[t] = Tail(todo[t]) BY DEF Heads
        <4>2. todo'[t] = After(todo[t], 1) /\ 1 \in 0 .. Len(todo[t]) BY <4>1, TailIsAfter
        <4> QED BY <4>2
      <3>2. todo[t] \in Seq(Called) BY DEF Typed
      <3>3. /\ DOMAIN todo'[t] = 1 .. Len(todo[t]) - d /\ Len(todo[t]) \in Nat
            /\ DOMAIN todo[t] = 1 .. Len(todo[t])
            /\ \A j \in 1 .. Len(todo[t]) - d : todo'[t][j] = todo[t][j + d]
        <4> DEFINE r == After(todo[t], d)
        <4>1. /\ DOMAIN r = 1 .. Len(todo[t]) - d
              /\ \A j \in 1 .. Len(todo[t]) - d : r[j] = todo[t][j + d] BY <3>2, AfterIs
        <4>2. DOMAIN todo[t] = 1 .. Len(todo[t]) /\ Len(todo[t]) \in Nat BY <3>2, LenProperties
        <4>3. todo'[t] = r BY <3>1
        <4> HIDE DEF r
        <4> QED BY <4>1, <4>2, <4>3
      <3>4. k + d \in DOMAIN todo[t] /\ todo'[t][k] = todo[t][k + d] /\ ~(k + d < 1) BY <1>5, <2>0, <3>1, <3>3
      <3>5. todo[t][k + d].port # p BY <1>1, <1>2, <1>5, <2>0, <3>4 DEF ClosedLast
      <3> QED BY <1>5, <2>0, <3>4, <3>5 DEF Open
    <2>1. CASE u # t
      <3>1. todo'[u] = todo[u] BY <2>1 DEF Moves
      <3>2. todo[u][k].port # p BY <1>1, <1>2, <1>5, <2>1, <3>1 DEF ClosedLast
      <3> QED BY <1>5, <3>1, <3>2 DEF Open
    <2> QED BY <2>0, <2>1
  <1>6. ASSUME NEW u \in Threads, NEW v \in Threads, NEW i \in DOMAIN todo'[u],
               todo'[u][i].op = "close", todo'[u][i].port \in InHand(v)' PROVE u = v
    <2>1. PICK d \in Nat : \A j \in DOMAIN todo'[u] :
            j \in Nat /\ j + d \in DOMAIN todo[u] /\ todo'[u][j] = todo[u][j + d] BY CallsLeft
    <2>2. i + d \in DOMAIN todo[u] /\ todo'[u][i] = todo[u][i + d] BY <2>1
    <2>3. v # t BY <1>6
    <2>4. InHand(v)' = InHand(v) BY <2>3 DEF InHand, Moves
    <2> QED BY <1>6, <2>2, <2>4 DEF Open
  <1>7. SO' = SO /\ Naming' = Naming BY DEF SO, Naming
  <1>8. \A u \in Threads : \A q \in SO \cap InHand(u)' : port'[q].open BY <1>4
  <1>9. \A q \in SO \cap {syserr'.fp, log'.port, sysprn'.xdat} : port'[q].open BY <1>3 DEF InUse
  <1> QED BY <1>2, <1>5, <1>6, <1>7, <1>8, <1>9 DEF Open

LEMMA ClosePortKeeps ==
  ASSUME IInv, NEW t \in Threads, ClosePort(t)
  PROVE IInv'
  <1>1. Typed /\ Texts /\ Open BY DEF IInv
  <1> DEFINE p == Head(todo[t]).port
  <1>2. /\ Calls(t, "close") /\ Begun(t) /\ filelf' = filelf /\ act' = act /\ holder' = holder
        /\ syserr' = syserr /\ log' = log /\ sysprn' = sysprn /\ stray' = stray
        /\ port' = IF p \in {syserr.fp, log.port, sysprn.xdat} THEN port ELSE [port EXCEPT ![p].open = FALSE]
    BY DEF ClosePort
  <1>3. Moves(t) /\ Proceeds(t) /\ Heads(t, "close") /\ act'[t] = Idle BY <1>1, <1>2, AtOnce
  <1>4. sysprn' = [opened |-> sysprn.opened, xdat |-> sysprn.xdat, tab |-> sysprn'.tab, puts |-> sysprn.puts]
    BY <1>1, <1>2, ConsoleKept
  <1>5. CASE p \in InUse
    <2>1. port' = port BY <1>2, <1>5 DEF InUse
    <2>2. Texts' BY <1>1, <1>3, <2>1, TextsUnchanged
    <2>3. \A q \in SO : port'[q].open = port[q].open BY <2>1
    <2> HIDE DEF p
    <2> QED BY <1>2, <1>4, <2>2, <2>3, CallKeeps
  <1>6. CASE p \notin InUse
    <2>1. port' = [port EXCEPT ![p].open = FALSE] BY <1>2, <1>6 DEF InUse
    <2> HIDE DEF p
    <2>2. port = [q \in Ports |-> port[q]] /\ \A q \in Ports : IsPort(port[q]) BY <1>1 DEF Texts
    <2>3. port' = [q \in Ports |-> IF q = p THEN [port[q] EXCEPT !.open = FALSE] ELSE port[q]]
      BY <2>1, <2>2
    <2>4. port' = [q \in Ports |-> port'[q]] /\ \A q \in Ports : q # p => port'[q] = port[q] BY <2>3
    <2>5. ASSUME p \in Ports PROVE IsPort(port'[p]) /\ port'[p].got = port[p].got
      <3> DEFINE b == port[p]  c == port'[p]
      <3>1. c = [b EXCEPT !.open = FALSE] BY <2>3, <2>5
      <3>2. IsPort(b) BY <2>2, <2>5
      <3> HIDE DEF b, c
      <3> DEFINE g == b.got  r == b.room  o == b.open
      <3>3. b = [got |-> g, open |-> o, room |-> r] BY <3>2 DEF IsPort
      <3>4. IsSequence(g) /\ \A i \in DOMAIN g : IsPiece(g[i]) BY <3>2 DEF IsPort
      <3> HIDE DEF g, r, o
      <3>5. c = [got |-> g, open |-> FALSE, room |-> r] BY <3>1, <3>3
      <3>6. c.got = g /\ c = [got |-> c.got, open |-> c.open, room |-> c.room] BY <3>5
      <3>7. IsPort(c) BY <3>4, <3>6 DEF IsPort
      <3> QED BY <3>6, <3>7 DEF b, c, g
    <2>6. \A q \in Ports : IsPort(port'[q]) /\ port'[q].got = port[q].got BY <2>2, <2>4, <2>5
    <2>7. \A q \in SO : q \in Ports BY DEF SO, Ports
    <2>8. Texts' BY <1>1, <1>3, <2>4, <2>6, <2>7, TextsKept
    <2>9. InHand(t)' = {}
      <3>1. act'[t].pc = "idle" BY <1>3 DEF Idle
      <3> QED BY <3>1 DEF InHand, Speaking
    <2>10. Open'
      <3>1. p = Head(todo[t]).port BY DEF p
      <3>2. \A q \in SO : q # p => port'[q].open = port[q].open BY <2>4, <2>7
      <3> QED BY <1>1, <1>2, <1>3, <1>6, <2>9, <3>1, <3>2, CloseKeepsOpen
    <2> QED BY <1>2, <1>4, <2>8, <2>10, CallKeeps
  <1> QED BY <1>5, <1>6

\* err_change_port() while no other thread is at it.
LEMMA ErrChangePortKeeps ==
  ASSUME IInv, NEW t \in Threads, err_change_port(t)
  PROVE IInv'
  <1>1. Typed /\ Locking /\ Texts /\ Open /\ Aims /\ StrayHasCause BY DEF IInv
  <1> DEFINE c == Head(todo[t])  how == NullPuts(c.port, c.puts)  a == [pc |-> "change_err", puts |-> how]
             ch == Changing("change_err")
  <1>2. /\ Calls(t, "err_change_port") /\ Begun(t) /\ Does(t, a)
        /\ stray' = stray /\ holder' = holder /\ log' = log /\ sysprn' = sysprn /\ filelf' = filelf
        /\ port' = port
        /\ syserr' = [syserr EXCEPT !.fp = c.port, !.changes = @ + 1, !.crossed = @ \/ ch]
    BY DEF err_change_port
  <1>3. a = [pc |-> a.pc, puts |-> a.puts] /\ a.pc = "change_err" /\ a.puts = how
    <2> HIDE DEF how
    <2> QED OBVIOUS
  <1> HIDE DEF a
  <1>4. Doing(a) /\ ~Speaking(a) BY <1>3 DEF Doing, IsChange, Changes, Speaking
  <1>5. /\ Moves(t) /\ Proceeds(t) /\ act'[t] = a /\ act[t] = Idle /\ Heads(t, "err_change_port")
        /\ ~Writing(act'[t]) /\ ~Logging(act'[t]) /\ ~Speaking(act'[t])
        /\ ~Writing(act[t]) /\ ~Logging(act[t]) /\ ~Speaking(act[t]) /\ act[t].pc \notin Changes
    BY <1>1, <1>2, <1>4, SomethingElse
  <1>6. act'[t].pc = "change_err" /\ act'[t].puts = how BY <1>3, <1>5
  <1>7. c \in Called /\ c.op = "err_change_port" BY <1>5 DEF Heads
  <1>8. Suits(how, c.port)
    <2>1. Suits(PutsOf(c), c.port) BY <1>7, Orderly DEF OrderlyCall, Naming
    <2>2. PutsOf(c) = how BY <1>7 DEF PutsOf
    <2> QED BY <2>1, <2>2
  <1>9. /\ syserr'.fp = c.port /\ syserr'.changes = syserr.changes + 1
        /\ syserr'.crossed = (syserr.crossed \/ ch)
        /\ syserr' = [fp |-> syserr'.fp, puts |-> syserr'.puts, changes |-> syserr'.changes,
                      crossed |-> syserr'.crossed]
    <2> DEFINE f == syserr.fp  u == syserr.puts  n == syserr.changes  x == syserr.crossed
               y == x \/ ch  m == n + 1  p == c.port
    <2>1. syserr = [fp |-> f, puts |-> u, changes |-> n, crossed |-> x] BY <1>1 DEF Typed
    <2>2. syserr' = [syserr EXCEPT !.fp = p, !.changes = m, !.crossed = y] BY <1>2
    <2>3. y = (syserr.crossed \/ ch) OBVIOUS
    <2> HIDE DEF f, u, n, x, y, m, p
    <2>4. syserr' = [fp |-> p, puts |-> u, changes |-> m, crossed |-> y] BY <2>1, <2>2
    <2>5. /\ syserr'.fp = p /\ syserr'.puts = u /\ syserr'.changes = m /\ syserr'.crossed = y BY <2>4
    <2>6. syserr' = [fp |-> syserr'.fp, puts |-> syserr'.puts, changes |-> syserr'.changes,
                     crossed |-> syserr'.crossed] BY <2>4, <2>5
    <2> QED BY <2>3, <2>5, <2>6 DEF m, n, p
  <1> HIDE DEF how, c
  <1>10. \A l \in Locks : Holds(t, l)' <=> Holds(t, l)
    <2>1. Inside(todo[t], 1) <=> Inside(todo'[t], 1) BY <1>1, <1>5, BeginsInSections
    <2>2. act[t].pc # "lock_sysprn" BY <1>5 DEF Idle
    <2> QED BY <1>5, <1>6, <2>1, <2>2 DEF Holds
  <1>11. /\ holder' \in [Locks -> Threads \cup {Nil}]
         /\ \A u \in Threads, l \in Locks : holder'[l] = u <=> Holds(u, l)'
    BY <1>1, <1>2, <1>5, <1>10, LocksKept
  <1>12. Typed'
    <2>1. syserr'.changes \in Nat /\ syserr'.crossed \in BOOLEAN
      <3>1. ch \in BOOLEAN BY DEF Changing
      <3>2. syserr.changes \in Nat /\ syserr.crossed \in BOOLEAN BY <1>1 DEF Typed
      <3>3. syserr'.changes \in Nat BY <1>9, <3>2
      <3>4. syserr'.crossed \in BOOLEAN BY <1>9
      <3> QED BY <3>3, <3>4
    <2>2. /\ log' = [port |-> log'.port, puts |-> log'.puts, lf |-> log'.lf, crossed |-> log'.crossed]
          /\ log'.crossed \in BOOLEAN BY <1>1, <1>2 DEF Typed
    <2>3. /\ sysprn' = [opened |-> sysprn'.opened, xdat |-> sysprn'.xdat, tab |-> sysprn'.tab,
                        puts |-> sysprn'.puts]
          /\ sysprn'.opened \in BOOLEAN BY <1>1, <1>2 DEF Typed
    <2> QED BY <1>1, <1>5, <1>9, <1>11, <2>1, <2>2, <2>3, TypedStep
  <1>13. Locking'
    <2>1. sysprn'.opened <=> holder'["sysprn_lf"] # Nil BY <1>1, <1>2 DEF Locking
    <2> QED BY <1>1, <1>5, <1>6, <1>11, <2>1, LockingStep
  <1>14. Texts' BY <1>1, <1>2, <1>5, TextsUnchanged
  <1>15. Open'
    <2>1. c.port \in Names(t) BY <1>5, <1>7 DEF Names, Naming, Heads, c
    <2>2. InUse' \subseteq InUse \cup Names(t) \cup {Nil} BY <1>2, <1>9, <2>1 DEF InUse
    <2>3. InHand(t)' \subseteq Names(t)
      <3>1. ~Speaking(act[t])' BY <1>5 DEF Speaking
      <3> QED BY <1>6, <3>1 DEF InHand
    <2> QED BY <1>1, <1>2, <1>5, <2>2, <2>3, OpenStep
  <1>16. ErrAim'
    <2>1. ASSUME NEW u \in Threads PROVE ErrAimed(act[u])'
      <3>1. CASE u = t BY <1>5, <3>1 DEF ErrAimed, Speaking
      <3>2. CASE u # t
        <4>1. act'[u] = act[u] BY <1>5, <3>2 DEF Moves
        <4>2. ErrAimed(act[u]) BY <1>1 DEF Aims, ErrAim
        <4>3. syserr.changes \in Nat BY <1>1 DEF Typed
        <4>4. Speaking(act[u]) => act[u].changes \in Int BY <1>1, SpeakingIs DEF IsMessage
        <4>5. Speaking(act[u]) => act[u].changes <= syserr'.changes /\ act[u].changes # syserr'.changes
          BY <1>9, <4>2, <4>3, <4>4 DEF ErrAimed
        <4> QED BY <4>1, <4>5 DEF ErrAimed, Speaking
      <3> QED BY <3>1, <3>2
    <2>2. ASSUME ~syserr'.crossed
          PROVE /\ \A u, v \in Threads : act'[u].pc = "change_err" /\ act'[v].pc = "change_err" => u = v
                /\ \A u \in Threads : act'[u].pc = "change_err" => Suits(act'[u].puts, syserr'.fp)
                /\ Changing("change_err")'
      <3>1. \A u \in Threads : act[u].pc # "change_err" BY <1>9, <2>2 DEF Changing
      <3>2. \A u \in Threads : u # t => act'[u].pc # "change_err" BY <1>5, <3>1 DEF Moves
      <3>3. Changing("change_err")' BY <1>6 DEF Changing
      <3> QED BY <1>6, <1>8, <1>9, <3>2, <3>3
    <2> QED BY <2>1, <2>2 DEF ErrAim
  <1>17. Aims'
    <2>1. Aimed(t, act'[t]) /\ act[t].pc # "change_log" /\ act'[t].pc # "change_log"
      BY <1>5, <1>6, SilentAimed DEF Changes
    <2>2. LogAim' BY <1>1, <1>2, <1>5, <2>1, LogAimKept DEF Aims, Aimed
    <2>3. SysAim' BY <1>1, <1>2, <1>5, <2>1, SysAimKept DEF Aims, Aimed
    <2>4. FileAim'
      <3>1. ~OfPrintf(act[t]) BY <1>5 DEF OfPrintf
      <3> QED BY <1>1, <1>2, <1>5, <2>1, <3>1, FileAimKept DEF Aims, Aimed
    <2>5. StrAim' BY <1>1, <1>5, <2>1, StrAimKept DEF Aims, Aimed
    <2> QED BY <1>16, <2>2, <2>3, <2>4, <2>5 DEF Aims
  <1>18. StrayHasCause' BY <1>1, <1>2 DEF StrayHasCause
  <1> QED BY <1>12, <1>13, <1>14, <1>15, <1>17, <1>18 DEF IInv

\* The second half of a change, of err_log()'s port or of uls_log()'s.
LEMMA ChangeEnds ==
  ASSUME IInv, NEW t \in Threads, act[t].pc \in Changes, Returns(t), todo' = todo, holder' = holder,
         sysprn' = sysprn, filelf' = filelf, port' = port, stray' = stray,
         syserr'.fp = syserr.fp, syserr'.changes = syserr.changes, syserr'.crossed = syserr.crossed,
         syserr' = [fp |-> syserr'.fp, puts |-> syserr'.puts, changes |-> syserr'.changes,
                    crossed |-> syserr'.crossed],
         log'.port = log.port, log'.crossed = log.crossed,
         log' = [port |-> log'.port, puts |-> log'.puts, lf |-> log'.lf, crossed |-> log'.crossed],
         ErrAim', LogAim'
  PROVE IInv'
  <1>1. Typed /\ Locking /\ Texts /\ Open /\ Aims /\ StrayHasCause BY DEF IInv
  <1>2. ~Speaking(act[t]) /\ ~Writing(act[t]) /\ ~Logging(act[t]) /\ act[t].pc # "lock_sysprn"
    BY DEF Changes, Speaking, Writing, Logging
  <1>3. /\ Moves(t) /\ Proceeds(t) /\ todo'[t] = todo[t] /\ act'[t].pc \notin Changes
        /\ ~Speaking(act'[t]) /\ ~Writing(act'[t]) /\ ~Logging(act'[t]) /\ act'[t].pc # "lock_sysprn"
        /\ InHand(t)' \subseteq Names(t) BY <1>1, Over
  <1>4. \A l \in Locks : Holds(t, l)' <=> Holds(t, l) BY <1>2, <1>3 DEF Holds
  <1>5. /\ holder' \in [Locks -> Threads \cup {Nil}]
        /\ \A u \in Threads, l \in Locks : holder'[l] = u <=> Holds(u, l)'
    BY <1>1, <1>3, <1>4, LocksKept
  <1>6. Typed'
    <2>1. syserr'.changes \in Nat /\ syserr'.crossed \in BOOLEAN /\ log'.crossed \in BOOLEAN
      BY <1>1 DEF Typed
    <2>2. /\ sysprn' = [opened |-> sysprn'.opened, xdat |-> sysprn'.xdat, tab |-> sysprn'.tab,
                        puts |-> sysprn'.puts]
          /\ sysprn'.opened \in BOOLEAN BY <1>1 DEF Typed
    <2> QED BY <1>1, <1>3, <1>5, <2>1, <2>2, TypedStep
  <1>7. Locking'
    <2>1. sysprn'.opened <=> holder'["sysprn_lf"] # Nil BY <1>1 DEF Locking
    <2> QED BY <1>1, <1>3, <1>5, <2>1, LockingStep
  <1>8. Texts' BY <1>1, <1>3, TextsUnchanged
  <1>9. Open' BY <1>1, <1>3, OpenKept
  <1>10. Aims'
    <2>1. Aimed(t, act'[t]) BY <1>3, SilentAimed
    <2>2. SysAim' BY <1>1, <1>3, <2>1, SysAimKept DEF Aims, Aimed
    <2>3. FileAim'
      <3>1. ~OfPrintf(act[t]) BY <1>2 DEF OfPrintf
      <3> QED BY <1>1, <1>3, <2>1, <3>1, FileAimKept DEF Aims, Aimed
    <2>4. StrAim' BY <1>1, <1>3, <2>1, StrAimKept DEF Aims, Aimed
    <2> QED BY <2>2, <2>3, <2>4 DEF Aims
  <1>11. StrayHasCause' BY <1>1 DEF StrayHasCause
  <1> QED BY <1>6, <1>7, <1>8, <1>9, <1>10, <1>11 DEF IInv

LEMMA ErrChangeKeeps ==
  ASSUME IInv, NEW t \in Threads, ErrChange(t)
  PROVE IInv'
  <1>1. Typed /\ Locking /\ Texts /\ Open /\ Aims /\ StrayHasCause BY DEF IInv
  <1> DEFINE how == act[t].puts
  <1>2. /\ act[t].pc = "change_err" /\ Returns(t) /\ todo' = todo /\ holder' = holder
        /\ sysprn' = sysprn /\ filelf' = filelf /\ port' = port /\ stray' = stray /\ log' = log
        /\ syserr' = [syserr EXCEPT !.puts = how]
    BY DEF ErrChange
  <1> HIDE DEF how
  <1>3. /\ syserr'.fp = syserr.fp /\ syserr'.changes = syserr.changes /\ syserr'.crossed = syserr.crossed
        /\ syserr'.puts = how
        /\ syserr' = [fp |-> syserr'.fp, puts |-> syserr'.puts, changes |-> syserr'.changes,
                      crossed |-> syserr'.crossed]
    <2> DEFINE f == syserr.fp  u == syserr.puts  n == syserr.changes  x == syserr.crossed
    <2>1. syserr = [fp |-> f, puts |-> u, changes |-> n, crossed |-> x] BY <1>1 DEF Typed
    <2> HIDE DEF f, u, n, x
    <2>2. syserr' = [fp |-> f, puts |-> how, changes |-> n, crossed |-> x] BY <1>2, <2>1
    <2>3. syserr'.fp = f /\ syserr'.changes = n /\ syserr'.crossed = x /\ syserr'.puts = how BY <2>2
    <2>4. syserr' = [fp |-> syserr'.fp, puts |-> syserr'.puts, changes |-> syserr'.changes,
                     crossed |-> syserr'.crossed] BY <2>2
    <2> QED BY <2>3, <2>4 DEF f, n, x
  <1>4. /\ Moves(t) /\ act'[t].pc \notin Changes /\ ~Speaking(act'[t]) BY <1>1, <1>2, Over
  <1>5. Changing("change_err") /\ act[t].pc \in Changes BY <1>2 DEF Changing, Changes
  <1>6. ErrAim'
    <2>1. ASSUME NEW u \in Threads PROVE ErrAimed(act[u])'
      <3>1. CASE u = t BY <1>4, <3>1 DEF ErrAimed, Speaking
      <3>2. CASE u # t
        <4>1. act'[u] = act[u] BY <1>4, <3>2 DEF Moves
        <4>2. ErrAimed(act[u]) BY <1>1 DEF Aims, ErrAim
        <4>3. Speaking(act[u]) => /\ act[u].changes <= syserr'.changes
                                  /\ ~(~syserr'.crossed /\ act[u].way = "err_log" /\ act[u].changes = syserr'.changes)
          BY <1>3, <1>5, <4>2 DEF ErrAimed
        <4> QED BY <4>1, <4>3 DEF ErrAimed, Speaking
      <3> QED BY <3>1, <3>2
    <2>2. ASSUME ~syserr'.crossed
          PROVE /\ \A u \in Threads : act'[u].pc # "change_err"
                /\ Suits(syserr'.puts, syserr'.fp)
      <3>1. \A u, v \in Threads : act[u].pc = "change_err" /\ act[v].pc = "change_err" => u = v
        BY <1>1, <1>3, <2>2 DEF Aims, ErrAim
      <3>2. \A u \in Threads : u # t => act'[u].pc # "change_err" BY <1>2, <1>4, <3>1 DEF Moves
      <3>3. act'[t].pc # "change_err" BY <1>4 DEF Changes
      <3>4. Suits(how, syserr.fp) BY <1>1, <1>2, <1>3, <2>2 DEF Aims, ErrAim, how
      <3>5. Suits(syserr'.puts, syserr'.fp) BY <1>3, <3>4
      <3> QED BY <3>2, <3>3, <3>5
    <2>3. Suits(syserr.puts, syserr.fp)' <=> Suits(syserr'.puts, syserr'.fp) BY DEF Suits
    <2> QED BY <2>1, <2>2, <2>3 DEF ErrAim
  <1>7. LogAim'
    <2>1. Aimed(t, act'[t]) /\ act[t].pc # "change_log" /\ act'[t].pc # "change_log"
      BY <1>2, <1>4, SilentAimed DEF Changes
    <2> QED BY <1>1, <1>2, <1>4, <2>1, LogAimKept DEF Aims, Aimed
  <1>8. log' = [port |-> log'.port, puts |-> log'.puts, lf |-> log'.lf, crossed |-> log'.crossed]
        /\ log'.port = log.port /\ log'.crossed = log.crossed BY <1>1, <1>2 DEF Typed
  <1> QED BY <1>2, <1>3, <1>5, <1>6, <1>7, <1>8, ChangeEnds

\* Who has log's lock, or finds it free, is not amid another thread's uls_log().
LEMMA LogFree ==
  ASSUME Typed, Locking, NEW t \in Threads, NEW l \in {"log", "log_lf"}, Free(t, l)
  PROVE \A u \in Threads : u # t => ~(Speaking(act[u]) /\ act[u].way = "uls_log" /\ (l = "log" \/ Writing(act[u])))
  <1> SUFFICES ASSUME NEW u \in Threads, u # t, Speaking(act[u]), act[u].way = "uls_log", l = "log" \/ Writing(act[u])
               PROVE FALSE OBVIOUS
  <1>1. IsMessage(act[u]) BY SpeakingIs
  <1>2. Logging(act[u]) BY <1>1 DEF IsMessage, Speaking, Logging
  <1>3. Holds(u, l) /\ l \in Locks BY <1>2 DEF Holds, Locks
  <1>4. holder[l] = u BY <1>3 DEF Locking
  <1> QED BY <1>4, PrintingConstants DEF Free, Nil

LEMMA LogChangeBegins ==
  ASSUME IInv, NEW t \in Threads, uls_log_change(t)
  PROVE IInv'
  <1>1. Typed /\ Locking /\ Texts /\ Open /\ Aims /\ StrayHasCause BY DEF IInv
  <1> DEFINE c == Head(todo[t])  how == NullPuts(c.port, c.puts)  a == [pc |-> "change_log", puts |-> how]
             ch == Changing("change_log")
  <1>2. /\ Calls(t, "uls_log_change") /\ Begun(t) /\ Does(t, a) /\ Free(t, "log")
        /\ stray' = stray /\ holder' = holder /\ syserr' = syserr /\ sysprn' = sysprn /\ filelf' = filelf
        /\ port' = port
        /\ log' = [log EXCEPT !.port = c.port, !.puts = how, !.crossed = @ \/ ch]
    BY DEF uls_log_change
  <1>3. a = [pc |-> a.pc, puts |-> a.puts] /\ a.pc = "change_log" /\ a.puts = how
    <2> HIDE DEF how
    <2> QED OBVIOUS
  <1> HIDE DEF a
  <1>4. Doing(a) /\ ~Speaking(a) BY <1>3 DEF Doing, IsChange, Changes, Speaking
  <1>5. /\ Moves(t) /\ Proceeds(t) /\ act'[t] = a /\ act[t] = Idle /\ Heads(t, "uls_log_change")
        /\ ~Writing(act'[t]) /\ ~Logging(act'[t]) /\ ~Speaking(act'[t])
        /\ ~Writing(act[t]) /\ ~Logging(act[t]) /\ ~Speaking(act[t]) /\ act[t].pc \notin Changes
    BY <1>1, <1>2, <1>4, SomethingElse
  <1>6. act'[t].pc = "change_log" /\ act'[t].puts = how BY <1>3, <1>5
  <1>7. c \in Called /\ c.op = "uls_log_change" BY <1>5 DEF Heads
  <1>8. Suits(how, c.port)
    <2>1. Suits(PutsOf(c), c.port) BY <1>7, Orderly DEF OrderlyCall, Naming
    <2>2. PutsOf(c) = how BY <1>7 DEF PutsOf
    <2> QED BY <2>1, <2>2
  <1>9. /\ log'.port = c.port /\ log'.puts = how /\ log'.crossed = (log.crossed \/ ch)
        /\ log' = [port |-> log'.port, puts |-> log'.puts, lf |-> log'.lf, crossed |-> log'.crossed]
    <2> DEFINE f == log.port  u == log.puts  n == log.lf  x == log.crossed
               y == x \/ ch  p == c.port
    <2>1. log = [port |-> f, puts |-> u, lf |-> n, crossed |-> x] BY <1>1 DEF Typed
    <2>2. log' = [log EXCEPT !.port = p, !.puts = how, !.crossed = y] BY <1>2
    <2>3. y = (log.crossed \/ ch) OBVIOUS
    <2> HIDE DEF f, u, n, x, y, p, how
    <2>4. log' = [port |-> p, puts |-> how, lf |-> n, crossed |-> y] BY <2>1, <2>2
    <2>5. /\ log'.port = p /\ log'.puts = how /\ log'.lf = n /\ log'.crossed = y BY <2>4
    <2>6. log' = [port |-> log'.port, puts |-> log'.puts, lf |-> log'.lf, crossed |-> log'.crossed]
      BY <2>4, <2>5
    <2> QED BY <2>3, <2>5, <2>6 DEF p
  <1> HIDE DEF how, c
  <1>10. \A l \in Locks : Holds(t, l)' <=> Holds(t, l)
    <2>1. Inside(todo[t], 1) <=> Inside(todo'[t], 1) BY <1>1, <1>5, BeginsInSections
    <2>2. act[t].pc # "lock_sysprn" BY <1>5 DEF Idle
    <2> QED BY <1>5, <1>6, <2>1, <2>2 DEF Holds
  <1>11. /\ holder' \in [Locks -> Threads \cup {Nil}]
         /\ \A u \in Threads, l \in Locks : holder'[l] = u <=> Holds(u, l)'
    BY <1>1, <1>2, <1>5, <1>10, LocksKept
  <1>12. Typed'
    <2>1. log'.crossed \in BOOLEAN BY <1>9
    <2>2. /\ syserr' = [fp |-> syserr'.fp, puts |-> syserr'.puts, changes |-> syserr'.changes,
                        crossed |-> syserr'.crossed]
          /\ syserr'.changes \in Nat /\ syserr'.crossed \in BOOLEAN BY <1>1, <1>2 DEF Typed
    <2>3. /\ sysprn' = [opened |-> sysprn'.opened, xdat |-> sysprn'.xdat, tab |-> sysprn'.tab,
                        puts |-> sysprn'.puts]
          /\ sysprn'.opened \in BOOLEAN BY <1>1, <1>2 DEF Typed
    <2> QED BY <1>1, <1>5, <1>9, <1>11, <2>1, <2>2, <2>3, TypedStep
  <1>13. Locking'
    <2>1. sysprn'.opened <=> holder'["sysprn_lf"] # Nil BY <1>1, <1>2 DEF Locking
    <2> QED BY <1>1, <1>5, <1>6, <1>11, <2>1, LockingStep
  <1>14. Texts' BY <1>1, <1>2, <1>5, TextsUnchanged
  <1>15. Open'
    <2>1. c.port \in Names(t) BY <1>5, <1>7 DEF Names, Naming, Heads, c
    <2>2. InUse' \subseteq InUse \cup Names(t) \cup {Nil} BY <1>2, <1>9, <2>1 DEF InUse
    <2>3. InHand(t)' \subseteq Names(t)
      <3>1. ~Speaking(act[t])' BY <1>5 DEF Speaking
      <3> QED BY <1>6, <3>1 DEF InHand
    <2> QED BY <1>1, <1>2, <1>5, <2>2, <2>3, OpenStep
  <1>16. LogAim'
    <2>1. ASSUME NEW u \in Threads PROVE LogAimed(act[u])'
      <3>1. CASE u = t BY <1>5, <3>1 DEF LogAimed, Speaking
      <3>2. CASE u # t
        <4>1. act'[u] = act[u] BY <1>5, <3>2 DEF Moves
        <4>2. ~(Speaking(act[u]) /\ act[u].way = "uls_log") BY <1>1, <1>2, <3>2, LogFree
        <4> QED BY <4>1, <4>2 DEF LogAimed, Speaking
      <3> QED BY <3>1, <3>2
    <2>2. ASSUME ~log'.crossed
          PROVE /\ \A u, v \in Threads : act'[u].pc = "change_log" /\ act'[v].pc = "change_log" => u = v
                /\ \A u \in Threads : act'[u].pc = "change_log" => act'[u].puts = log'.puts
                /\ Changing("change_log")'
      <3>1. \A u \in Threads : act[u].pc # "change_log" BY <1>9, <2>2 DEF Changing
      <3>2. \A u \in Threads : u # t => act'[u].pc # "change_log" BY <1>5, <3>1 DEF Moves
      <3>3. Changing("change_log")' BY <1>6 DEF Changing
      <3> QED BY <1>6, <1>9, <3>2, <3>3
    <2>3. Suits(log.puts, log.port)' BY <1>8, <1>9 DEF Suits
    <2> QED BY <2>1, <2>2, <2>3 DEF LogAim
  <1>17. Aims'
    <2>1. Aimed(t, act'[t]) /\ act[t].pc # "change_err" /\ act'[t].pc # "change_err"
      BY <1>5, <1>6, SilentAimed DEF Changes
    <2>2. ErrAim' BY <1>1, <1>2, <1>5, <2>1, ErrAimKept DEF Aims, Aimed
    <2>3. SysAim' BY <1>1, <1>2, <1>5, <2>1, SysAimKept DEF Aims, Aimed
    <2>4. FileAim'
      <3>1. ~OfPrintf(act[t]) BY <1>5 DEF OfPrintf
      <3> QED BY <1>1, <1>2, <1>5, <2>1, <3>1, FileAimKept DEF Aims, Aimed
    <2>5. StrAim' BY <1>1, <1>5, <2>1, StrAimKept DEF Aims, Aimed
    <2> QED BY <1>16, <2>2, <2>3, <2>4, <2>5 DEF Aims
  <1>18. StrayHasCause' BY <1>1, <1>2 DEF StrayHasCause
  <1> QED BY <1>12, <1>13, <1>14, <1>15, <1>17, <1>18 DEF IInv

LEMMA LogChangeKeeps ==
  ASSUME IInv, NEW t \in Threads, LogChange(t)
  PROVE IInv'
  <1>1. Typed /\ Locking /\ Texts /\ Open /\ Aims /\ StrayHasCause BY DEF IInv
  <1> DEFINE how == act[t].puts
  <1>2. /\ act[t].pc = "change_log" /\ Returns(t) /\ todo' = todo /\ holder' = holder /\ Free(t, "log_lf")
        /\ sysprn' = sysprn /\ filelf' = filelf /\ port' = port /\ stray' = stray /\ syserr' = syserr
        /\ log' = [log EXCEPT !.lf = how]
    BY DEF LogChange
  <1> HIDE DEF how
  <1>3. /\ log'.port = log.port /\ log'.puts = log.puts /\ log'.crossed = log.crossed /\ log'.lf = how
        /\ log' = [port |-> log'.port, puts |-> log'.puts, lf |-> log'.lf, crossed |-> log'.crossed]
    <2> DEFINE f == log.port  u == log.puts  n == log.lf  x == log.crossed
    <2>1. log = [port |-> f, puts |-> u, lf |-> n, crossed |-> x] BY <1>1 DEF Typed
    <2> HIDE DEF f, u, n, x
    <2>2. log' = [port |-> f, puts |-> u, lf |-> how, crossed |-> x] BY <1>2, <2>1
    <2>3. log'.port = f /\ log'.puts = u /\ log'.crossed = x /\ log'.lf = how BY <2>2
    <2>4. log' = [port |-> log'.port, puts |-> log'.puts, lf |-> log'.lf, crossed |-> log'.crossed]
      BY <2>2, <2>3
    <2> QED BY <2>3, <2>4 DEF f, u, x
  <1>4. /\ Moves(t) /\ act'[t].pc \notin Changes /\ ~Speaking(act'[t]) BY <1>1, <1>2, Over
  <1>5. LogAim'
    <2>1. ASSUME NEW u \in Threads PROVE LogAimed(act[u])'
      <3>1. CASE u = t BY <1>4, <3>1 DEF LogAimed, Speaking
      <3>2. CASE u # t
        <4>1. act'[u] = act[u] BY <1>4, <3>2 DEF Moves
        <4>2. LogAimed(act[u]) BY <1>1 DEF Aims, LogAim
        <4>3. ~(Speaking(act[u]) /\ act[u].way = "uls_log" /\ Writing(act[u])) BY <1>1, <1>2, <3>2, LogFree
        <4> QED BY <1>3, <4>1, <4>2, <4>3 DEF LogAimed, Speaking, Writing
      <3> QED BY <3>1, <3>2
    <2>2. ASSUME ~log'.crossed
          PROVE /\ \A u \in Threads : act'[u].pc # "change_log"
                /\ log'.lf = log'.puts
      <3>1. /\ \A u, v \in Threads : act[u].pc = "change_log" /\ act[v].pc = "change_log" => u = v
            /\ how = log.puts BY <1>1, <1>2, <1>3, <2>2 DEF Aims, LogAim, how
      <3>2. \A u \in Threads : u # t => act'[u].pc # "change_log" BY <1>2, <1>4, <3>1 DEF Moves
      <3>3. act'[t].pc # "change_log" BY <1>4 DEF Changes
      <3> QED BY <1>3, <3>1, <3>2, <3>3
    <2>3. Suits(log.puts, log.port)' BY <1>1, <1>3 DEF Aims, LogAim, Suits
    <2> QED BY <2>1, <2>2, <2>3 DEF LogAim
  <1>6. ErrAim'
    <2>1. Aimed(t, act'[t]) /\ act[t].pc # "change_err" /\ act'[t].pc # "change_err"
      BY <1>2, <1>4, SilentAimed DEF Changes
    <2> QED BY <1>1, <1>2, <1>4, <2>1, ErrAimKept DEF Aims, Aimed
  <1>7. /\ syserr' = [fp |-> syserr'.fp, puts |-> syserr'.puts, changes |-> syserr'.changes,
                      crossed |-> syserr'.crossed]
        /\ syserr'.fp = syserr.fp /\ syserr'.changes = syserr.changes /\ syserr'.crossed = syserr.crossed
    BY <1>1, <1>2 DEF Typed
  <1>8. act[t].pc \in Changes BY <1>2 DEF Changes
  <1> QED BY <1>2, <1>3, <1>5, <1>6, <1>7, <1>8, ChangeEnds

-----------------------------------------------------------------------------
(* -------- the invariant, and what it says -------- *)

LEMMA InitIInv == Init => IInv
  <1> SUFFICES ASSUME Init PROVE IInv OBVIOUS
  <1>1. /\ todo \in Programs /\ act = [t \in Threads |-> Idle] /\ holder = [l \in Locks |-> Nil]
        /\ stray = {} /\ filelf = "puts_file"
        /\ syserr = [fp |-> Stderr, puts |-> "puts_cons", changes |-> 0, crossed |-> FALSE]
        /\ log = [port |-> Stderr, puts |-> "puts_cons", lf |-> "puts_cons", crossed |-> FALSE]
    BY DEF Init
  <1>2. /\ sysprn.opened = FALSE /\ sysprn.xdat = Nil /\ sysprn.puts = "puts_null"
        /\ sysprn = [opened |-> sysprn.opened, xdat |-> sysprn.xdat, tab |-> sysprn.tab,
                     puts |-> sysprn.puts]
    <2> DEFINE tab == Tab(0)
    <2>1. sysprn = [opened |-> FALSE, xdat |-> Nil, puts |-> "puts_null", tab |-> tab] BY DEF Init
    <2> HIDE DEF tab
    <2>2. sysprn.opened = FALSE /\ sysprn.xdat = Nil /\ sysprn.puts = "puts_null" BY <2>1
    <2> QED BY <2>1, <2>2
  <1>3. /\ syserr.fp = Stderr /\ syserr.puts = "puts_cons" /\ syserr.changes = 0 /\ syserr.crossed = FALSE
        /\ log.port = Stderr /\ log.puts = "puts_cons" /\ log.lf = "puts_cons" /\ log.crossed = FALSE
    BY <1>1
  <1>4. \A t \in Threads : act[t] = Idle /\ act[t].pc = "idle" BY <1>1 DEF Idle
  <1>5. \A t \in Threads : /\ ~Speaking(act[t]) /\ ~Writing(act[t]) /\ ~Logging(act[t])
                           /\ act[t].pc \notin Changes /\ act[t].pc # "lock_sysprn" /\ Doing(act[t])
    BY <1>4 DEF Speaking, Writing, Logging, Changes, Doing
  <1>6. /\ todo = [t \in Threads |-> todo[t]] /\ ClosedLast(todo)
        /\ \A t \in Threads : /\ todo[t] \in Seq(Range(todo[t])) /\ InSections(todo[t])
                              /\ ~Inside(todo[t], 1)
    BY <1>1, ProgramsAreOrderly
  <1>7. Nil \notin Threads BY PrintingConstants DEF Nil
  <1>8. Typed
    <2>1. \A t \in Threads : todo[t] \in Seq(Called)
      <3> SUFFICES ASSUME NEW t \in Threads PROVE todo[t] \in Seq(Called) OBVIOUS
      <3>1. Range(todo[t]) \subseteq Called BY <1>1 DEF Called
      <3>2. todo[t] \in Seq(Range(todo[t])) BY <1>6
      <3> HIDE DEF Called
      <3> QED BY <3>1, <3>2
    <2>2. todo \in [Threads -> Seq(Called)] BY <1>6, <2>1
    <2>3. act = [t \in Threads |-> act[t]] /\ holder \in [Locks -> Threads \cup {Nil}] BY <1>1
    <2>4. /\ syserr = [fp |-> syserr.fp, puts |-> syserr.puts, changes |-> syserr.changes,
                       crossed |-> syserr.crossed]
          /\ log = [port |-> log.port, puts |-> log.puts, lf |-> log.lf, crossed |-> log.crossed] BY <1>1
    <2>5. syserr.changes \in Nat BY <1>3
    <2>6. syserr.crossed \in BOOLEAN /\ log.crossed \in BOOLEAN /\ sysprn.opened \in BOOLEAN
      <3>1. syserr.crossed = FALSE /\ log.crossed = FALSE /\ sysprn.opened = FALSE BY <1>2, <1>3
      <3>2. FALSE \in BOOLEAN OBVIOUS
      <3> QED BY <3>1, <3>2, Zenon
    <2>7. \A t \in Threads : Doing(act[t]) BY <1>5
    <2> QED BY <1>2, <2>2, <2>3, <2>4, <2>5, <2>6, <2>7 DEF Typed
  <1>9. Locking
    <2>1. \A t \in Threads, l \in Locks : ~Holds(t, l) BY <1>5, <1>6 DEF Holds
    <2>2. \A t \in Threads, l \in Locks : holder[l] # t BY <1>1, <1>7
    <2>3. holder["sysprn_lf"] = Nil BY <1>1 DEF Locks
    <2> QED BY <1>2, <1>5, <1>6, <2>1, <2>2, <2>3 DEF Locking
  <1>10. port = [p \in Ports |-> port[p]] /\ \A p \in Ports : port[p].got = <<>> /\ port[p].open = TRUE /\ IsPort(port[p])
    <2> DEFINE e == <<>>  room(p) == IF p \in Streams THEN RoomOf[p] ELSE 0
    <2>1. port = [p \in Ports |-> [got |-> e, open |-> TRUE, room |-> room(p)]] BY DEF Init
    <2>2. IsSequence(e) /\ DOMAIN e = {}
      <3>1. Len(e) = 0 /\ e = [i \in 1 .. 0 |-> e[i]] BY EmptySeq
      <3> QED BY <3>1 DEF IsSequence
    <2> HIDE DEF e, room
    <2>3. \A p \in Ports : port[p] = [got |-> e, open |-> TRUE, room |-> room(p)] BY <2>1
    <2>4. port = [p \in Ports |-> port[p]] BY <2>1
    <2>5. ASSUME NEW p \in Ports PROVE port[p].got = e /\ port[p].open = TRUE /\ IsPort(port[p])
      <3> DEFINE q == port[p]  r == room(p)
      <3>1. q = [got |-> e, open |-> TRUE, room |-> r] BY <2>3
      <3> HIDE DEF q, r
      <3>2. q.got = e /\ q.open = TRUE /\ q.room = r BY <3>1
      <3>3. q = [got |-> q.got, open |-> q.open, room |-> q.room] BY <3>1, <3>2
      <3>4. IsPort(q) BY <2>2, <3>2, <3>3 DEF IsPort
      <3> QED BY <3>2, <3>4 DEF q
    <2> QED BY <2>4, <2>5 DEF e
  <1>11. \A p \in SO : p \in Ports BY DEF SO, Ports
  <1>12. Texts
    <2>1. \A p \in SO : TextsAt(p)
      <3> SUFFICES ASSUME NEW p \in SO PROVE TextsAt(p) OBVIOUS
      <3>1. DOMAIN port[p].got = {} BY <1>10, <1>11
      <3> QED BY <3>1 DEF TextsAt
    <2> QED BY <1>5, <1>10, <2>1 DEF Texts
  <1>13. Open
    <2>1. \A t \in Threads : InHand(t) = {} BY <1>5 DEF InHand
    <2>2. \A p \in SO : port[p].open BY <1>10, <1>11
    <2> QED BY <1>6, <2>1, <2>2 DEF Open
  <1>14. Aims
    <2>1. Suits("puts_cons", Stderr) /\ Suits("puts_null", Nil) BY PrintingConstants DEF Suits
    <2>2. ErrAim BY <1>3, <1>5, <2>1 DEF ErrAim, ErrAimed, Changes
    <2>3. LogAim BY <1>3, <1>5, <2>1 DEF LogAim, LogAimed, Changes
    <2>4. SysAim BY <1>2, <1>5, <2>1 DEF SysAim, SysAimed
    <2>5. FileAim BY <1>1, <1>5 DEF FileAim, FileAimed, OfPrintf
    <2>6. StrAim BY <1>5 DEF StrAim, StrAimed
    <2> QED BY <2>2, <2>3, <2>4, <2>5, <2>6 DEF Aims
  <1>15. StrayHasCause BY <1>1 DEF StrayHasCause
  <1> QED BY <1>8, <1>9, <1>12, <1>13, <1>14, <1>15 DEF IInv

LEMMA StutterIInv ==
  ASSUME IInv, UNCHANGED vars
  PROVE IInv'
  <1>1. /\ stray' = stray /\ todo' = todo /\ act' = act /\ holder' = holder /\ syserr' = syserr
        /\ log' = log /\ sysprn' = sysprn /\ filelf' = filelf /\ port' = port BY DEF vars
  <1>2. Typed' BY <1>1 DEF IInv, Typed
  <1>3. Locking' BY <1>1 DEF IInv, Locking, Holds, Speaking, Writing, Logging
  <1>4. Texts'
    <2>1. Texts BY DEF IInv
    <2>2. \A p \in Ports : IsPort(port[p]) <=> IsPort(port[p])' BY <1>1 DEF IsPort, IsSequence, IsPiece
    <2>3. \A t \in Threads : Speaking(act[t]) <=> Speaking(act[t])' BY <1>1 DEF Speaking
    <2>4. \A p \in SO : TextsAt(p) <=> TextsAt(p)'
      <3> SUFFICES ASSUME NEW p \in SO PROVE TextsAt(p) <=> TextsAt(p)' OBVIOUS
      <3>1. port'[p].got = port[p].got BY <1>1
      <3>2. ASSUME NEW g PROVE Gone(g) <=> Gone(g)' BY <1>1 DEF Gone, Current, Speaking
      <3>3. ASSUME NEW g, NEW h PROVE Apart(g, h) <=> Apart(g, h)'
        BY <1>1 DEF Apart, Current, Speaking, SameContext, SameMessage
      <3>4. ASSUME NEW g, NEW h, NEW k PROVE Between(g, h, k) <=> Between(g, h, k)'
        BY DEF Between, SameMessage, SameContext
      <3> QED BY <3>1, <3>2, <3>3, <3>4 DEF TextsAt
    <2> QED BY <1>1, <2>1, <2>2, <2>3, <2>4 DEF Texts
  <1>5. Open' BY <1>1 DEF IInv, Open, InHand, Speaking
  <1>6. Aims'
    <2>1. ErrAim' BY <1>1 DEF IInv, Aims, ErrAim, ErrAimed, Changing, Speaking, Writing, Suits
    <2>2. LogAim' BY <1>1 DEF IInv, Aims, LogAim, LogAimed, Changing, Speaking, Writing, Suits
    <2>3. SysAim' BY <1>1 DEF IInv, Aims, SysAim, SysAimed, Speaking, Suits
    <2>4. FileAim' BY <1>1 DEF IInv, Aims, FileAim, FileAimed, OfPrintf, Speaking
    <2>5. StrAim' BY <1>1 DEF IInv, Aims, StrAim, StrAimed, Speaking
    <2> QED BY <2>1, <2>2, <2>3, <2>4, <2>5 DEF Aims
  <1>7. StrayHasCause' BY <1>1 DEF IInv, StrayHasCause
  <1> QED BY <1>2, <1>3, <1>4, <1>5, <1>6, <1>7 DEF IInv

LEMMA StepIInv ==
  ASSUME IInv, NEW t \in Threads, Step(t)
  PROVE IInv'
  <1>1. CASE vxprintf(t) BY <1>1, VxprintfKeeps
  <1>2. CASE err_vlog(t) BY <1>2, ErrVlogKeeps
  <1>3. CASE ErrLock(t) BY <1>3, ErrLockKeeps
  <1>4. CASE ErrEnd(t) BY <1>4, ErrEndKeeps
  <1>5. CASE err_change_port(t) BY <1>5, ErrChangePortKeeps
  <1>6. CASE ErrChange(t) BY <1>6, ErrChangeKeeps
  <1>7. CASE uls_vlog(t) BY <1>7, UlsVlogKeeps
  <1>8. CASE LogLf(t) BY <1>8, LogLfKeeps
  <1>9. CASE LogEnd(t) BY <1>9, LogEndKeeps
  <1>10. CASE uls_log_change(t) BY <1>10, LogChangeBegins
  <1>11. CASE LogChange(t) BY <1>11, LogChangeKeeps
  <1>12. CASE uls_sysprn_open(t) BY <1>12, SysprnOpenKeeps
  <1>13. CASE SysprnLock(t) BY <1>13, SysprnLockKeeps
  <1>14. CASE uls_sysprn_set_tabsiz(t) BY <1>14, SetTabsizKeeps
  <1>15. CASE uls_sysprn_tabs(t) BY <1>15, SysprnTabsKeeps
  <1>16. CASE SysprnEnd(t) BY <1>16, SysprnEndKeeps
  <1>17. CASE uls_sysprn_close(t) BY <1>17, SysprnCloseKeeps
  <1>18. CASE uls_vprintf(t) BY <1>18, VprintfKeeps
  <1>19. CASE PrintfEnd(t) BY <1>19, PrintfEndKeeps
  <1>20. CASE uls_vfprintf(t) BY <1>20, VfprintfKeeps
  <1>21. CASE uls_vsnprintf(t) BY <1>21, VsnprintfKeeps
  <1>22. CASE LockedEnd(t) BY <1>22, LockedEndKeeps
  <1>23. CASE Register(t) BY <1>23, RegisterKeeps
  <1>24. CASE ClosePort(t) BY <1>24, ClosePortKeeps
  <1> QED BY <1>1, <1>2, <1>3, <1>4, <1>5, <1>6, <1>7, <1>8, <1>9, <1>10, <1>11, <1>12, <1>13, <1>14,
             <1>15, <1>16, <1>17, <1>18, <1>19, <1>20, <1>21, <1>22, <1>23, <1>24 DEF Step

\* The invariant holds in every state of every run.
THEOREM SpecIInv == Spec => []IInv
  <1>1. Init => IInv BY InitIInv
  <1>2. IInv /\ [Next]_vars => IInv'
    <2> SUFFICES ASSUME IInv, [Next]_vars PROVE IInv' OBVIOUS
    <2>1. CASE Next BY <2>1, StepIInv DEF Next
    <2>2. CASE UNCHANGED vars BY <2>2, StutterIInv
    <2> QED BY <2>1, <2>2
  <1> QED BY <1>1, <1>2, PTL DEF Spec

\* What threads print reaches the port it was meant for, or a change of the
\* port explains that it did not; and no message of a context (uls_log.c,
\* uls_print.c) has a text of another of the same context between its own.
THEOREM MessagesArriveHolds == Spec => []MessagesArrive
  <1>1. IInv => MessagesArrive
    <2> SUFFICES ASSUME IInv PROVE MessagesWhole BY DEF IInv, MessagesArrive
    <2> SUFFICES ASSUME NEW p \in SO, NEW i \in DOMAIN port[p].got, NEW j \in DOMAIN port[p].got,
                        NEW k \in DOMAIN port[p].got, i < j, j < k,
                        port[p].got[i].by = port[p].got[k].by, port[p].got[i].left = port[p].got[k].left,
                        LockOf(port[p].got[j].way) = LockOf(port[p].got[i].way)
                 PROVE port[p].got[j].by = port[p].got[i].by /\ port[p].got[j].left = port[p].got[i].left
      BY DEF MessagesWhole, SO
    <2>1. TextsAt(p) BY DEF IInv, Texts
    <2>2. Between(port[p].got[i], port[p].got[j], port[p].got[k]) BY <2>1 DEF TextsAt
    <2> QED BY <2>2 DEF Between, SameMessage, SameContext
  <1> QED BY <1>1, SpecIInv, PTL
=============================================================================
