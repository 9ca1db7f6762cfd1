----------------------------- MODULE Flattening -----------------------------
(***************************************************************************)
(* What FlattenSeq() of the community modules makes of a sequence of       *)
(* sequences of any length: a stack's queue is flattened from its contexts *)
(* (LexContext), a text from the bytes of its characters (UtfSource).      *)
(* FlattenSeq() is defined by recursion over the length, so the lemmas     *)
(* need an induction; it is done by the least number for which a fact      *)
(* fails (Least), a fact about sets.                                       *)
(***************************************************************************)
EXTENDS Integers, SequencesExt, SequenceTheorems, NaturalsInduction, WellFoundedInduction, TLAPS

LessThan == {p \in Nat \X Nat : p[1] < p[2]}

(* Every set of natural numbers has a least one.                           *)
LEMMA Least ==
  ASSUME NEW T, T \subseteq Nat, T # {}
  PROVE  \E n \in T : \A m \in T : n <= m
<1>1. IsWellFoundedOn(LessThan, Nat)
  BY NatLessThanWellFounded DEF OpToRel, LessThan
<1>2. PICK n \in T : \A m \in T : ~(<<m, n>> \in LessThan)
  BY <1>1, WFMin
<1>3. ASSUME NEW m \in T PROVE n <= m
  <2>1. n \in Nat /\ m \in Nat
    OBVIOUS
  <2>2. ~(m < n)
    BY <1>2, <2>1 DEF LessThan
  <2> QED
    BY <2>1, <2>2
<1> QED
  BY <1>3

(* Three sequences behind one another.                                     *)
LEMMA Associative ==
  ASSUME NEW S, NEW s \in Seq(S), NEW t \in Seq(S), NEW u \in Seq(S)
  PROVE  (s \o t) \o u = s \o (t \o u)
  BY ConcatAssociative

(* A sequence put in front of another.                                     *)
LEMMA InFront ==
  ASSUME NEW S, NEW s \in Seq(S), NEW c \in S
  PROVE  /\ <<c>> \o s \in Seq(S) /\ <<c>> \o s # <<>>
         /\ Len(<<c>> \o s) = Len(s) + 1
         /\ (<<c>> \o s)[1] = c
         /\ Head(<<c>> \o s) = c /\ Tail(<<c>> \o s) = s
         /\ \A i \in 1..Len(s) : (<<c>> \o s)[i + 1] = s[i]
<1>1. <<c>> \in Seq(S) /\ Len(<<c>>) = 1 /\ <<c>>[1] = c
  OBVIOUS
<1>2. /\ <<c>> \o s \in Seq(S) /\ Len(<<c>> \o s) = Len(s) + 1
      /\ \A i \in 1..Len(s) + 1 : (<<c>> \o s)[i] = IF i <= 1 THEN <<c>>[i] ELSE s[i - 1]
  BY <1>1, ConcatProperties
<1>3. Len(s) \in Nat
  OBVIOUS
<1>4. /\ (<<c>> \o s)[1] = c /\ <<c>> \o s # <<>>
      /\ \A i \in 1..Len(s) : (<<c>> \o s)[i + 1] = s[i]
  BY <1>1, <1>2, <1>3
<1>5. /\ Tail(<<c>> \o s) \in Seq(S) /\ Len(Tail(<<c>> \o s)) = Len(s)
      /\ \A i \in 1..Len(s) : Tail(<<c>> \o s)[i] = (<<c>> \o s)[i + 1]
      /\ Head(<<c>> \o s) = (<<c>> \o s)[1]
  BY <1>2, <1>3, <1>4, HeadTailProperties
<1>6. Tail(<<c>> \o s) = s
  BY <1>4, <1>5, SeqEqual
<1> QED
  BY <1>2, <1>4, <1>5, <1>6

(* A sequence that is not empty, as its head in front of the rest.         *)
LEMMA HeadAndTail ==
  ASSUME NEW S, NEW s \in Seq(S), s # <<>>
  PROVE  /\ Head(s) \in S /\ Tail(s) \in Seq(S) /\ s = <<Head(s)>> \o Tail(s)
         /\ Len(s) \in Nat \ {0} /\ Len(Tail(s)) = Len(s) - 1 /\ s[1] = Head(s)
         /\ \A i \in 1..Len(Tail(s)) : Tail(s)[i] = s[i + 1]
<1>1. /\ Head(s) \in S /\ Tail(s) \in Seq(S) /\ Len(Tail(s)) = Len(s) - 1
      /\ \A i \in 1..Len(Tail(s)) : Tail(s)[i] = s[i + 1]
  BY HeadTailProperties
<1>2. Len(s) \in Nat \ {0} /\ Head(s) = s[1]
  BY EmptySeq
<1>3. /\ <<Head(s)>> \o Tail(s) \in Seq(S) /\ Len(<<Head(s)>> \o Tail(s)) = Len(s)
      /\ (<<Head(s)>> \o Tail(s))[1] = s[1]
      /\ \A i \in 1..Len(Tail(s)) : (<<Head(s)>> \o Tail(s))[i + 1] = Tail(s)[i]
  <2>1. /\ <<Head(s)>> \o Tail(s) \in Seq(S) /\ Len(<<Head(s)>> \o Tail(s)) = Len(Tail(s)) + 1
        /\ (<<Head(s)>> \o Tail(s))[1] = Head(s)
        /\ \A i \in 1..Len(Tail(s)) : (<<Head(s)>> \o Tail(s))[i + 1] = Tail(s)[i]
    BY <1>1, InFront
  <2> QED
    BY <1>1, <1>2, <2>1
<1>4. ASSUME NEW i \in 1..Len(s) PROVE (<<Head(s)>> \o Tail(s))[i] = s[i]
  <2>1. CASE i = 1
    BY <2>1, <1>3
  <2>2. CASE i # 1
    <3>1. i - 1 \in 1..Len(Tail(s)) /\ i = (i - 1) + 1
      BY <2>2, <1>1, <1>2
    <3> QED
      BY <3>1, <1>1, <1>3
  <2> QED
    BY <2>1, <2>2
<1> QED
  BY <1>1, <1>2, <1>3, <1>4, SeqEqual
-----------------------------------------------------------------------------
(* The recursion of FlattenSeq(): r[i] is what the first i elements make.  *)
Run(s, r, i) == IF i = 1 THEN s[i] ELSE r[i - 1] \o s[i]
Runs(s, n, r) == r = [i \in 1..n |-> Run(s, r, i)]

(* What it has at i.                                                       *)
LEMMA RunAt ==
  ASSUME NEW s, NEW n, NEW r, Runs(s, n, r), NEW i \in 1..n
  PROVE  r[i] = Run(s, r, i)
  BY DEF Runs

(* There is one, of sequences, ...                                         *)
LEMMA RunExists ==
  ASSUME NEW S, NEW s \in Seq(Seq(S)), NEW n \in 0..Len(s)
  PROVE  \E r \in [1..n -> Seq(S)] : Runs(s, n, r)
<1> DEFINE Has(k) == \E r \in [1..k -> Seq(S)] : Runs(s, k, r)
           Fails == {k \in Nat : k <= Len(s) /\ ~Has(k)}
<1> HIDE DEF Has
<1>1. Has(0)
  <2>1. [i \in 1..0 |-> <<>>] \in [1..0 -> Seq(S)] /\ Runs(s, 0, [i \in 1..0 |-> <<>>])
    BY DEF Runs
  <2> QED
    BY <2>1 DEF Has
<1>2. ASSUME NEW k \in Nat, k < Len(s), Has(k) PROVE Has(k + 1)
  <2>1. PICK r \in [1..k -> Seq(S)] : Runs(s, k, r)
    BY <1>2 DEF Has
  <2> DEFINE q == [i \in 1..k + 1 |-> IF i <= k THEN r[i] ELSE IF i = 1 THEN s[i] ELSE r[k] \o s[i]]
  <2>2. \A i \in 1..k + 1 : s[i] \in Seq(S)
    BY <1>2
  <2>3. k # 0 => r[k] \in Seq(S)
    BY <1>2, <2>1
  <2>4. q \in [1..k + 1 -> Seq(S)]
    BY <2>1, <2>2, <2>3
  <2>5. ASSUME NEW i \in 1..k + 1 PROVE q[i] = Run(s, q, i)
    <3>1. CASE i <= k
      <4>1. i \in 1..k /\ q[i] = r[i] /\ (i # 1 => q[i - 1] = r[i - 1])
        BY <3>1, <1>2
      <4>2. r[i] = Run(s, r, i)
        BY <4>1, <2>1, RunAt
      <4> HIDE DEF q
      <4> QED
        BY <4>1, <4>2 DEF Run
    <3>2. CASE i = k + 1
      <4>1. q[i] = (IF i = 1 THEN s[i] ELSE r[k] \o s[i]) /\ (i # 1 => q[i - 1] = r[k])
        BY <3>2, <1>2
      <4> HIDE DEF q
      <4> QED
        BY <4>1 DEF Run
    <3>3. i <= k \/ i = k + 1
      BY <1>2
    <3> HIDE DEF q
    <3> QED
      BY <3>1, <3>2, <3>3
  <2>6. Runs(s, k + 1, q)
    BY <2>5, Zenon DEF Runs
  <2> QED
    BY <2>4, <2>6 DEF Has
<1>3. Fails = {}
  <2> SUFFICES ASSUME Fails # {} PROVE FALSE
    OBVIOUS
  <2>1. PICK k \in Fails : \A m \in Fails : k <= m
    BY Least
  <2>2. k # 0
    BY <2>1, <1>1
  <2>3. k - 1 \in Nat /\ k - 1 < Len(s) /\ (k - 1) + 1 = k /\ k - 1 \notin Fails
    BY <2>1, <2>2
  <2> QED
    BY <2>1, <2>3, <1>2
<1>4. n \in Nat /\ n <= Len(s)
  OBVIOUS
<1>5. Has(n)
  BY <1>3, <1>4
<1> QED
  BY <1>5 DEF Has

(* ... and only one.                                                       *)
LEMMA RunUnique ==
  ASSUME NEW s, NEW n \in Nat, NEW m \in Nat, NEW r, NEW q,
         Runs(s, n, r), Runs(s, m, q)
  PROVE  \A i \in 1..n : i <= m => r[i] = q[i]
<1> DEFINE Fails == {i \in 1..n : i <= m /\ r[i] # q[i]}
<1> SUFFICES ASSUME Fails # {} PROVE FALSE
  OBVIOUS
<1>1. PICK i \in Fails : \A j \in Fails : i <= j
  <2>1. Fails \subseteq Nat
    OBVIOUS
  <2> HIDE DEF Fails
  <2> QED
    BY <2>1, Least
<1>2. r[i] = Run(s, r, i) /\ q[i] = Run(s, q, i)
  <2>1. i \in 1..n /\ i \in 1..m
    BY <1>1
  <2> QED
    BY <2>1, RunAt
<1>3. i # 1 /\ i - 1 \in 1..n /\ i - 1 <= m /\ i - 1 \notin Fails
  <2>1. i # 1
    BY <1>1, <1>2 DEF Run
  <2> QED
    BY <1>1, <2>1
<1>4. r[i - 1] = q[i - 1]
  BY <1>3
<1> QED
  BY <1>1, <1>2, <1>4 DEF Run

(* What FlattenSeq() is, by any run.                                       *)
LEMMA FlattenIsRun ==
  ASSUME NEW S, NEW s \in Seq(Seq(S)), s # <<>>, NEW r, Runs(s, Len(s), r)
  PROVE  FlattenSeq(s) = r[Len(s)]
<1> DEFINE q == CHOOSE p : Runs(s, Len(s), p)
<1>1. Len(s) \in Nat \ {0}
  BY EmptySeq
<1>2. FlattenSeq(s) = q[Len(s)]
  BY <1>1 DEF FlattenSeq, Runs, Run
<1>3. Runs(s, Len(s), q)
  OBVIOUS
<1> HIDE DEF q
<1>4. r[Len(s)] = q[Len(s)]
  BY <1>1, <1>3, RunUnique
<1> QED
  BY <1>2, <1>4
-----------------------------------------------------------------------------
(* Nothing flattened is nothing, and one sequence is itself.               *)
LEMMA FlattenEmpty == FlattenSeq(<<>>) = <<>>
  BY DEF FlattenSeq

(* Flattening sequences over S gives one over S.                           *)
LEMMA FlattenType ==
  ASSUME NEW S, NEW s \in Seq(Seq(S))
  PROVE  FlattenSeq(s) \in Seq(S)
<1>1. CASE s = <<>>
  BY <1>1, FlattenEmpty, EmptySeq
<1>2. CASE s # <<>>
  <2>1. Len(s) \in 0..Len(s) /\ Len(s) \in 1..Len(s)
    BY <1>2, EmptySeq
  <2>2. PICK r \in [1..Len(s) -> Seq(S)] : Runs(s, Len(s), r)
    BY <2>1, RunExists
  <2> QED
    BY <1>2, <2>1, <2>2, FlattenIsRun
<1> QED
  BY <1>1, <1>2

(* A sequence behind the others comes last.                                *)
LEMMA FlattenAppend ==
  ASSUME NEW S, NEW s \in Seq(Seq(S)), NEW c \in Seq(S)
  PROVE  FlattenSeq(Append(s, c)) = FlattenSeq(s) \o c
<1> DEFINE t == Append(s, c)
           n == Len(s)
<1>1. /\ t \in Seq(Seq(S)) /\ t # <<>> /\ Len(t) = n + 1 /\ n \in Nat
      /\ t[n + 1] = c /\ \A i \in 1..n : t[i] = s[i]
  BY AppendProperties
<1>2. n + 1 \in 0..Len(t)
  BY <1>1
<1>3. PICK r \in [1..n + 1 -> Seq(S)] : Runs(t, n + 1, r)
  BY <1>1, <1>2, RunExists
<1>4. FlattenSeq(t) = r[n + 1]
  BY <1>1, <1>3, FlattenIsRun
<1>5. r[n + 1] = Run(t, r, n + 1)
  BY <1>1, <1>3, RunAt
<1>6. CASE n = 0
  <2>1. s = <<>>
    BY <1>6, EmptySeq
  <2>2. r[n + 1] = c
    BY <1>1, <1>5, <1>6 DEF Run
  <2>3. FlattenSeq(s) = <<>> /\ <<>> \o c = c
    BY <2>1, FlattenEmpty, ConcatEmptySeq
  <2> QED
    BY <1>4, <2>2, <2>3
<1>7. CASE n # 0
  <2> DEFINE q == [i \in 1..n |-> r[i]]
  <2>1. ASSUME NEW i \in 1..n PROVE q[i] = Run(s, q, i)
    <3>1. i \in 1..n + 1 /\ t[i] = s[i] /\ q[i] = r[i] /\ (i # 1 => q[i - 1] = r[i - 1])
      BY <1>1
    <3>2. r[i] = Run(t, r, i)
      BY <1>3, <3>1, RunAt
    <3> HIDE DEF q
    <3> QED
      BY <3>1, <3>2 DEF Run
  <2>2. Runs(s, n, q)
    BY <2>1, Zenon DEF Runs
  <2>3. FlattenSeq(s) = q[n]
    BY <1>7, <2>2, FlattenIsRun, EmptySeq
  <2>4. q[n] = r[n] /\ n + 1 - 1 = n /\ n + 1 # 1
    BY <1>1, <1>7
  <2>5. r[n + 1] = r[n] \o c
    BY <1>1, <1>5, <2>4 DEF Run
  <2> HIDE DEF q
  <2> QED
    BY <1>4, <2>3, <2>4, <2>5
<1> QED
  BY <1>6, <1>7

(* A sequence in front of the others comes first.                          *)
LEMMA FlattenCons ==
  ASSUME NEW S, NEW s \in Seq(Seq(S)), NEW c \in Seq(S)
  PROVE  FlattenSeq(<<c>> \o s) = c \o FlattenSeq(s)
<1>0. \A x, y \in Seq(S) : (c \o x) \o y = c \o (x \o y)
  BY Associative
<1> DEFINE t == <<c>> \o s
           n == Len(s)
<1>1. /\ t \in Seq(Seq(S)) /\ t # <<>> /\ Len(t) = n + 1 /\ n \in Nat
      /\ t[1] = c /\ \A i \in 1..n : t[i + 1] = s[i]
  <2> HIDE DEF t, n
  <2>1. /\ t \in Seq(Seq(S)) /\ t # <<>> /\ Len(t) = Len(s) + 1
        /\ t[1] = c /\ \A i \in 1..Len(s) : t[i + 1] = s[i]
    BY InFront DEF t
  <2> QED
    BY <2>1, LenProperties DEF n
<1>2. n + 1 \in 0..Len(t) /\ n \in 0..Len(s)
  BY <1>1
<1>3. PICK r \in [1..n + 1 -> Seq(S)] : Runs(t, n + 1, r)
  BY <1>1, <1>2, RunExists
<1>4. PICK q \in [1..n -> Seq(S)] : Runs(s, n, q)
  BY <1>2, RunExists
<1>5. r[1] = c /\ FlattenSeq(t) = r[n + 1]
  <2>1. 1 \in 1..n + 1
    BY <1>1
  <2> HIDE DEF t
  <2>2. r[1] = t[1]
    <3>1. r[1] = Run(t, r, 1)
      BY <1>3, <2>1, RunAt
    <3> QED
      BY <3>1 DEF Run
  <2>3. Runs(t, Len(t), r)
    BY <1>1, <1>3
  <2>4. FlattenSeq(t) = r[Len(t)]
    BY <1>1, <2>3, FlattenIsRun
  <2> QED
    BY <1>1, <2>2, <2>4
<1> HIDE DEF t
<1> DEFINE Fails == {i \in 1..n : r[i + 1] # c \o q[i]}
<1>6. Fails = {}
  <2> SUFFICES ASSUME Fails # {} PROVE FALSE
    OBVIOUS
  <2>1. PICK i \in Fails : \A j \in Fails : i <= j
    <3>1. Fails \subseteq Nat
      OBVIOUS
    <3> HIDE DEF Fails
    <3> QED
      BY <3>1, Least
  <2>2. i \in 1..n /\ i + 1 \in 1..n + 1 /\ i + 1 # 1 /\ i + 1 - 1 = i
    BY <1>1, <2>1
  <2>3. r[i + 1] = r[i] \o s[i]
    <3>1. r[i + 1] = Run(t, r, i + 1)
      BY <1>3, <2>2, RunAt
    <3>2. \A j : j # 1 /\ j - 1 = i => Run(t, r, j) = r[i] \o t[j]
      BY DEF Run
    <3>3. i + 1 # 1 /\ (i + 1) - 1 = i
      BY <2>2
    <3>4. r[i + 1] = r[i] \o t[i + 1]
      BY <3>1, <3>2, <3>3, Zenon
    <3> QED
      BY <1>1, <2>2, <3>4
  <2>4. q[i] = IF i = 1 THEN s[i] ELSE q[i - 1] \o s[i]
    <3>1. q[i] = Run(s, q, i)
      BY <1>4, <2>2, RunAt
    <3> QED
      BY <3>1 DEF Run
  <2>5. i # 1
    BY <1>5, <2>1, <2>3, <2>4
  <2>6. i - 1 \in 1..n /\ (i - 1) + 1 = i /\ i - 1 \notin Fails
    <3>1. i - 1 \in 1..n /\ (i - 1) + 1 = i
      BY <1>1, <2>2, <2>5
    <3>2. ~(i <= i - 1)
      BY <2>2
    <3> HIDE DEF Fails
    <3> QED
      BY <2>1, <3>1, <3>2
  <2>7. r[i] = c \o q[i - 1]
    BY <2>6
  <2>8. s[i] \in Seq(S) /\ q[i - 1] \in Seq(S)
    <3>1. s[i] \in Seq(S)
      BY <2>2, ElementOfSeq
    <3> QED
      BY <2>6, <3>1
  <2>9. (c \o q[i - 1]) \o s[i] = c \o (q[i - 1] \o s[i])
    BY <2>8, <1>0, Zenon
  <2> QED
    BY <2>1, <2>3, <2>4, <2>5, <2>7, <2>9
<1>7. CASE n = 0
  <2>1. s = <<>>
    BY <1>7, EmptySeq
  <2> QED
    <3>1. r[n + 1] = c /\ FlattenSeq(s) = <<>> /\ c \o <<>> = c
      BY <1>5, <1>7, <2>1, FlattenEmpty, ConcatEmptySeq
    <3> QED
      BY <1>5, <3>1 DEF t
<1>8. CASE n # 0
  <2>1. n \in 1..n /\ s # <<>>
    BY <1>1, <1>8, EmptySeq
  <2>2. FlattenSeq(s) = q[n]
    BY <1>4, <2>1, FlattenIsRun
  <2>3. r[n + 1] = c \o q[n]
    BY <1>6, <2>1
  <2> QED
    BY <1>5, <2>2, <2>3 DEF t
<1> QED
  BY <1>7, <1>8
-----------------------------------------------------------------------------
(* The same with a recursion that starts at nothing, as LexContext has it. *)
Joins(s, r) == r = [i \in 0..Len(s) |-> IF i = 0 THEN <<>> ELSE r[i - 1] \o s[i]]

(* The function that joins the first i pieces, for each i, exists.         *)
LEMMA JoinExists ==
  ASSUME NEW S, NEW s \in Seq(Seq(S))
  PROVE  \E r : Joins(s, r)
<1>1. Len(s) \in Nat /\ Len(s) \in 0..Len(s)
  BY LenProperties
<1>2. PICK q \in [1..Len(s) -> Seq(S)] : Runs(s, Len(s), q)
  BY <1>1, RunExists
<1> DEFINE r == [i \in 0..Len(s) |-> IF i = 0 THEN <<>> ELSE q[i]]
<1>3. ASSUME NEW i \in 1..Len(s) PROVE r[i] = r[i - 1] \o s[i]
  <2>1. q[i] = Run(s, q, i) /\ s[i] \in Seq(S)
    BY <1>2, RunAt, ElementOfSeq
  <2>2. CASE i = 1
    <3>1. r[i] = s[i] /\ r[i - 1] = <<>>
      BY <1>1, <2>1, <2>2 DEF Run
    <3> HIDE DEF r
    <3> QED
      BY <2>1, <3>1, ConcatEmptySeq
  <2>3. CASE i # 1
    <3>1. r[i] = q[i] /\ r[i - 1] = q[i - 1]
      BY <1>1, <2>3
    <3> HIDE DEF r
    <3> QED
      BY <2>1, <2>3, <3>1 DEF Run
  <2> QED
    BY <2>2, <2>3
<1>4. r = [i \in 0..Len(s) |-> IF i = 0 THEN <<>> ELSE r[i - 1] \o s[i]]
  <2>1. ASSUME NEW i \in 0..Len(s)
        PROVE  r[i] = IF i = 0 THEN <<>> ELSE r[i - 1] \o s[i]
    <3>1. i = 0 => r[i] = <<>>
      OBVIOUS
    <3>2. i # 0 => i \in 1..Len(s)
      BY <1>1
    <3> HIDE DEF r
    <3> QED
      BY <1>3, <3>1, <3>2
  <2> QED
    BY <2>1, Zenon
<1> QED
  BY <1>4, Zenon DEF Joins

(* All the pieces joined are the flattened sequence.                       *)
LEMMA JoinIsFlat ==
  ASSUME NEW S, NEW s \in Seq(Seq(S)), NEW r, Joins(s, r)
  PROVE  r[Len(s)] = FlattenSeq(s)
<1>1. Len(s) \in Nat
  BY LenProperties
<1>2. \A i \in 0..Len(s) : r[i] = IF i = 0 THEN <<>> ELSE r[i - 1] \o s[i]
  BY DEF Joins
<1>3. CASE s = <<>>
  BY <1>1, <1>2, <1>3, FlattenEmpty, EmptySeq
<1>4. CASE s # <<>>
  <2> DEFINE q == [i \in 1..Len(s) |-> r[i]]
  <2>1. ASSUME NEW i \in 1..Len(s) PROVE q[i] = Run(s, q, i)
    <3>1. q[i] = r[i] /\ (i # 1 => q[i - 1] = r[i - 1])
      BY <1>1
    <3>2. i \in 0..Len(s) /\ i # 0 /\ s[i] \in Seq(S)
      BY <1>1, ElementOfSeq
    <3>3. r[i] = r[i - 1] \o s[i]
      BY <1>2, <3>2
    <3>4. i = 1 => r[i] = s[i]
      <4>1. 0 \in 0..Len(s)
        BY <1>1
      <4>2. r[0] = <<>>
        BY <1>2, <4>1
      <4>3. i = 1 => r[i - 1] = <<>>
        BY <4>2
      <4> QED
        BY <3>2, <3>3, <4>3, ConcatEmptySeq
    <3> HIDE DEF q
    <3> QED
      BY <3>1, <3>3, <3>4 DEF Run
  <2>2. Runs(s, Len(s), q)
    BY <2>1, Zenon DEF Runs
  <2>3. FlattenSeq(s) = q[Len(s)]
    BY <1>4, <2>2, FlattenIsRun
  <2>4. q[Len(s)] = r[Len(s)]
    BY <1>4, EmptySeq
  <2> HIDE DEF q
  <2> QED
    BY <2>3, <2>4
<1> QED
  BY <1>3, <1>4
=============================================================================
