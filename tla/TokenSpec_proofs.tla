-------------------------- MODULE TokenSpec_proofs --------------------------
(***************************************************************************)
(* The table of tokens, for any names, keywords, characters and numbers    *)
(* and a specification of any length: keywords stay with their tokens      *)
(* (KeywordsKeptHolds), the lookups by name and by number agree with the   *)
(* table, the binary searches included (LookupsAgreeHolds), and destroying *)
(* the analyser releases each token once, or as often as characters share  *)
(* it, or never if the load stopped and no table holds it                  *)
(* (FreedOnceHolds).                                                       *)
(***************************************************************************)
EXTENDS TokenSpec, Flattening, FiniteSetTheorems, FunctionTheorems

Flags == {"RSVD", "REFERRED", "CHRMAP"}
Tok == [id : Int, name : Nat, aliases : SUBSET (Nat \ {0}), base : Seq(Words),
        flags : SUBSET Flags]
PastRec == [asked : SUBSET (Words \X (Nat \ {0})), clash : BOOLEAN, shared : BOOLEAN,
            stopped : BOOLEAN, renamed : BOOLEAN, moved : BOOLEAN, bare : BOOLEAN]
Reading == phase \in {"head", "body"}
Unsorted == phase \in {"head", "body", "uld", "read"}

Typed ==
  /\ phase \in {"head", "body", "uld", "read", "loaded", "refused", "gone"}
  /\ heap \in Seq(Tok) /\ NRsvd <= Len(heap)
  /\ arr \in Seq(1..Len(heap))
  /\ onech \in [Chars -> 0..Len(heap)] /\ view \in [Words -> 0..Len(heap)]
  /\ quotes \in [DOMAIN quotes -> Numbers] /\ DOMAIN quotes \subseteq Words
  /\ seed \in Int /\ nuld \in Nat
  /\ past \in PastRec

(* While lines are read the tokens stand in the order they were made; all  *)
(* of them until the characters' leave the array.                          *)
Listing ==
  /\ IsInjective(arr)
  /\ Reading => Len(arr) = Len(heap) /\ \A i \in 1..Len(arr) : arr[i] = i
  /\ phase \in {"uld", "read"} => \A t \in 1..Len(heap) : \E i \in 1..Len(arr) : arr[i] = t

(* Who releases a token: the array or a character, one of them.            *)
Referred(t) == "CHRMAP" \in heap[t].flags \/ "REFERRED" \in heap[t].flags
Owned ==
  /\ \A t \in 1..Len(heap) : ~Referred(t) =>
       /\ \E i \in 1..Len(arr) : arr[i] = t
       /\ \A c \in Chars : onech[c] # t
  /\ ~past.stopped => \A t \in 1..Len(heap) : Referred(t) => \E c \in Chars : onech[c] = t
  /\ ~past.shared => \A c, d \in Chars : onech[c] = onech[d] /\ onech[c] # 0 => c = d
  /\ past.stopped => phase \in {"refused", "gone"}

(* A keyword leads to a token of the body or of a quote mark, which bears  *)
(* the names asked for.                                                    *)
Keywords ==
  Reading =>
    /\ \A w \in Words : view[w] # 0 => view[w] > NRsvd
    /\ phase = "head" => \A w \in Words : view[w] # 0 => w \in DOMAIN quotes
    /\ \A p \in past.asked : view[p[1]] # 0 /\ Bears(view[p[1]], p[2])

(* A name is borne once.                                                   *)
Apart ==
  Reading /\ ~past.clash =>
    /\ \A r \in RSVD : heap[r].aliases = {}
    /\ \A t, u \in 1..Len(heap) : \A n \in Names : Bears(t, n) /\ Bears(u, n) => t = u

(* A number stands for one token, which is a character's when the number   *)
(* is its code; the numbers of quote marks are those of their tokens.      *)
Numbered1(t) ==
  IF "CHRMAP" \in heap[t].flags THEN \E c \in Chars : Code[c] = heap[t].id /\ onech[c] = t
                                ELSE ~Coded(heap[t].id)
Numbering ==
  Unsorted =>
    /\ \A r \in 1..NRsvd : "CHRMAP" \notin heap[r].flags
    /\ phase = "head" =>
         \A t \in (NRsvd + 1)..Len(heap) : \E w \in DOMAIN quotes : heap[t].id = quotes[w]
    /\ ~past.moved => \A t \in 1..Len(heap) : Numbered1(t)
    /\ ~past.moved /\ phase # "uld" =>
         \A t, u \in 1..Len(heap) :
           heap[t].id = heap[u].id => t = u \/ (t <= NRsvd /\ u <= NRsvd)
    /\ ~past.moved /\ ~past.bare =>
         \A w \in DOMAIN quotes : \E t \in (NRsvd + 1)..Len(heap) :
           "CHRMAP" \notin heap[t].flags /\ heap[t].id = quotes[w]

(* The part of the array a .uld line is searched in is in order.           *)
Uld ==
  phase = "uld" =>
    /\ nuld <= Len(arr)
    /\ ~past.renamed => \A i, j \in 1..nuld : i <= j => heap[arr[i]].name <= heap[arr[j]].name

(* What a loaded table is looked up for.                                   *)
NumbersLead ==
  phase = "loaded" /\ ~past.moved =>
    /\ \A t \in Live : FindVx(heap[t].id) = t
    /\ past.bare \/ \A w \in DOMAIN quotes : FindVx(quotes[w]) # 0

Counted == phase = "gone" => freed = [t \in 1..Len(heap) |-> Releases(t)]

IInv == Typed /\ Listing /\ Owned /\ Keywords /\ Apart /\ Numbering /\ Uld /\ NumbersLead /\ Counted
-----------------------------------------------------------------------------
(* The sort: a permutation of the places, in the order of the keys.        *)
Permutes(p, at, s, key) ==
  /\ p \in [1..Cardinality(at) -> at]
  /\ \A i, j \in 1..Cardinality(at) : p[i] = p[j] => i = j
  /\ \A i \in at : \E k \in 1..Cardinality(at) : p[k] = i
  /\ \A i, j \in 1..Cardinality(at) : i <= j => key[p[i]] <= key[p[j]]
  /\ Arranged(s, at, key) = [k \in 1..Cardinality(at) |-> s[p[k]]]

(* What comes before the entry at i, i included.                           *)
Before(at, key, i) == {j \in at : key[j] < key[i] \/ (key[j] = key[i] /\ j <= i)}
Place(at, key) == [i \in at |-> Cardinality(Before(at, key, i))]

LEMMA PlacesDiffer ==
  ASSUME NEW at, IsFiniteSet(at), at \subseteq Nat, NEW key, \A i \in at : key[i] \in Int,
         NEW i \in at, NEW j \in at, key[i] < key[j] \/ (key[i] = key[j] /\ i < j)
  PROVE  Cardinality(Before(at, key, i)) < Cardinality(Before(at, key, j))
<1> DEFINE A == Before(at, key, i)
           B == Before(at, key, j)
<1>1. A \subseteq B /\ B \subseteq at
  <2>1. ASSUME NEW h \in A PROVE h \in B
    <3>1. h \in at /\ (key[h] < key[i] \/ (key[h] = key[i] /\ h <= i))
      BY <2>1 DEF Before
    <3>2. h \in Nat /\ i \in Nat /\ j \in Nat /\ key[h] \in Int /\ key[i] \in Int /\ key[j] \in Int
      BY <3>1
    <3>3. key[h] < key[j] \/ (key[h] = key[j] /\ h <= j)
      BY <3>1, <3>2
    <3> QED
      BY <3>1, <3>3 DEF Before
  <2> QED
    BY <2>1 DEF Before
<1>2. j \in B /\ j \notin A
  <2>1. i \in Nat /\ j \in Nat /\ key[i] \in Int /\ key[j] \in Int
    OBVIOUS
  <2>2. key[j] = key[j] /\ j <= j /\ ~(key[j] < key[i] \/ (key[j] = key[i] /\ j <= i))
    BY <2>1
  <2> QED
    BY <2>2 DEF Before
<1> HIDE DEF A, B
<1>3. IsFiniteSet(B) /\ IsFiniteSet(A)
  BY <1>1, FS_Subset
<1>4. Cardinality(A) <= Cardinality(B) /\ (Cardinality(B) = Cardinality(A) => B = A)
  BY <1>1, <1>3, FS_Subset
<1>5. Cardinality(A) \in Nat /\ Cardinality(B) \in Nat
  BY <1>3, FS_CardinalityType
<1>6. Cardinality(A) < Cardinality(B)
  BY <1>2, <1>4, <1>5
<1> QED
  BY <1>6 DEF A, B

Ranks(at, key) ==
  /\ Cardinality(at) \in Nat
  /\ Place(at, key) \in [at -> 1..Cardinality(at)]
  /\ \A i, j \in at : Place(at, key)[i] = Place(at, key)[j] => i = j
  /\ \A i, j \in at : Place(at, key)[i] <= Place(at, key)[j] => key[i] <= key[j]
  /\ \A k \in 1..Cardinality(at) : \E i \in at : Place(at, key)[i] = k

LEMMA PlacesAre ==
  ASSUME NEW at, IsFiniteSet(at), at \subseteq Nat, NEW key, \A i \in at : key[i] \in Int
  PROVE  Ranks(at, key)
<1> DEFINE n == Cardinality(at)
           pl == Place(at, key)
<1>1. n \in Nat
  BY FS_CardinalityType
<1>2. ASSUME NEW i \in at PROVE pl[i] \in 1..n
  <2> DEFINE B == Before(at, key, i)
  <2>1. B \subseteq at
    BY DEF Before
  <2>2. i \in B
    <3>1. i \in Nat /\ key[i] \in Int
      OBVIOUS
    <3>2. i <= i /\ key[i] = key[i]
      BY <3>1
    <3> QED
      BY <3>2 DEF Before
  <2>3. pl[i] = Cardinality(B)
    BY DEF Place
  <2> HIDE DEF B, pl
  <2>4. IsFiniteSet(B) /\ Cardinality(B) <= n
    BY <2>1, FS_Subset
  <2>5. Cardinality(B) \in Nat /\ Cardinality(B) # 0
    BY <2>2, <2>4, FS_CardinalityType, FS_EmptySet
  <2> HIDE DEF n
  <2> QED
    BY <1>1, <2>3, <2>4, <2>5
<1>3. pl \in [at -> 1..n]
  <2>1. pl = [i \in at |-> pl[i]]
    BY DEF Place
  <2> HIDE DEF pl, n
  <2> QED
    BY <1>2, <2>1
<1>4. ASSUME NEW i \in at, NEW j \in at, key[i] < key[j] \/ (key[i] = key[j] /\ i < j)
      PROVE  pl[i] < pl[j]
  <2>1. pl[i] = Cardinality(Before(at, key, i)) /\ pl[j] = Cardinality(Before(at, key, j))
    BY DEF Place
  <2> HIDE DEF pl
  <2> QED
    BY <1>4, <2>1, PlacesDiffer
<1>5. ASSUME NEW i \in at, NEW j \in at, pl[i] = pl[j] PROVE i = j
  <2>1. i \in Nat /\ j \in Nat /\ key[i] \in Int /\ key[j] \in Int /\ pl[i] \in 1..n /\ pl[j] \in 1..n
    BY <1>2
  <2>2. ~(pl[i] < pl[j]) /\ ~(pl[j] < pl[i])
    BY <1>5, <2>1
  <2>3. ~(key[i] < key[j]) /\ ~(key[j] < key[i]) /\ ~(key[i] = key[j] /\ i < j) /\ ~(key[j] = key[i] /\ j < i)
    BY <1>4, <2>2
  <2> QED
    BY <2>1, <2>3
<1>6. ASSUME NEW i \in at, NEW j \in at, pl[i] <= pl[j] PROVE key[i] <= key[j]
  <2>1. key[i] \in Int /\ key[j] \in Int /\ pl[i] \in 1..n /\ pl[j] \in 1..n
    BY <1>2
  <2>2. ~(pl[j] < pl[i])
    BY <1>6, <2>1
  <2>3. ~(key[j] < key[i])
    BY <1>4, <2>2
  <2> QED
    BY <2>1, <2>3
<1> HIDE DEF pl
<1>7. \A k \in 1..n : \E i \in at : pl[i] = k
  <2>1. pl \in Injection(at, 1..n)
    BY <1>3, <1>5, Fun_IsInj
  <2>2. IsFiniteSet(1..n) /\ Cardinality(1..n) = n
    <3>1. IsFiniteSet(1..n) /\ Cardinality(1..n) = IF 1 > n THEN 0 ELSE n - 1 + 1
      BY <1>1, FS_Interval
    <3> HIDE DEF n
    <3> QED
      BY <1>1, <3>1
  <2>3. pl \in Surjection(at, 1..n)
    BY <2>1, <2>2, FS_Injection
  <2> QED
    BY <2>3, Fun_SurjectionProperties
<1> QED
  BY <1>1, <1>3, <1>5, <1>6, <1>7 DEF pl, n, Ranks

LEMMA ArrangedPermutes ==
  ASSUME NEW s, NEW at, IsFiniteSet(at), at \subseteq Nat, NEW key, \A i \in at : key[i] \in Int
  PROVE  Cardinality(at) \in Nat /\ \E p : Permutes(p, at, s, key)
<1> DEFINE n == Cardinality(at)
           pl == Place(at, key)
           p == [k \in 1..n |-> CHOOSE i \in at : pl[i] = k]
<1>0. Ranks(at, key)
  BY PlacesAre
<1>1. n \in Nat /\ pl \in [at -> 1..n]
  BY <1>0 DEF Ranks
<1>2. \A i, j \in at : pl[i] = pl[j] => i = j
  BY <1>0 DEF Ranks
<1>3. \A i, j \in at : pl[i] <= pl[j] => key[i] <= key[j]
  BY <1>0 DEF Ranks
<1>4. \A k \in 1..n : \E i \in at : pl[i] = k
  BY <1>0 DEF Ranks
<1>5. Arranged(s, at, key) = [k \in 1..n |-> s[CHOOSE i \in at : pl[i] = k]]
  BY DEF Arranged, Place, Before
<1> HIDE DEF pl, n
<1>6. ASSUME NEW k \in 1..n PROVE p[k] \in at /\ pl[p[k]] = k /\ p[k] = CHOOSE i \in at : pl[i] = k
  BY <1>4
<1>7. p \in [1..n -> at]
  <2>1. p = [k \in 1..n |-> p[k]]
    OBVIOUS
  <2> HIDE DEF p
  <2> QED
    BY <1>6, <2>1
<1>8. Arranged(s, at, key) = [k \in 1..n |-> s[p[k]]]
  BY <1>5, <1>6
<1> HIDE DEF p
<1>9. \A i, j \in 1..n : p[i] = p[j] => i = j
  BY <1>6
<1>10. \A i \in at : \E k \in 1..n : p[k] = i
  <2>1. ASSUME NEW i \in at PROVE pl[i] \in 1..n /\ p[pl[i]] = i
    <3>1. pl[i] \in 1..n
      BY <1>1
    <3>2. p[pl[i]] \in at /\ pl[p[pl[i]]] = pl[i]
      BY <1>6, <3>1
    <3> QED
      BY <1>2, <3>1, <3>2
  <2> QED
    BY <2>1
<1>11. ASSUME NEW i \in 1..n, NEW j \in 1..n, i <= j PROVE key[p[i]] <= key[p[j]]
  <2>1. p[i] \in at /\ p[j] \in at /\ pl[p[i]] = i /\ pl[p[j]] = j
    BY <1>6
  <2>2. pl[p[i]] <= pl[p[j]]
    BY <1>11, <2>1
  <2> QED
    BY <1>3, <2>1, <2>2
<1> QED
  BY <1>1, <1>7, <1>8, <1>9, <1>10, <1>11 DEF Permutes, n
-----------------------------------------------------------------------------
(* The binary search, as a function of the interval that is left.          *)
Intervals(last) == (1..(last + 1)) \X (0..last)
Mid(i) == ((i[1] - 1) + (i[2] - 1)) \div 2 + 1
Halve(s, cmp, f, i) ==
  IF i[1] > i[2] THEN 0
  ELSE LET mid == Mid(i)
       IN IF cmp[mid] < 0 THEN f[<<mid + 1, i[2]>>]
          ELSE IF cmp[mid] > 0 THEN f[<<i[1], mid - 1>>] ELSE s[mid]
Searches(s, cmp, last, f) == f = [i \in Intervals(last) |-> Halve(s, cmp, f, i)]

(* Its middle and its halves.                                              *)
LEMMA Halves ==
  ASSUME NEW last \in Nat, NEW low \in 1..(last + 1), NEW high \in 0..last, low <= high
  PROVE  /\ Mid(<<low, high>>) \in 1..last /\ Mid(<<low, high>>) \in low..high
         /\ <<Mid(<<low, high>>) + 1, high>> \in Intervals(last)
         /\ <<low, Mid(<<low, high>>) - 1>> \in Intervals(last)
<1> DEFINE mid == Mid(<<low, high>>)
<1>1. mid = (low + high - 2) \div 2 + 1
  BY DEF Mid
<1>2. low \in Nat /\ high \in Nat /\ 1 <= low /\ high <= last
  OBVIOUS
<1> HIDE DEF mid
<1>3. mid \in low..high
  BY <1>1, <1>2
<1>4. mid \in 1..last /\ mid + 1 \in 1..(last + 1) /\ mid - 1 \in 0..last
  BY <1>2, <1>3
<1> QED
  BY <1>3, <1>4 DEF mid, Intervals

(* How much of the array an interval holds; half of it holds less.         *)
Size(i) == IF i[1] > i[2] THEN 0 ELSE i[2] - i[1] + 1

LEMMA HalvesShrink ==
  ASSUME NEW last \in Nat, NEW i \in Intervals(last), i[1] <= i[2]
  PROVE  /\ Mid(i) \in 1..last /\ Mid(i) \in i[1]..i[2]
         /\ <<Mid(i) + 1, i[2]>> \in Intervals(last) /\ <<i[1], Mid(i) - 1>> \in Intervals(last)
         /\ Size(<<Mid(i) + 1, i[2]>>) < Size(i) /\ Size(<<i[1], Mid(i) - 1>>) < Size(i)
<1>1. i[1] \in 1..(last + 1) /\ i[2] \in 0..last /\ i = <<i[1], i[2]>>
  BY DEF Intervals
<1>2. /\ Mid(i) \in 1..last /\ Mid(i) \in i[1]..i[2]
      /\ <<Mid(i) + 1, i[2]>> \in Intervals(last) /\ <<i[1], Mid(i) - 1>> \in Intervals(last)
  BY <1>1, Halves
<1> DEFINE mid == Mid(i)
<1> HIDE DEF mid
<1>3. Size(<<mid + 1, i[2]>>) < Size(i) /\ Size(<<i[1], mid - 1>>) < Size(i)
  BY <1>1, <1>2 DEF Size, mid
<1> QED
  BY <1>2, <1>3 DEF mid

LEMMA SizeIs ==
  ASSUME NEW last \in Nat, NEW i \in Intervals(last)
  PROVE  Size(i) \in 0..last
<1>1. i[1] \in 1..(last + 1) /\ i[2] \in 0..last
  BY DEF Intervals
<1> QED
  BY <1>1 DEF Size

(* There is such a function, ...                                           *)
LEMMA SearchExists ==
  ASSUME NEW s, NEW cmp, NEW last \in Nat
  PROVE  \E f : Searches(s, cmp, last, f)
<1> DEFINE Upto(k, f) == /\ f = [i \in Intervals(last) |-> f[i]]
                         /\ \A i \in Intervals(last) : Size(i) <= k => f[i] = Halve(s, cmp, f, i)
           Has(k) == \E f : Upto(k, f)
           Fails == {k \in Nat : ~Has(k)}
<1>1. Has(0)
  <2> DEFINE f == [i \in Intervals(last) |-> 0]
  <2>1. ASSUME NEW i \in Intervals(last), Size(i) <= 0 PROVE f[i] = Halve(s, cmp, f, i)
    <3>1. i[1] > i[2]
      <4>1. i[1] \in Nat /\ i[2] \in Nat
        BY DEF Intervals
      <4> QED
        BY <2>1, <4>1 DEF Size
    <3> QED
      BY <3>1 DEF Halve
  <2>2. f = [i \in Intervals(last) |-> f[i]]
    OBVIOUS
  <2> HIDE DEF f
  <2> QED
    BY <2>1, <2>2
<1>2. ASSUME NEW k \in Nat, Has(k) PROVE Has(k + 1)
  <2>1. PICK f : Upto(k, f)
    BY <1>2
  <2> DEFINE q == [i \in Intervals(last) |-> Halve(s, cmp, f, i)]
  <2>2. q = [i \in Intervals(last) |-> q[i]]
    OBVIOUS
  <2>3. \A i \in Intervals(last) : q[i] = Halve(s, cmp, f, i)
    OBVIOUS
  <2> HIDE DEF q
  <2>4. ASSUME NEW i \in Intervals(last), Size(i) <= k PROVE q[i] = f[i]
    BY <2>1, <2>3, <2>4
  <2>5. ASSUME NEW i \in Intervals(last), Size(i) <= k + 1 PROVE q[i] = Halve(s, cmp, q, i)
    <3>1. CASE i[1] > i[2]
      BY <3>1, <2>3 DEF Halve
    <3>2. CASE ~(i[1] > i[2])
      <4>1. i[1] <= i[2]
        BY <3>2 DEF Intervals
      <4>2. /\ <<Mid(i) + 1, i[2]>> \in Intervals(last) /\ <<i[1], Mid(i) - 1>> \in Intervals(last)
            /\ Size(<<Mid(i) + 1, i[2]>>) < Size(i) /\ Size(<<i[1], Mid(i) - 1>>) < Size(i)
        BY <4>1, HalvesShrink
      <4>3. /\ Size(i) \in Nat /\ Size(<<Mid(i) + 1, i[2]>>) \in Nat /\ Size(<<i[1], Mid(i) - 1>>) \in Nat
        BY <4>2, SizeIs
      <4>4. Size(<<Mid(i) + 1, i[2]>>) <= k /\ Size(<<i[1], Mid(i) - 1>>) <= k
        BY <2>5, <4>2, <4>3
      <4>5. q[<<Mid(i) + 1, i[2]>>] = f[<<Mid(i) + 1, i[2]>>] /\ q[<<i[1], Mid(i) - 1>>] = f[<<i[1], Mid(i) - 1>>]
        BY <2>4, <4>2, <4>4
      <4> QED
        BY <2>3, <4>5 DEF Halve
    <3> QED
      BY <3>1, <3>2
  <2>6. Upto(k + 1, q)
    BY <2>2, <2>5
  <2> QED
    BY <2>6
<1> HIDE DEF Has
<1>3. Fails = {}
  <2> SUFFICES ASSUME Fails # {} PROVE FALSE
    OBVIOUS
  <2>1. PICK k \in Fails : \A m \in Fails : k <= m
    <3>1. Fails \subseteq Nat
      OBVIOUS
    <3> HIDE DEF Fails
    <3> QED
      BY <3>1, Least
  <2>2. k # 0
    BY <2>1, <1>1
  <2>3. k - 1 \in Nat /\ (k - 1) + 1 = k /\ k - 1 \notin Fails
    BY <2>1, <2>2
  <2> QED
    BY <2>1, <2>3, <1>2
<1>4. PICK f : Upto(last, f)
  BY <1>3 DEF Has
<1>5. \A i \in Intervals(last) : f[i] = Halve(s, cmp, f, i)
  BY <1>4, SizeIs
<1>6. f = [i \in Intervals(last) |-> Halve(s, cmp, f, i)]
  BY <1>4, <1>5
<1> QED
  BY <1>6 DEF Searches

(* ... and what it finds is an entry that compares equal; one is found     *)
(* when there is one and the entries are in order.                         *)
LEMMA SearchFinds ==
  ASSUME NEW s, NEW cmp \in Seq(Int)
  PROVE  \/ \E m \in 1..Len(cmp) : cmp[m] = 0 /\ Search(s, cmp) = s[m]
         \/ /\ Search(s, cmp) = 0
            /\ (\A i, j \in 1..Len(cmp) : i <= j => cmp[i] <= cmp[j]) =>
                 \A m \in 1..Len(cmp) : cmp[m] # 0
<1> DEFINE last == Len(cmp)
           f == CHOOSE g : Searches(s, cmp, last, g)
           InOrder == \A i, j \in 1..last : i <= j => cmp[i] <= cmp[j]
           Good(i) == \/ \E m \in 1..last : cmp[m] = 0 /\ f[i] = s[m]
                      \/ f[i] = 0 /\ (InOrder => \A m \in i[1]..i[2] : cmp[m] # 0)
           Fails == {k \in Nat : \E i \in Intervals(last) : Size(i) = k /\ ~Good(i)}
<1>1. last \in Nat /\ \A m \in 1..last : cmp[m] \in Int
  OBVIOUS
<1>2. Search(s, cmp) = f[<<1, last>>]
  BY DEF Search, Searches, Halve, Mid, Intervals
<1>3. Searches(s, cmp, last, f)
  BY <1>1, SearchExists
<1> HIDE DEF f, last
<1>4. \A i \in Intervals(last) : f[i] = Halve(s, cmp, f, i)
  BY <1>3 DEF Searches
<1>5. ASSUME NEW i \in Intervals(last), \A j \in Intervals(last) : Size(j) < Size(i) => Good(j)
      PROVE  Good(i)
  <2>0. i[1] \in 1..(last + 1) /\ i[2] \in 0..last
    BY DEF Intervals
  <2>1. CASE i[1] > i[2]
    <3>1. f[i] = 0
      BY <1>4, <2>1 DEF Halve
    <3>2. i[1]..i[2] = {}
      BY <2>0, <2>1, <1>1
    <3> QED
      BY <3>1, <3>2
  <2>2. CASE i[1] <= i[2]
    <3> DEFINE mid == Mid(i)
    <3>1. /\ mid \in 1..last /\ mid \in i[1]..i[2]
          /\ <<mid + 1, i[2]>> \in Intervals(last) /\ <<i[1], mid - 1>> \in Intervals(last)
          /\ Size(<<mid + 1, i[2]>>) < Size(i) /\ Size(<<i[1], mid - 1>>) < Size(i)
      BY <1>1, <2>2, HalvesShrink
    <3>2. f[i] = IF cmp[mid] < 0 THEN f[<<mid + 1, i[2]>>]
                 ELSE IF cmp[mid] > 0 THEN f[<<i[1], mid - 1>>] ELSE s[mid]
      <4>1. ~(i[1] > i[2])
        BY <2>0, <2>2, <1>1
      <4> QED
        BY <1>4, <4>1 DEF Halve
    <3> HIDE DEF mid, Good
    <3>3. cmp[mid] \in Int
      BY <1>1, <3>1
    <3>4. CASE cmp[mid] < 0
      <4>1. Good(<<mid + 1, i[2]>>) /\ f[i] = f[<<mid + 1, i[2]>>]
        BY <1>5, <3>1, <3>2, <3>4
      <4>2. ASSUME InOrder, \A m \in (mid + 1)..i[2] : cmp[m] # 0, NEW m \in i[1]..i[2] PROVE cmp[m] # 0
        <5>1. CASE m <= mid
          <6>1. m \in 1..last
            BY <2>0, <1>1, <5>1
          <6>2. cmp[m] <= cmp[mid]
            BY <4>2, <5>1, <6>1, <3>1
          <6> QED
            BY <1>1, <3>3, <3>4, <6>1, <6>2
        <5>2. CASE ~(m <= mid)
          <6>1. m \in (mid + 1)..i[2]
            BY <5>2, <2>0, <1>1, <3>1
          <6> QED
            BY <4>2, <6>1
        <5> QED
          BY <5>1, <5>2
      <4> QED
        BY <4>1, <4>2 DEF Good
    <3>5. CASE cmp[mid] > 0
      <4>1. Good(<<i[1], mid - 1>>) /\ f[i] = f[<<i[1], mid - 1>>]
        <5>1. ~(cmp[mid] < 0)
          BY <3>3, <3>5
        <5> QED
          BY <1>5, <3>1, <3>2, <3>5, <5>1
      <4>2. ASSUME InOrder, \A m \in i[1]..(mid - 1) : cmp[m] # 0, NEW m \in i[1]..i[2] PROVE cmp[m] # 0
        <5>1. CASE mid <= m
          <6>1. m \in 1..last
            BY <2>0, <1>1, <5>1
          <6>2. cmp[mid] <= cmp[m]
            BY <4>2, <5>1, <6>1, <3>1
          <6> QED
            BY <1>1, <3>3, <3>5, <6>1, <6>2
        <5>2. CASE ~(mid <= m)
          <6>1. m \in i[1]..(mid - 1)
            BY <5>2, <2>0, <1>1, <3>1
          <6> QED
            BY <4>2, <6>1
        <5> QED
          BY <5>1, <5>2
      <4> QED
        BY <4>1, <4>2 DEF Good
    <3>6. CASE cmp[mid] = 0
      <4>1. f[i] = s[mid]
        BY <3>2, <3>6
      <4> QED
        BY <3>1, <3>6, <4>1 DEF Good
    <3> QED
      BY <3>3, <3>4, <3>5, <3>6
  <2> QED
    BY <2>0, <2>1, <2>2, <1>1
<1> HIDE DEF Good
<1>6. Fails = {}
  <2> SUFFICES ASSUME Fails # {} PROVE FALSE
    OBVIOUS
  <2>1. PICK k \in Fails : \A m \in Fails : k <= m
    <3>1. Fails \subseteq Nat
      OBVIOUS
    <3> HIDE DEF Fails
    <3> QED
      BY <3>1, Least
  <2>2. PICK i \in Intervals(last) : Size(i) = k /\ ~Good(i)
    BY <2>1
  <2>3. ASSUME NEW j \in Intervals(last), Size(j) < Size(i) PROVE Good(j)
    <3>1. Size(j) \in Nat /\ k \in Nat
      BY <1>1, SizeIs, <2>1
    <3>2. Size(j) \notin Fails
      BY <2>1, <2>2, <2>3, <3>1
    <3> QED
      BY <3>1, <3>2
  <2> QED
    BY <2>2, <2>3, <1>5
<1>7. Good(<<1, last>>)
  <2>1. <<1, last>> \in Intervals(last)
    BY <1>1 DEF Intervals
  <2>2. Size(<<1, last>>) \in Nat
    BY <1>1, <2>1, SizeIs
  <2> QED
    BY <1>6, <2>1, <2>2
<1> QED
  BY <1>2, <1>7 DEF Good, last
-----------------------------------------------------------------------------
(* -------- The searches of a table that is being read -------- *)

LEMMA FirstIs ==
  ASSUME NEW fit \in SUBSET Nat
  PROVE  /\ fit = {} => First(fit) = 0
         /\ fit # {} => \E i \in fit : First(fit) = arr[i] /\ \A j \in fit : i <= j
<1>1. fit = {} => First(fit) = 0
  BY DEF First
<1>2. ASSUME fit # {} PROVE \E i \in fit : First(fit) = arr[i] /\ \A j \in fit : i <= j
  <2>1. \E i \in fit : \A j \in fit : i <= j
    BY <1>2, Least
  <2> DEFINE k == CHOOSE i \in fit : \A j \in fit : i <= j
  <2>2. k \in fit /\ \A j \in fit : k <= j
    BY <2>1
  <2>3. First(fit) = arr[k]
    BY <1>2 DEF First
  <2> HIDE DEF k
  <2> QED
    BY <2>2, <2>3
<1> QED
  BY <1>1, <1>2

HasName(tok, n) == tok.name = n \/ n \in tok.aliases

LEMMA Sizes ==
  ASSUME Typed
  PROVE  /\ NRsvd \in Nat \ {0} /\ Len(heap) \in Nat /\ NRsvd <= Len(heap) /\ Len(arr) \in Nat
         /\ RSVD = 1..NRsvd /\ RSVD \subseteq 1..Len(heap)
         /\ \A t \in 1..Len(heap) : heap[t] \in Tok
         /\ \A i \in 1..Len(arr) : arr[i] \in 1..Len(heap)
<1>1. NRsvd \in Nat \ {0}
  <2>1. Rsvd \in Seq(Nat \ {0}) /\ NRsvd > 0
    BY TokenSpecAssumption
  <2> QED
    BY <2>1 DEF NRsvd
<1>2. heap \in Seq(Tok) /\ NRsvd <= Len(heap) /\ arr \in Seq(1..Len(heap))
  BY DEF Typed
<1> DEFINE l == Len(heap)
<1>3. l \in Nat /\ Len(arr) \in Nat
  BY <1>2
<1> HIDE DEF l
<1>4. 1..NRsvd \subseteq 1..l
  BY <1>1, <1>2, <1>3 DEF l
<1>5. \A t \in 1..Len(heap) : heap[t] \in Tok
  BY <1>2
<1>6. \A i \in 1..Len(arr) : arr[i] \in 1..Len(heap)
  BY <1>2
<1> QED
  BY <1>1, <1>2, <1>3, <1>4, <1>5, <1>6 DEF l, RSVD

LEMMA Areas ==
  ASSUME Typed, Listing, Reading
  PROVE  /\ BOTH = 1..Len(heap) /\ REGULAR = (NRsvd + 1)..Len(heap)
         /\ RSVD \subseteq 1..Len(heap) /\ REGULAR \subseteq 1..Len(heap)
<1>1. Len(arr) = Len(heap)
  BY DEF Listing
<1>2. NRsvd \in Nat \ {0} /\ Len(heap) \in Nat /\ RSVD \subseteq 1..Len(heap)
  BY Sizes
<1>3. BOTH = 1..Len(heap) /\ REGULAR = (NRsvd + 1)..Len(heap)
  BY <1>1 DEF BOTH, REGULAR
<1>4. (NRsvd + 1)..Len(heap) \subseteq 1..Len(heap)
  BY <1>2
<1> QED
  BY <1>2, <1>3, <1>4

LEMMA ByNameFinds ==
  ASSUME Typed, Listing, Reading, NEW n, NEW area \in SUBSET (1..Len(heap))
  PROVE  IF \E t \in area : HasName(heap[t], n)
           THEN FindByName(n, area) \in area /\ HasName(heap[FindByName(n, area)], n)
           ELSE FindByName(n, area) = 0
<1> DEFINE fit == {i \in area : Bears(arr[i], n)}
<1>1. \A i \in area : arr[i] = i
  BY DEF Listing
<1>2. fit = {i \in area : HasName(heap[i], n)}
  BY <1>1 DEF Bears, HasName
<1>3. FindByName(n, area) = First(fit)
  BY DEF FindByName
<1>4. fit \subseteq Nat
  <2>1. fit \subseteq 1..Len(heap)
    OBVIOUS
  <2> HIDE DEF fit
  <2> QED
    BY <2>1
<1> HIDE DEF fit
<1>5. CASE fit = {}
  BY <1>2, <1>3, <1>4, <1>5, FirstIs
<1>6. CASE fit # {}
  <2>1. PICK i \in fit : First(fit) = arr[i]
    BY <1>4, <1>6, FirstIs
  <2>2. i \in area /\ HasName(heap[i], n) /\ arr[i] = i
    BY <1>1, <1>2, <2>1
  <2> QED
    BY <1>3, <2>1, <2>2
<1> QED
  BY <1>5, <1>6

LEMMA ByIdFinds ==
  ASSUME Typed, Listing, Reading, NEW id, NEW area \in SUBSET (1..Len(heap))
  PROVE  IF \E t \in area : heap[t].id = id
           THEN FindById(id, area) \in area /\ heap[FindById(id, area)].id = id
           ELSE FindById(id, area) = 0
<1> DEFINE fit == {i \in area : heap[arr[i]].id = id}
<1>1. \A i \in area : arr[i] = i
  BY DEF Listing
<1>2. fit = {i \in area : heap[i].id = id}
  BY <1>1
<1>3. FindById(id, area) = First(fit)
  BY DEF FindById
<1>4. fit \subseteq Nat
  <2>1. fit \subseteq 1..Len(heap)
    OBVIOUS
  <2> HIDE DEF fit
  <2> QED
    BY <2>1
<1> HIDE DEF fit
<1>5. CASE fit = {}
  BY <1>2, <1>3, <1>4, <1>5, FirstIs
<1>6. CASE fit # {}
  <2>1. PICK i \in fit : First(fit) = arr[i]
    BY <1>4, <1>6, FirstIs
  <2>2. i \in area /\ heap[i].id = id /\ arr[i] = i
    BY <1>1, <1>2, <2>1
  <2> QED
    BY <1>3, <2>1, <2>2
<1> QED
  BY <1>5, <1>6

(* The reserved token of a name.                                           *)
LEMMA ReservedFinds ==
  ASSUME Typed, Listing, Reading, NEW n, IsReserved(n)
  PROVE  First({r \in RSVD : heap[r].name = n}) \in RSVD
<1> DEFINE fit == {r \in RSVD : heap[r].name = n}
<1>1. fit # {}
  BY DEF IsReserved
<1>2. fit \subseteq RSVD /\ RSVD \subseteq 1..Len(heap) /\ Len(heap) \in Nat
  BY Sizes
<1> HIDE DEF fit
<1>3. fit \in SUBSET Nat
  BY <1>2
<1>4. PICK i \in fit : First(fit) = arr[i]
  BY <1>1, <1>3, FirstIs
<1>5. i \in RSVD /\ arr[i] = i
  BY <1>2 DEF Listing
<1> QED
  BY <1>4, <1>5 DEF fit
-----------------------------------------------------------------------------
(* -------- What a line does to the table -------- *)

(* A token with one name more.                                             *)
LEMMA WithNameIs ==
  ASSUME NEW tok \in Tok, NEW n \in Nat \ {0}
  PROVE  /\ WithName(tok, n) \in Tok
         /\ WithName(tok, n).id = tok.id /\ WithName(tok, n).flags = tok.flags
         /\ WithName(tok, n).base = tok.base
         /\ HasName(WithName(tok, n), n)
         /\ \A m \in Nat \ {0} : HasName(WithName(tok, n), m) <=> HasName(tok, m) \/ m = n
         /\ tok.name # 0 => WithName(tok, n).name = tok.name
  BY DEF WithName, Tok, HasName

(* The table keeps its order, ...                                          *)
Keeps ==
  /\ heap' \in Seq(Tok) /\ Len(heap') \in Nat /\ Len(heap) <= Len(heap')
  /\ arr' \in Seq(1..Len(heap')) /\ Len(arr') = Len(heap')
  /\ \A i \in 1..Len(heap') : arr'[i] = i

(* ... and one token is another, or new.                                   *)
Change(k, tok) ==
  /\ k \in 1..(Len(heap) + 1) /\ tok \in Tok /\ Keeps
  /\ Len(heap') = (IF k = Len(heap) + 1 THEN Len(heap) + 1 ELSE Len(heap))
  /\ \A t \in 1..Len(heap') : heap'[t] = IF t = k THEN tok ELSE heap[t]

LEMMA Appended ==
  ASSUME Typed, Listing, Reading, NEW tok \in Tok,
         heap' = Append(heap, tok), arr' = Append(arr, Len(heap) + 1)
  PROVE  Change(Len(heap) + 1, tok)
<1> DEFINE l == Len(heap)
<1>1. l \in Nat /\ heap \in Seq(Tok) /\ arr \in Seq(1..l) /\ Len(arr) = l /\ \A i \in 1..l : arr[i] = i
  BY Sizes DEF Typed, Listing
<1>2. heap' \in Seq(Tok) /\ Len(heap') = l + 1 /\ heap'[l + 1] = tok /\ \A t \in 1..l : heap'[t] = heap[t]
  BY <1>1, AppendProperties
<1> HIDE DEF l
<1>3. arr \in Seq(1..(l + 1)) /\ l + 1 \in 1..(l + 1)
  <2>1. 1..l \subseteq 1..(l + 1)
    BY <1>1
  <2> QED
    BY <1>1, <2>1, SeqMonotonic
<1>4. arr' \in Seq(1..(l + 1)) /\ Len(arr') = l + 1 /\ arr'[l + 1] = l + 1 /\ \A i \in 1..l : arr'[i] = arr[i]
  <2>1. arr' = Append(arr, l + 1)
    BY DEF l
  <2> QED
    BY <1>1, <1>3, <2>1, AppendProperties
<1>5. \A i \in 1..(l + 1) : i = l + 1 \/ i \in 1..l
  BY <1>1
<1>6. \A i \in 1..(l + 1) : arr'[i] = i
  BY <1>1, <1>4, <1>5
<1>7. \A t \in 1..(l + 1) : heap'[t] = IF t = l + 1 THEN tok ELSE heap[t]
  BY <1>2, <1>5
<1>8. Keeps
  BY <1>1, <1>2, <1>4, <1>6 DEF Keeps, l
<1>9. l + 1 \in 1..(l + 1)
  BY <1>1
<1> QED
  BY <1>2, <1>7, <1>8, <1>9 DEF Change, l

LEMMA Updated ==
  ASSUME Typed, Listing, Reading, NEW k \in 1..Len(heap), NEW tok \in Tok,
         heap' = [heap EXCEPT ![k] = tok], arr' = arr
  PROVE  Change(k, tok)
<1> DEFINE l == Len(heap)
<1>1. l \in Nat /\ heap \in Seq(Tok) /\ arr \in Seq(1..l) /\ Len(arr) = l /\ \A i \in 1..l : arr[i] = i
  BY Sizes DEF Typed, Listing
<1>2. /\ heap' \in Seq(Tok) /\ Len(heap') = l
      /\ \A t \in 1..l : heap'[t] = IF t = k THEN tok ELSE heap[t]
  BY <1>1, ExceptSeq
<1>3. k \in 1..l
  OBVIOUS
<1> HIDE DEF l
<1>4. k \in 1..(l + 1) /\ k # l + 1
  BY <1>1, <1>3
<1>5. Keeps
  BY <1>1, <1>2 DEF Keeps, l
<1> QED
  BY <1>2, <1>4, <1>5 DEF Change, l

(* A line that leaves the table as it is.                                  *)
LEMMA Unchanged ==
  ASSUME Typed, Listing, Reading, heap' = heap, arr' = arr
  PROVE  Keeps
  BY Sizes DEF Keeps, Typed, Listing
-----------------------------------------------------------------------------
(* -------- What every line keeps -------- *)

(* A line that is refused leaves what the destruction needs.               *)
LEMMA RefusedKeeps ==
  ASSUME IInv, phase' = "refused", UNCHANGED <<table, past, nuld>>, seed' \in Int
  PROVE  IInv'
<1>1. /\ heap' = heap /\ arr' = arr /\ onech' = onech /\ view' = view /\ quotes' = quotes
      /\ past' = past /\ nuld' = nuld
  BY DEF table
<1>2. Typed'
  BY <1>1 DEF IInv, Typed
<1>3. Listing'
  BY <1>1 DEF IInv, Listing, Reading
<1>4. Owned'
  BY <1>1 DEF IInv, Owned, Referred
<1>5. Keywords' /\ Apart' /\ Numbering' /\ Uld' /\ NumbersLead' /\ Counted'
  BY DEF Keywords, Apart, Numbering, Uld, NumbersLead, Counted, Reading, Unsorted
<1> QED
  BY <1>2, <1>3, <1>4, <1>5 DEF IInv

LEMMA LineTyped ==
  ASSUME Typed, Keeps, phase' \in {"head", "body", "refused"}, seed' \in Int, nuld' = nuld,
         quotes' \in [DOMAIN quotes' -> Numbers], DOMAIN quotes' \subseteq Words,
         \/ onech' = onech
         \/ onech' \in [Chars -> 0..Len(heap')],
         \/ view' = view
         \/ view' \in [Words -> 0..Len(heap')],
         past' \in PastRec
  PROVE  Typed'
<1>1. Len(heap) \in Nat /\ Len(heap') \in Nat /\ Len(heap) <= Len(heap') /\ NRsvd <= Len(heap) /\ NRsvd \in Nat
  BY Sizes DEF Keeps
<1>2. NRsvd <= Len(heap') /\ 0..Len(heap) \subseteq 0..Len(heap')
  BY <1>1
<1>3. onech' \in [Chars -> 0..Len(heap')] /\ view' \in [Words -> 0..Len(heap')]
  BY <1>2 DEF Typed
<1> QED
  BY <1>2, <1>3 DEF Typed, Keeps

LEMMA LineListing ==
  ASSUME Keeps, phase' \in {"head", "body", "refused"}
  PROVE  Listing'
<1>1. DOMAIN arr' = 1..Len(arr')
  BY DEF Keeps
<1> QED
  BY <1>1 DEF Listing, Keeps, IsInjective, Reading

(* A line that names no character.                                         *)
Quiet ==
  /\ onech' = onech /\ past'.shared = past.shared /\ past'.stopped = past.stopped
  /\ \A t \in 1..Len(heap) : heap'[t].flags = heap[t].flags
  /\ \A t \in 1..Len(heap') : t \notin 1..Len(heap) => heap'[t].flags = {}

LEMMA LineOwned ==
  ASSUME Typed, Owned, Reading, Keeps, Quiet
  PROVE  Owned'
<1>1. Len(heap) \in Nat /\ Len(heap') \in Nat /\ 1..Len(heap) \subseteq 1..Len(heap')
  BY Sizes DEF Keeps
<1>2. \A t \in 1..Len(heap) : Referred(t)' <=> Referred(t)
  BY DEF Quiet, Referred
<1>3. \A t \in 1..Len(heap') : t \notin 1..Len(heap) => ~Referred(t)'
  BY DEF Quiet, Referred
<1>4. ASSUME NEW t \in 1..Len(heap'), ~Referred(t)'
      PROVE  (\E i \in 1..Len(arr') : arr'[i] = t) /\ \A c \in Chars : onech'[c] # t
  <2>1. \E i \in 1..Len(arr') : arr'[i] = t
    BY DEF Keeps
  <2>2. ASSUME NEW c \in Chars PROVE onech'[c] # t
    <3>1. onech'[c] = onech[c] /\ onech[c] \in 0..Len(heap)
      BY DEF Quiet, Typed
    <3>2. CASE t \in 1..Len(heap)
      BY <3>1, <3>2, <1>2, <1>4 DEF Owned
    <3>3. CASE t \notin 1..Len(heap)
      BY <3>1, <3>3, <1>1
    <3> QED
      BY <3>2, <3>3
  <2> QED
    BY <2>1, <2>2
<1>5. ASSUME ~past'.stopped, NEW t \in 1..Len(heap'), Referred(t)' PROVE \E c \in Chars : onech'[c] = t
  <2>1. t \in 1..Len(heap) /\ Referred(t) /\ ~past.stopped
    BY <1>2, <1>3, <1>5 DEF Quiet
  <2> QED
    BY <2>1 DEF Owned, Quiet
<1>6. ~past'.shared => \A c, d \in Chars : onech'[c] = onech'[d] /\ onech'[c] # 0 => c = d
  BY DEF Owned, Quiet
<1>7. ~past'.stopped
  BY DEF Owned, Quiet, Reading
<1> QED
  BY <1>4, <1>5, <1>6, <1>7 DEF Owned

(* Nothing is said of the later phases.                                    *)
LEMMA LaterKept ==
  ASSUME phase' \in {"head", "body", "refused"}
  PROVE  Uld' /\ NumbersLead' /\ Counted'
  BY DEF Uld, NumbersLead, Counted
-----------------------------------------------------------------------------
(* -------- RENAME: -------- *)
LEMMA RenameKeeps ==
  ASSUME IInv, NEW n \in Range(Rsvd), NEW n2 \in Names, Rename(n, n2)
  PROVE  IInv'
<1> DEFINE k == FindByName(n, RSVD)
           taken == FindByName(n2, BOTH) # 0
<1>0. Typed /\ Listing /\ phase = "head" /\ Reading /\ seed' = seed /\ nuld' = nuld
  BY DEF IInv, Rename, HeaderLine, Reading
<1>1. CASE Refuse
  <2>1. phase' = "refused" /\ UNCHANGED <<table, past, nuld>>
    BY <1>0, <1>1 DEF Refuse
  <2>2. seed' \in Int
    BY <1>0 DEF Typed
  <2> QED
    BY <2>1, <2>2, RefusedKeeps
<1>2. CASE /\ k # 0 /\ heap' = [heap EXCEPT ![k].name = n2]
           /\ past' = [past EXCEPT !.clash = @ \/ taken]
           /\ UNCHANGED <<arr, onech, view, quotes, phase>>
  <2>1. RSVD = 1..NRsvd /\ RSVD \subseteq 1..Len(heap) /\ n2 \in Nat \ {0}
    BY <1>0, Sizes, TokenSpecAssumption
  <2>2. k \in RSVD
    BY <1>0, <1>2, <2>1, ByNameFinds
  <2> HIDE DEF k, taken
  <2> DEFINE tok == [heap[k] EXCEPT !.name = n2]
  <2>3. heap[k] \in Tok
    BY <1>0, <2>1, <2>2, Sizes
  <2>4. /\ tok \in Tok /\ tok.id = heap[k].id /\ tok.flags = heap[k].flags
        /\ tok.aliases = heap[k].aliases /\ tok.name = n2
    BY <2>1, <2>3 DEF Tok
  <2>5. heap' = [heap EXCEPT ![k] = tok]
    BY <1>2
  <2> HIDE DEF tok
  <2>6. Change(k, tok) /\ Keeps /\ Len(heap') = Len(heap)
    <3>1. Change(k, tok)
      BY <1>0, <1>2, <2>1, <2>2, <2>4, <2>5, Updated
    <3>2. k # Len(heap) + 1
      BY <1>0, <2>1, <2>2, Sizes
    <3> QED
      BY <3>1, <3>2 DEF Change
  <2>7. \A t \in 1..Len(heap) : heap'[t] = IF t = k THEN tok ELSE heap[t]
    BY <2>6 DEF Change
  <2>8. /\ past' \in PastRec /\ past'.asked = past.asked /\ past'.shared = past.shared
        /\ past'.stopped = past.stopped /\ past'.moved = past.moved /\ past'.bare = past.bare
        /\ (~past'.clash => ~past.clash /\ ~taken)
    BY <1>0, <1>2 DEF Typed, PastRec, taken
  <2>9. Typed'
    BY <1>0, <1>2, <2>6, <2>8, LineTyped DEF Typed
  <2>10. Listing'
    BY <1>0, <1>2, <2>6, LineListing
  <2>11. Owned'
    <3>1. Quiet
      BY <1>2, <2>4, <2>6, <2>7, <2>8 DEF Quiet
    <3> QED
      BY <1>0, <2>6, <3>1, LineOwned DEF IInv
  <2>12. Keywords'
    <3>1. ASSUME NEW p \in past.asked PROVE view'[p[1]] # 0 /\ Bears(view[p[1]], p[2])'
      <4>1. view[p[1]] # 0 /\ Bears(view[p[1]], p[2]) /\ p[1] \in Words
        BY <1>0 DEF IInv, Keywords, Typed, PastRec
      <4>2. view[p[1]] > NRsvd /\ view[p[1]] \in 1..Len(heap)
        BY <1>0, <4>1, Sizes DEF IInv, Keywords, Typed
      <4>3. view[p[1]] # k
        BY <1>0, <2>1, <2>2, <4>2, Sizes
      <4> QED
        BY <1>2, <2>7, <4>1, <4>2, <4>3 DEF Bears
    <3> QED
      BY <1>0, <1>2, <2>8, <3>1 DEF IInv, Keywords, Reading
  <2>13. Apart'
    <3> SUFFICES ASSUME ~past'.clash
                 PROVE  /\ \A r \in RSVD : heap'[r].aliases = {}
                        /\ \A t, u \in 1..Len(heap) : \A m \in Names :
                             HasName(heap'[t], m) /\ HasName(heap'[u], m) => t = u
      BY <2>6 DEF Apart, Bears, HasName, RSVD
    <3>1. /\ ~past.clash /\ ~taken /\ \A r \in RSVD : heap[r].aliases = {}
          /\ \A t, u \in 1..Len(heap) : \A m \in Names : HasName(heap[t], m) /\ HasName(heap[u], m) => t = u
      BY <1>0, <2>8 DEF IInv, Apart, Bears, HasName
    <3>2. \A t \in 1..Len(heap) : ~HasName(heap[t], n2)
      <4>1. BOTH = 1..Len(heap)
        BY <1>0, Areas
      <4> QED
        BY <1>0, <3>1, <4>1, ByNameFinds DEF taken
    <3>3. \A m \in Names : HasName(tok, m) => m = n2 \/ HasName(heap[k], m)
      BY <2>4 DEF HasName
    <3>4. k \in 1..Len(heap)
      BY <2>1, <2>2
    <3>5. \A r \in RSVD : heap'[r].aliases = {}
      BY <2>1, <2>4, <2>7, <3>1
    <3>6. ASSUME NEW t \in 1..Len(heap), NEW u \in 1..Len(heap), NEW m \in Names,
                 HasName(heap'[t], m), HasName(heap'[u], m), t # u
          PROVE  FALSE
      <4>1. heap'[t] = (IF t = k THEN tok ELSE heap[t]) /\ heap'[u] = IF u = k THEN tok ELSE heap[u]
        BY <2>7
      <4>2. CASE m = n2
        <5>1. t = k /\ u = k
          BY <3>2, <3>6, <4>1, <4>2
        <5> QED
          BY <3>6, <5>1
      <4>3. CASE m # n2
        <5>1. HasName(heap[t], m) /\ HasName(heap[u], m)
          BY <3>3, <3>6, <4>1, <4>3
        <5> QED
          BY <3>1, <3>6, <5>1
      <4> QED
        BY <4>2, <4>3
    <3> QED
      BY <3>5, <3>6
  <2>14. Numbering'
    <3>1. \A t \in 1..Len(heap) : heap'[t].id = heap[t].id /\ heap'[t].flags = heap[t].flags
      BY <2>4, <2>7
    <3>2. Numbering
      BY DEF IInv
    <3>3. 1..NRsvd \subseteq 1..Len(heap) /\ (NRsvd + 1)..Len(heap) \subseteq 1..Len(heap)
      BY <1>0, Sizes
    <3>4. \A t \in 1..Len(heap) : Numbered1(t)' <=> Numbered1(t)
      BY <1>2, <3>1 DEF Numbered1, Coded
    <3> QED
      BY <1>0, <1>2, <2>6, <2>8, <3>1, <3>2, <3>3, <3>4, SMTT(30) DEF Numbering, Unsorted
  <2>15. Uld' /\ NumbersLead' /\ Counted'
    BY <1>0, <1>2, LaterKept
  <2> QED
    BY <2>9, <2>10, <2>11, <2>12, <2>13, <2>14, <2>15 DEF IInv
<1> QED
  BY <1>1, <1>2 DEF Rename, Note
-----------------------------------------------------------------------------
(* -------- QUOTE_TYPE: -------- *)
LEMMA QuoteTypeKeeps ==
  ASSUME IInv, NEW w \in Words, NEW n \in Names \cup {0}, NEW num \in Numbers, QuoteType(w, n, num)
  PROVE  IInv'
<1> DEFINE taken == num \in Range(quotes) \/ (n # 0 /\ NotForQuote(n, num))
           coded == Coded(num)
           tok == Token(num, n, <<w>>, {})
<1>0. /\ Typed /\ Listing /\ phase = "head" /\ Reading /\ seed' = seed /\ nuld' = nuld
      /\ w \notin DOMAIN quotes /\ num \in Int
  BY TokenSpecAssumption DEF IInv, QuoteType, HeaderLine, Reading
<1>1. CASE taken /\ Refuse
  <2>1. phase' = "refused" /\ UNCHANGED <<table, past, nuld>>
    BY <1>0, <1>1 DEF Refuse
  <2>2. seed' \in Int
    BY <1>0 DEF Typed
  <2> QED
    BY <2>1, <2>2, RefusedKeeps
<1>2. CASE /\ ~taken
           /\ quotes' = [m \in DOMAIN quotes \cup {w} |-> IF m = w THEN num ELSE quotes[m]]
           /\ IF n = 0 THEN UNCHANGED <<heap, arr, view>>
              ELSE /\ heap' = Append(heap, tok)
                   /\ arr' = Append(arr, Len(heap) + 1)
                   /\ view' = [view EXCEPT ![w] = Len(heap) + 1]
           /\ past' = [past EXCEPT
                !.asked = IF n = 0 THEN @ ELSE @ \cup {<<w, n>>},
                !.moved = @ \/ coded, !.bare = @ \/ n = 0]
           /\ UNCHANGED <<onech, phase>>
  <2> DEFINE asked == IF n = 0 THEN past.asked ELSE past.asked \cup {<<w, n>>}
             none == n = 0
  <2>1. /\ num \notin Range(quotes)
        /\ n # 0 => FindById(num, RSVD) = 0 /\ FindByName(n, BOTH) = 0
    BY <1>2 DEF NotForQuote
  <2>2. asked \in SUBSET (Words \X (Nat \ {0}))
    <3>1. past.asked \in SUBSET (Words \X (Nat \ {0}))
      BY <1>0 DEF Typed, PastRec
    <3>2. n # 0 => n \in Nat \ {0}
      BY TokenSpecAssumption
    <3> QED
      BY <3>1, <3>2
  <2>3. past' = [past EXCEPT !.asked = asked, !.moved = @ \/ coded, !.bare = @ \/ none]
    BY <1>2
  <2> HIDE DEF asked, none, coded
  <2>4. /\ past' \in PastRec /\ past'.asked = asked /\ past'.shared = past.shared
        /\ past'.stopped = past.stopped /\ past'.clash = past.clash
        /\ (~past'.moved => ~past.moved /\ ~coded) /\ (~past'.bare => ~past.bare /\ ~none)
    BY <1>0, <2>2, <2>3 DEF Typed, PastRec
  <2>5. /\ quotes' \in [DOMAIN quotes' -> Numbers] /\ DOMAIN quotes' = DOMAIN quotes \cup {w}
        /\ DOMAIN quotes' \subseteq Words /\ quotes'[w] = num
        /\ \A v \in DOMAIN quotes : quotes'[v] = quotes[v]
    BY <1>0, <1>2 DEF Typed
  <2>6. /\ RSVD = 1..NRsvd /\ NRsvd \in Nat /\ NRsvd <= Len(heap) /\ Len(heap) \in Nat
        /\ \A t \in 1..Len(heap) : heap[t] \in Tok
    BY <1>0, Sizes
  <2>7. /\ Keeps /\ Len(heap') = (IF n = 0 THEN Len(heap) ELSE Len(heap) + 1)
        /\ \A t \in 1..Len(heap) : heap'[t] = heap[t]
        /\ n # 0 => heap'[Len(heap) + 1] = tok
    <3>1. CASE n = 0
      <4>1. Keeps
        BY <1>0, <1>2, <3>1, Unchanged
      <4> QED
        BY <1>2, <3>1, <4>1
    <3>2. CASE n # 0
      <4>1. tok \in Tok
        <5>1. <<w>> \in Seq(Words) /\ n \in Nat /\ {} \in SUBSET (Nat \ {0}) /\ {} \in SUBSET Flags
          BY <3>2, TokenSpecAssumption
        <5> DEFINE words == <<w>>
        <5> HIDE DEF words
        <5>2. [id |-> num, name |-> n, aliases |-> {}, base |-> words, flags |-> {}] \in Tok
          BY <1>0, <5>1 DEF Tok, words
        <5> QED
          BY <5>2 DEF Token, words
      <4>2. Change(Len(heap) + 1, tok)
        BY <1>0, <1>2, <3>2, <4>1, Appended
      <4> HIDE DEF tok
      <4>3. \A t \in 1..Len(heap) : t # Len(heap) + 1 /\ t \in 1..(Len(heap) + 1)
        BY <2>6
      <4>4. Len(heap) + 1 \in 1..(Len(heap) + 1)
        BY <2>6
      <4> QED
        BY <3>2, <4>2, <4>3, <4>4 DEF Change
    <3> QED
      BY <3>1, <3>2
  <2>8. tok.id = num /\ tok.name = n /\ tok.flags = {} /\ tok.aliases = {}
    BY DEF Token
  <2> HIDE DEF tok, taken
  <2>9. Typed'
    <3>1. CASE n = 0
      <4>1. view' = view
        BY <1>2, <3>1
      <4> QED
        BY <1>0, <1>2, <2>4, <2>5, <2>7, <4>1, LineTyped DEF Typed
    <3>2. CASE n # 0
      <4>1. Len(heap) + 1 \in 0..Len(heap') /\ 0..Len(heap) \subseteq 0..Len(heap')
        BY <2>6, <2>7, <3>2
      <4>2. view' = [view EXCEPT ![w] = Len(heap) + 1] /\ view \in [Words -> 0..Len(heap)]
        BY <1>0, <1>2, <3>2 DEF Typed
      <4>3. view' \in [Words -> 0..Len(heap')]
        BY <4>1, <4>2
      <4> QED
        BY <1>0, <1>2, <2>4, <2>5, <2>7, <4>3, LineTyped DEF Typed
    <3> QED
      BY <3>1, <3>2
  <2>10. Listing'
    BY <1>0, <1>2, <2>7, LineListing
  <2>11. Owned'
    <3>1. \A t \in 1..Len(heap') : t \notin 1..Len(heap) => n # 0 /\ t = Len(heap) + 1
      BY <2>6, <2>7
    <3>2. Quiet
      BY <1>2, <2>4, <2>7, <2>8, <3>1 DEF Quiet
    <3> QED
      BY <1>0, <2>7, <3>2, LineOwned DEF IInv
  <2>12. Keywords'
    <3>1. ASSUME NEW v \in Words, view'[v] # 0 PROVE view'[v] > NRsvd
      <4>1. view'[v] = view[v] \/ view'[v] = Len(heap) + 1
        BY <1>2, <1>0 DEF Typed
      <4>2. view[v] # 0 => view[v] > NRsvd
        BY <1>0 DEF IInv, Keywords
      <4> QED
        BY <2>6, <3>1, <4>1, <4>2
    <3>2. ASSUME NEW p \in past.asked PROVE view'[p[1]] # 0 /\ Bears(view[p[1]], p[2])'
      <4>1. view[p[1]] # 0 /\ Bears(view[p[1]], p[2]) /\ p[1] \in Words /\ p[2] \in Nat \ {0}
        BY <1>0 DEF IInv, Keywords, Typed, PastRec
      <4>2. view[p[1]] \in 1..Len(heap)
        BY <1>0, <2>6, <4>1 DEF Typed
      <4>3. CASE view'[p[1]] = view[p[1]]
        BY <2>7, <4>1, <4>2, <4>3 DEF Bears
      <4>4. CASE view'[p[1]] # view[p[1]]
        <5>1. n # 0 /\ p[1] = w
          BY <1>0, <1>2, <4>1, <4>4 DEF Typed
        <5>2. view[w] # 0
          BY <4>1, <5>1
        <5> QED
          BY <1>0, <5>2 DEF IInv, Keywords
      <4> QED
        BY <4>3, <4>4
    <3>3. ASSUME n # 0 PROVE view'[w] # 0 /\ Bears(view[w], n)'
      BY <1>0, <1>2, <2>6, <2>7, <2>8, <3>3 DEF Bears, Typed
    <3>4. ASSUME NEW v \in Words, view'[v] # 0 PROVE v \in DOMAIN quotes'
      <4>1. CASE v = w
        BY <2>5, <4>1
      <4>2. CASE v # w
        <5>1. view'[v] = view[v]
          BY <1>0, <1>2, <4>2 DEF Typed
        <5>2. v \in DOMAIN quotes
          BY <1>0, <3>4, <5>1 DEF IInv, Keywords
        <5> QED
          BY <2>5, <5>2
      <4> QED
        BY <4>1, <4>2
    <3>5. \A p \in past'.asked : view'[p[1]] # 0 /\ Bears(view[p[1]], p[2])'
      BY <2>4, <3>2, <3>3 DEF asked
    <3> QED
      BY <3>1, <3>4, <3>5 DEF Keywords
  <2>13. Apart'
    <3> SUFFICES ASSUME ~past'.clash
                 PROVE  /\ \A r \in RSVD : heap'[r].aliases = {}
                        /\ \A t, u \in 1..Len(heap') : \A m \in Names :
                             HasName(heap'[t], m) /\ HasName(heap'[u], m) => t = u
      BY DEF Apart, Bears, HasName, RSVD
    <3>1. /\ ~past.clash /\ \A r \in RSVD : heap[r].aliases = {}
          /\ \A t, u \in 1..Len(heap) : \A m \in Names : HasName(heap[t], m) /\ HasName(heap[u], m) => t = u
      BY <1>0, <2>4 DEF IInv, Apart, Bears, HasName
    <3>2. n # 0 => \A t \in 1..Len(heap) : ~HasName(heap[t], n)
      <4>1. BOTH = 1..Len(heap)
        BY <1>0, Areas
      <4> QED
        BY <1>0, <2>1, <4>1, ByNameFinds
    <3>3. \A m \in Names : HasName(tok, m) => m = n
      BY <2>8 DEF HasName
    <3>5. \A r \in RSVD : heap'[r].aliases = {}
      BY <2>6, <2>7, <3>1
    <3>6. ASSUME NEW t \in 1..Len(heap'), NEW m \in Names, HasName(heap'[t], m)
          PROVE  IF t \in 1..Len(heap) THEN HasName(heap[t], m) ELSE m = n /\ t = Len(heap) + 1 /\ n # 0
      <4>1. CASE t \in 1..Len(heap)
        BY <2>7, <3>6, <4>1
      <4>2. CASE t \notin 1..Len(heap)
        <5>1. n # 0 /\ t = Len(heap) + 1
          BY <2>6, <2>7, <4>2
        <5> QED
          BY <2>7, <3>3, <3>6, <4>2, <5>1
      <4> QED
        BY <4>1, <4>2
    <3>7. ASSUME NEW t \in 1..Len(heap'), NEW u \in 1..Len(heap'), NEW m \in Names,
                 HasName(heap'[t], m), HasName(heap'[u], m)
          PROVE  t = u
      BY <3>1, <3>2, <3>6, <3>7
    <3> QED
      BY <3>5, <3>7
  <2>14. Numbering'
    <3>1. Numbering
      BY DEF IInv
    <3>2. ASSUME n # 0, NEW t \in 1..Len(heap) PROVE heap[t].id # num
      <4>1. CASE t \in RSVD
        <5>1. RSVD \in SUBSET (1..Len(heap)) /\ FindById(num, RSVD) = 0
          BY <1>0, <2>1, <3>2, Sizes
        <5>2. \A r \in RSVD : heap[r].id # num
          BY <1>0, <2>6, <5>1, ByIdFinds
        <5> QED
          BY <4>1, <5>2
      <4>2. CASE t \notin RSVD
        <5>1. t \in (NRsvd + 1)..Len(heap)
          BY <2>6, <4>2
        <5>2. PICK v \in DOMAIN quotes : heap[t].id = quotes[v]
          BY <1>0, <3>1, <5>1 DEF Numbering, Unsorted
        <5>3. quotes[v] \in Range(quotes)
          BY DEF Range
        <5> QED
          BY <2>1, <5>2, <5>3
      <4> QED
        BY <4>1, <4>2
    <3>3. ASSUME NEW t \in 1..Len(heap'), t \notin 1..Len(heap)
          PROVE  n # 0 /\ t = Len(heap) + 1 /\ heap'[t].id = num /\ heap'[t].flags = {}
      BY <2>6, <2>7, <2>8, <3>3
    <3>4. ASSUME NEW t \in (NRsvd + 1)..Len(heap') PROVE \E v \in DOMAIN quotes' : heap'[t].id = quotes'[v]
      <4>1. CASE t \in 1..Len(heap)
        <5>1. PICK v \in DOMAIN quotes : heap[t].id = quotes[v]
          BY <1>0, <3>1, <4>1 DEF Numbering, Unsorted
        <5> QED
          BY <2>5, <2>7, <4>1, <5>1
      <4>2. CASE t \notin 1..Len(heap)
        <5>1. t \in 1..Len(heap')
          BY <2>6, <2>7
        <5> QED
          BY <2>5, <3>3, <4>2, <5>1
      <4> QED
        BY <4>1, <4>2
    <3>5. ASSUME ~past'.moved, NEW t \in 1..Len(heap') PROVE Numbered1(t)'
      <4>1. ~past.moved /\ ~coded
        BY <2>4, <3>5
      <4>2. CASE t \in 1..Len(heap)
        <5>1. Numbered1(t)
          BY <1>0, <3>1, <4>1, <4>2 DEF Numbering, Unsorted
        <5> QED
          BY <1>2, <2>7, <4>2, <5>1 DEF Numbered1, Coded
      <4>3. CASE t \notin 1..Len(heap)
        BY <3>3, <4>1, <4>3 DEF Numbered1, Coded, coded
      <4> QED
        BY <4>2, <4>3
    <3>6. ASSUME ~past'.moved, NEW t \in 1..Len(heap'), NEW u \in 1..Len(heap'), heap'[t].id = heap'[u].id
          PROVE  t = u \/ (t <= NRsvd /\ u <= NRsvd)
      <4>1. ~past.moved
        BY <2>4, <3>6
      <4>2. CASE t \in 1..Len(heap) /\ u \in 1..Len(heap)
        BY <1>0, <2>7, <3>1, <3>6, <4>1, <4>2 DEF Numbering, Unsorted
      <4>3. CASE t \notin 1..Len(heap) /\ u \in 1..Len(heap)
        BY <2>7, <3>2, <3>3, <3>6, <4>3
      <4>4. CASE t \in 1..Len(heap) /\ u \notin 1..Len(heap)
        BY <2>7, <3>2, <3>3, <3>6, <4>4
      <4>5. CASE t \notin 1..Len(heap) /\ u \notin 1..Len(heap)
        BY <3>3, <4>5
      <4> QED
        BY <4>2, <4>3, <4>4, <4>5
    <3>7. ASSUME ~past'.moved, ~past'.bare, NEW v \in DOMAIN quotes'
          PROVE  \E t \in (NRsvd + 1)..Len(heap') : "CHRMAP" \notin heap'[t].flags /\ heap'[t].id = quotes'[v]
      <4>1. ~past.moved /\ ~past.bare /\ n # 0
        BY <2>4, <3>7 DEF none
      <4>2. CASE v \in DOMAIN quotes
        <5>1. PICK t \in (NRsvd + 1)..Len(heap) : "CHRMAP" \notin heap[t].flags /\ heap[t].id = quotes[v]
          BY <1>0, <3>1, <4>1, <4>2 DEF Numbering, Unsorted
        <5>2. t \in (NRsvd + 1)..Len(heap') /\ t \in 1..Len(heap)
          BY <2>6, <2>7
        <5> QED
          BY <2>5, <2>7, <4>2, <5>1, <5>2
      <4>3. CASE v \notin DOMAIN quotes
        <5>1. Len(heap) + 1 \in (NRsvd + 1)..Len(heap') /\ v = w
          BY <2>5, <2>6, <2>7, <4>1, <4>3
        <5> QED
          BY <2>5, <2>7, <2>8, <4>1, <5>1
      <4> QED
        BY <4>2, <4>3
    <3>8. \A r \in 1..NRsvd : "CHRMAP" \notin heap'[r].flags
      BY <1>0, <2>6, <2>7, <3>1 DEF Numbering, Unsorted
    <3> QED
      BY <1>0, <1>2, <3>4, <3>5, <3>6, <3>7, <3>8 DEF Numbering
  <2>15. Uld' /\ NumbersLead' /\ Counted'
    BY <1>0, <1>2, LaterKept
  <2> QED
    BY <2>9, <2>10, <2>11, <2>12, <2>13, <2>14, <2>15 DEF IInv
<1> QED
  BY <1>1, <1>2 DEF QuoteType, Note
-----------------------------------------------------------------------------
(* -------- The ends of the header and of the body -------- *)

(* The seed of the body is a number.                                       *)
LEMMA HighestReserved ==
  ASSUME Typed
  PROVE  \E m \in {heap[t].id : t \in RSVD} : \A t \in RSVD : heap[t].id <= m
<1> DEFINE Has(k) == \E u \in 1..k : \A t \in 1..k : heap[t].id <= heap[u].id
           Fails == {k \in Nat : 1 <= k /\ k <= NRsvd /\ ~Has(k)}
<1>1. NRsvd \in Nat \ {0} /\ RSVD = 1..NRsvd /\ \A t \in 1..NRsvd : heap[t].id \in Int
  BY Sizes DEF Tok
<1>2. Fails = {}
  <2> SUFFICES ASSUME Fails # {} PROVE FALSE
    OBVIOUS
  <2>1. PICK k \in Fails : \A j \in Fails : k <= j
    <3>1. Fails \subseteq Nat
      OBVIOUS
    <3> HIDE DEF Fails
    <3> QED
      BY <3>1, Least
  <2>2. k \in 1..NRsvd /\ k \in Nat /\ ~Has(k)
    BY <2>1, <1>1
  <2>3. k # 1
    <3>1. Has(1)
      <4>1. 1 \in 1..1 /\ \A t \in 1..1 : t = 1
        OBVIOUS
      <4>2. heap[1].id \in Int
        BY <1>1
      <4> QED
        BY <4>1, <4>2
    <3> QED
      BY <2>2, <3>1
  <2>4. k - 1 \in Nat /\ 1 <= k - 1 /\ k - 1 <= NRsvd /\ k - 1 \notin Fails
    <3>1. k - 1 \in Nat /\ 1 <= k - 1 /\ k - 1 <= NRsvd /\ ~(k <= k - 1)
      BY <1>1, <2>2, <2>3
    <3>2. k - 1 \notin Fails
      <4> HIDE DEF Fails
      <4> QED
        BY <2>1, <3>1
    <3> QED
      BY <3>1, <3>2
  <2>5. PICK u \in 1..(k - 1) : \A t \in 1..(k - 1) : heap[t].id <= heap[u].id
    BY <2>4
  <2>6. /\ heap[k].id \in Int /\ heap[u].id \in Int /\ u \in 1..k /\ k \in 1..k
        /\ \A t \in 1..k : t = k \/ t \in 1..(k - 1)
        /\ \A t \in 1..k : heap[t].id \in Int
    <3>0. k \in Nat /\ k <= NRsvd /\ NRsvd \in Nat /\ 1 <= k /\ u \in 1..(k - 1)
      BY <1>1, <2>2
    <3>1. u \in 1..k /\ u \in 1..NRsvd /\ k \in 1..k /\ \A t \in 1..k : t = k \/ t \in 1..(k - 1)
      <4> HIDE DEF Has, Fails
      <4> QED
        BY <3>0
    <3>2. \A t \in 1..k : t \in 1..NRsvd
      BY <1>1, <2>2
    <3> QED
      BY <1>1, <2>2, <3>1, <3>2
  <2>7. CASE heap[k].id <= heap[u].id
    BY <2>2, <2>5, <2>6, <2>7
  <2>8. CASE heap[u].id < heap[k].id
    <3>1. ASSUME NEW t \in 1..k PROVE heap[t].id <= heap[k].id
      <4>1. CASE t = k
        BY <2>6, <4>1
      <4>2. CASE t \in 1..(k - 1)
        <5>1. heap[t].id <= heap[u].id /\ heap[t].id \in Int
          BY <2>5, <2>6, <4>2
        <5> QED
          BY <2>6, <2>8, <5>1
      <4> QED
        BY <2>6, <4>1, <4>2
    <3> QED
      BY <2>2, <2>6, <3>1
  <2> QED
    BY <2>6, <2>7, <2>8
<1>3. Has(NRsvd)
  <2> HIDE DEF Has
  <2>1. NRsvd \notin Fails
    BY <1>2
  <2> QED
    BY <1>1, <2>1
<1> QED
  BY <1>1, <1>3

LEMMA StartBodyKeeps ==
  ASSUME IInv, StartBody
  PROVE  IInv'
<1>1. /\ heap' = heap /\ arr' = arr /\ onech' = onech /\ view' = view /\ quotes' = quotes
      /\ past' = past /\ nuld' = nuld /\ phase = "head" /\ phase' = "body" /\ Typed
  BY DEF StartBody, table, IInv
<1>2. seed' \in Int
  <2> DEFINE ids == {heap[t].id : t \in RSVD}
             top == CHOOSE m \in ids : \A t \in RSVD : heap[t].id <= m
  <2>1. \A t \in RSVD : heap[t].id \in Int
    BY <1>1, Sizes DEF Tok
  <2>2. top \in ids
    BY <1>1, HighestReserved
  <2>3. seed' = 1 + top
    BY DEF StartBody
  <2>4. top \in Int
    BY <2>1, <2>2
  <2> HIDE DEF top
  <2> QED
    BY <2>3, <2>4
<1>3. Typed'
  BY <1>1, <1>2 DEF Typed
<1>4. Listing' /\ Owned'
  BY <1>1 DEF IInv, Listing, Owned, Referred, Reading
<1>5. Keywords'
  BY <1>1 DEF IInv, Keywords, Reading, Bears
<1>6. Apart'
  BY <1>1 DEF IInv, Apart, Reading, Bears, RSVD
<1>7. Numbering'
  BY <1>1 DEF IInv, Numbering, Unsorted, Numbered1, Coded
<1>8. Uld' /\ NumbersLead' /\ Counted'
  BY <1>1, LaterKept
<1> QED
  BY <1>3, <1>4, <1>5, <1>6, <1>7, <1>8 DEF IInv

LEMMA NoUldKeeps ==
  ASSUME IInv, NoUld
  PROVE  IInv'
<1>1. /\ heap' = heap /\ arr' = arr /\ onech' = onech /\ view' = view /\ quotes' = quotes
      /\ past' = past /\ nuld' = nuld /\ seed' = seed /\ phase = "body" /\ phase' = "read" /\ Typed
  BY DEF NoUld, table, IInv
<1>2. Typed'
  BY <1>1 DEF Typed
<1>3. Listing'
  BY <1>1 DEF IInv, Listing, Reading
<1>4. Owned'
  BY <1>1 DEF IInv, Owned, Referred
<1>5. Keywords' /\ Apart' /\ Uld' /\ NumbersLead' /\ Counted'
  BY <1>1 DEF Keywords, Apart, Uld, NumbersLead, Counted, Reading
<1>6. Numbering'
  BY <1>1 DEF IInv, Numbering, Unsorted, Numbered1, Coded
<1> QED
  BY <1>2, <1>3, <1>4, <1>5, <1>6 DEF IInv
-----------------------------------------------------------------------------
(* -------- What every line of the body keeps -------- *)

(* Its keywords: those there are stay, with the names of their tokens.     *)
LEMMA LineKeywords ==
  ASSUME IInv, phase = "body", phase' = "body", Keeps,
         \A w \in Words : view'[w] = view[w] \/ (view[w] = 0 /\ view'[w] > NRsvd),
         \A t \in (NRsvd + 1)..Len(heap) : \A m \in Nat \ {0} :
           HasName(heap[t], m) => HasName(heap'[t], m),
         \A p \in past'.asked : \/ p \in past.asked
                                \/ view'[p[1]] # 0 /\ HasName(heap'[view'[p[1]]], p[2])
  PROVE  Keywords'
<1>1. Typed /\ Reading
  BY DEF IInv, Reading
<1>2. NRsvd \in Nat /\ Len(heap) \in Nat
  BY <1>1, Sizes
<1>3. ASSUME NEW w \in Words, view'[w] # 0 PROVE view'[w] > NRsvd
  BY <1>1, <1>3 DEF IInv, Keywords
<1>4. ASSUME NEW p \in past'.asked PROVE view'[p[1]] # 0 /\ HasName(heap'[view'[p[1]]], p[2])
  <2>1. CASE p \in past.asked
    <3>1. view[p[1]] # 0 /\ HasName(heap[view[p[1]]], p[2]) /\ p[1] \in Words /\ p[2] \in Nat \ {0}
      BY <1>1, <2>1 DEF IInv, Keywords, Bears, HasName, Typed, PastRec
    <3>2. view[p[1]] \in 0..Len(heap) /\ view[p[1]] > NRsvd
      BY <1>1, <3>1 DEF IInv, Keywords, Typed
    <3>3. view[p[1]] \in (NRsvd + 1)..Len(heap)
      BY <1>2, <3>2
    <3>4. view'[p[1]] = view[p[1]]
      BY <3>1
    <3> QED
      BY <3>1, <3>3, <3>4
  <2>2. CASE p \notin past.asked
    BY <2>2
  <2> QED
    BY <2>1, <2>2
<1> QED
  BY <1>3, <1>4 DEF Keywords, Bears, HasName

(* Its names: at most one, n, is new, and to one token, k.                 *)
NamesOne(n, k) ==
  /\ \A t \in 1..Len(heap') : \A m \in Names :
       HasName(heap'[t], m) => (t \in 1..Len(heap) /\ HasName(heap[t], m)) \/ (m = n /\ t = k)
  /\ ~past'.clash => /\ ~past.clash
                     /\ \A t \in 1..Len(heap) : HasName(heap[t], n) => t = k
                     /\ \A r \in RSVD : heap'[r].aliases = {}

LEMMA LineApart ==
  ASSUME IInv, phase = "body", Keeps, NEW n, NEW k, NamesOne(n, k)
  PROVE  Apart'
<1> SUFFICES ASSUME ~past'.clash
             PROVE  \A t, u \in 1..Len(heap') : \A m \in Names :
                      HasName(heap'[t], m) /\ HasName(heap'[u], m) => t = u
  BY DEF Apart, Bears, HasName, RSVD, NamesOne
<1>1. \A t, u \in 1..Len(heap) : \A m \in Names : HasName(heap[t], m) /\ HasName(heap[u], m) => t = u
  BY DEF IInv, Apart, Bears, HasName, Reading, NamesOne
<1>2. ASSUME NEW t \in 1..Len(heap'), NEW u \in 1..Len(heap'), NEW m \in Names,
             HasName(heap'[t], m), HasName(heap'[u], m)
      PROVE  t = u
  <2>1. (t \in 1..Len(heap) /\ HasName(heap[t], m)) \/ (m = n /\ t = k)
    BY <1>2 DEF NamesOne
  <2>2. (u \in 1..Len(heap) /\ HasName(heap[u], m)) \/ (m = n /\ u = k)
    BY <1>2 DEF NamesOne
  <2> QED
    BY <1>1, <2>1, <2>2 DEF NamesOne
<1> QED
  BY <1>2

(* Its numbers: of one token, k, the number may be another or new.         *)
LEMMA LineNumbering ==
  ASSUME IInv, phase = "body", phase' = "body", Keeps, quotes' = quotes, past'.bare = past.bare,
         ~past'.moved => ~past.moved,
         \A c \in Chars : onech[c] # 0 => onech'[c] = onech[c],
         NEW k \in 1..Len(heap'),
         \A t \in 1..Len(heap') : t # k =>
           /\ t \in 1..Len(heap) /\ heap'[t].id = heap[t].id
           /\ ("CHRMAP" \in heap'[t].flags <=> "CHRMAP" \in heap[t].flags),
         k <= NRsvd => "CHRMAP" \notin heap'[k].flags,
         k \in (NRsvd + 1)..Len(heap) =>
           /\ heap'[k].id = heap[k].id
           /\ ("CHRMAP" \in heap'[k].flags <=> "CHRMAP" \in heap[k].flags),
         ~past'.moved =>
           /\ Numbered1(k)'
           /\ \A t \in 1..Len(heap) :
                t # k /\ heap[t].id = heap'[k].id => t <= NRsvd /\ k <= NRsvd
  PROVE  Numbering'
<1>1. Typed /\ Numbering
  BY DEF IInv
<1>2. NRsvd \in Nat /\ Len(heap) \in Nat /\ NRsvd <= Len(heap) /\ Len(heap') \in Nat /\ Len(heap) <= Len(heap')
  BY <1>1, Sizes DEF Keeps
<1>3. ASSUME ~past'.moved, NEW t \in 1..Len(heap') PROVE Numbered1(t)'
  <2>1. CASE t = k
    BY <1>3, <2>1
  <2>2. CASE t # k
    <3>1. /\ t \in 1..Len(heap) /\ heap'[t].id = heap[t].id
          /\ ("CHRMAP" \in heap'[t].flags <=> "CHRMAP" \in heap[t].flags)
      BY <2>2
    <3>2. Numbered1(t)
      BY <1>1, <1>3, <3>1 DEF Numbering, Unsorted
    <3>3. CASE "CHRMAP" \in heap[t].flags
      <4>1. PICK c \in Chars : Code[c] = heap[t].id /\ onech[c] = t
        BY <3>2, <3>3 DEF Numbered1
      <4>2. onech'[c] = t
        BY <1>2, <3>1, <4>1
      <4> QED
        BY <3>1, <3>3, <4>1, <4>2 DEF Numbered1
    <3>4. CASE "CHRMAP" \notin heap[t].flags
      BY <3>1, <3>2, <3>4 DEF Numbered1, Coded
    <3> QED
      BY <3>3, <3>4
  <2> QED
    BY <2>1, <2>2
<1>4. ASSUME ~past'.moved, NEW t \in 1..Len(heap'), NEW u \in 1..Len(heap'), heap'[t].id = heap'[u].id
      PROVE  t = u \/ (t <= NRsvd /\ u <= NRsvd)
  <2>1. CASE t = k /\ u = k
    BY <2>1
  <2>2. CASE t = k /\ u # k
    BY <1>4, <2>2
  <2>3. CASE t # k /\ u = k
    BY <1>4, <2>3
  <2>4. CASE t # k /\ u # k
    <3>1. t \in 1..Len(heap) /\ u \in 1..Len(heap) /\ heap[t].id = heap[u].id
      BY <1>4, <2>4
    <3> QED
      BY <1>1, <1>4, <3>1 DEF Numbering, Unsorted
  <2> QED
    BY <2>1, <2>2, <2>3, <2>4
<1>5. ASSUME ~past'.moved, ~past'.bare, NEW v \in DOMAIN quotes'
      PROVE  \E t \in (NRsvd + 1)..Len(heap') : "CHRMAP" \notin heap'[t].flags /\ heap'[t].id = quotes'[v]
  <2>1. PICK t \in (NRsvd + 1)..Len(heap) : "CHRMAP" \notin heap[t].flags /\ heap[t].id = quotes[v]
    BY <1>1, <1>5 DEF Numbering, Unsorted
  <2>2. t \in (NRsvd + 1)..Len(heap') /\ t \in 1..Len(heap')
    BY <1>2
  <2>3. heap'[t].id = heap[t].id /\ ("CHRMAP" \in heap'[t].flags <=> "CHRMAP" \in heap[t].flags)
    BY <2>1, <2>2
  <2> QED
    BY <2>1, <2>2, <2>3
<1>6. ASSUME NEW r \in 1..NRsvd PROVE "CHRMAP" \notin heap'[r].flags
  <2>1. r \in 1..Len(heap') /\ r <= NRsvd
    BY <1>2
  <2>2. "CHRMAP" \notin heap[r].flags
    BY <1>1 DEF Numbering, Unsorted
  <2> QED
    BY <2>1, <2>2
<1> QED
  BY <1>3, <1>4, <1>5, <1>6 DEF Numbering

(* A number that may be left out.                                          *)
LEMMA NumbersAre ==
  ASSUME Typed, NEW num \in Numbered, NEW code \in Int
  PROVE  NextId(num, code) \in Int /\ NextSeed(num, code) \in Int
  BY TokenSpecAssumption DEF Typed, NextId, NextSeed, Numbered
-----------------------------------------------------------------------------
(* -------- A line for a reserved token -------- *)
LEMMA ReservedLineKeeps ==
  ASSUME IInv, NEW n \in Range(Rsvd) \cup Names, NEW num \in Numbered, ReservedLine(n, num)
  PROVE  IInv'
<1> DEFINE id == NextId(num, 0)
           coded == Coded(id)
<1>0. /\ Typed /\ Listing /\ phase = "body" /\ Reading /\ nuld' = nuld /\ IsReserved(n)
  BY DEF IInv, ReservedLine, Line, Reading
<1>k. PICK k : k = First({r \in RSVD : heap[r].name = n})
  OBVIOUS
<1>1. seed' \in Int /\ id \in Int
  BY <1>0, NumbersAre DEF ReservedLine
<1>2. CASE Refuse
  BY <1>0, <1>1, <1>2, RefusedKeeps DEF Refuse
<1>3. CASE /\ FindById(id, REGULAR) = 0
           /\ heap' = [heap EXCEPT ![k].id = id]
           /\ UNCHANGED <<arr, onech, view, quotes, phase>>
           /\ past' = [past EXCEPT !.moved = @ \/ coded]
  <2>1. /\ RSVD = 1..NRsvd /\ RSVD \subseteq 1..Len(heap) /\ NRsvd \in Nat /\ Len(heap) \in Nat
        /\ BOTH = 1..Len(heap) /\ REGULAR = (NRsvd + 1)..Len(heap) /\ REGULAR \subseteq 1..Len(heap)
    BY <1>0, Sizes, Areas
  <2>2. k \in RSVD /\ k \in 1..Len(heap)
    BY <1>0, <1>k, <2>1, ReservedFinds
  <2> HIDE DEF id, coded
  <2> DEFINE tok == [heap[k] EXCEPT !.id = id]
  <2>3. heap[k] \in Tok
    BY <1>0, <2>2, Sizes
  <2>4. /\ tok \in Tok /\ tok.id = id /\ tok.flags = heap[k].flags
        /\ tok.aliases = heap[k].aliases /\ tok.name = heap[k].name
    BY <1>1, <2>3 DEF Tok
  <2>5. heap' = [heap EXCEPT ![k] = tok]
    BY <1>3
  <2> HIDE DEF tok
  <2>6. Change(k, tok) /\ Keeps /\ Len(heap') = Len(heap)
    <3>1. Change(k, tok)
      BY <1>0, <1>3, <2>2, <2>4, <2>5, Updated
    <3>2. k # Len(heap) + 1
      BY <2>1, <2>2
    <3> QED
      BY <3>1, <3>2 DEF Change
  <2>7. \A t \in 1..Len(heap) : heap'[t] = IF t = k THEN tok ELSE heap[t]
    BY <2>6 DEF Change
  <2>8. /\ past' \in PastRec /\ past'.asked = past.asked /\ past'.shared = past.shared
        /\ past'.stopped = past.stopped /\ past'.clash = past.clash /\ past'.bare = past.bare
        /\ (~past'.moved => ~past.moved /\ ~coded)
    BY <1>0, <1>3 DEF Typed, PastRec
  <2>9. \A t \in 1..Len(heap) : \A m : HasName(heap'[t], m) <=> HasName(heap[t], m)
    BY <2>4, <2>7 DEF HasName
  <2>10. Typed'
    BY <1>0, <1>1, <1>3, <2>6, <2>8, LineTyped DEF Typed
  <2>11. Listing'
    BY <1>0, <1>3, <2>6, LineListing
  <2>12. Owned'
    <3>1. Quiet
      BY <1>3, <2>4, <2>6, <2>7, <2>8 DEF Quiet
    <3> QED
      BY <1>0, <2>6, <3>1, LineOwned DEF IInv
  <2>13. Keywords'
    <3>1. \A t \in (NRsvd + 1)..Len(heap) : t \in 1..Len(heap)
      BY <2>1
    <3> QED
      BY <1>0, <1>3, <2>6, <2>8, <2>9, <3>1, LineKeywords
  <2>14. Apart'
    <3>1. ~past.clash => \A r \in RSVD : heap'[r].aliases = {}
      BY <1>0, <2>1, <2>4, <2>7 DEF IInv, Apart
    <3>2. \A t \in 1..Len(heap) : HasName(heap[t], -1) => t = k
      <4>1. \A t \in 1..Len(heap) : heap[t].name \in Nat /\ heap[t].aliases \in SUBSET (Nat \ {0})
        BY <1>0, Sizes DEF Tok
      <4>2. -1 \notin Nat
        OBVIOUS
      <4> QED
        BY <4>1, <4>2 DEF HasName
    <3>3. NamesOne(-1, k)
      BY <2>6, <2>8, <2>9, <3>1, <3>2 DEF NamesOne
    <3> QED
      BY <1>0, <2>6, <3>3, LineApart
  <2>15. Numbering'
    <3>1. \A t \in 1..Len(heap') : t # k => t \in 1..Len(heap) /\ heap'[t] = heap[t]
      BY <2>6, <2>7
    <3>2. heap'[k] = tok /\ k <= NRsvd /\ k \notin (NRsvd + 1)..Len(heap) /\ k \in 1..Len(heap')
      BY <2>1, <2>2, <2>6, <2>7
    <3>3. "CHRMAP" \notin heap'[k].flags
      BY <1>0, <2>1, <2>2, <2>4, <3>2 DEF IInv, Numbering, Unsorted
    <3>4. ~past'.moved => Numbered1(k)'
      BY <2>4, <2>8, <3>2, <3>3 DEF Numbered1, Coded, coded
    <3>5. ASSUME NEW t \in 1..Len(heap), heap[t].id = heap'[k].id PROVE t <= NRsvd
      <4>1. \A u \in REGULAR : heap[u].id # id
        BY <1>0, <1>3, <2>1, ByIdFinds
      <4>2. t \notin REGULAR
        BY <2>4, <3>2, <3>5, <4>1
      <4> QED
        BY <2>1, <4>2
    <3> QED
      BY <1>0, <1>3, <2>6, <2>8, <3>1, <3>2, <3>3, <3>4, <3>5, LineNumbering
  <2>16. Uld' /\ NumbersLead' /\ Counted'
    BY <1>0, <1>3, LaterKept
  <2> QED
    BY <2>10, <2>11, <2>12, <2>13, <2>14, <2>15, <2>16 DEF IInv
<1> QED
  BY <1>k, <1>2, <1>3 DEF ReservedLine, Note
-----------------------------------------------------------------------------
(* -------- A line without a keyword -------- *)

(* A line that changes nothing.                                            *)
LEMMA IdleKeeps ==
  ASSUME IInv, Reading, UNCHANGED <<table, seed, phase, past, nuld>>
  PROVE  IInv'
<1>1. /\ heap' = heap /\ arr' = arr /\ onech' = onech /\ view' = view /\ quotes' = quotes
      /\ past' = past /\ nuld' = nuld /\ seed' = seed /\ phase' = phase /\ phase \in {"head", "body"}
  BY DEF table, Reading
<1>2. Typed' /\ Listing'
  BY <1>1 DEF IInv, Typed, Listing, Reading
<1>3. Owned'
  BY <1>1 DEF IInv, Owned, Referred
<1>4. Keywords'
  BY <1>1 DEF IInv, Keywords, Reading, Bears
<1>5. Apart'
  BY <1>1 DEF IInv, Apart, Reading, Bears, RSVD
<1>6. Numbering'
  BY <1>1 DEF IInv, Numbering, Unsorted, Numbered1, Coded
<1>7. Uld' /\ NumbersLead' /\ Counted'
  BY <1>1, LaterKept
<1> QED
  BY <1>2, <1>3, <1>4, <1>5, <1>6, <1>7 DEF IInv

(* A token made by a line.                                                 *)
LEMMA TokenIs ==
  ASSUME NEW id \in Int, NEW n \in Nat \ {0}, NEW flags \in SUBSET Flags
  PROVE  /\ Token(id, n, <<>>, flags) \in Tok
         /\ Token(id, n, <<>>, flags).id = id /\ Token(id, n, <<>>, flags).flags = flags
         /\ Token(id, n, <<>>, flags).base = <<>> /\ Token(id, n, <<>>, flags).aliases = {}
         /\ \A m : HasName(Token(id, n, <<>>, flags), m) <=> m = n
<1>1. <<>> \in Seq(Words) /\ {} \in SUBSET (Nat \ {0})
  OBVIOUS
<1> DEFINE words == <<>>
<1>2. /\ Token(id, n, words, flags).id = id /\ Token(id, n, words, flags).flags = flags
      /\ Token(id, n, words, flags).base = words
      /\ Token(id, n, words, flags).aliases = {} /\ Token(id, n, words, flags).name = n
  BY DEF Token
<1> HIDE DEF words
<1>3. Token(id, n, words, flags) \in Tok
  BY <1>1 DEF Token, Tok, words
<1>4. \A m : HasName(Token(id, n, words, flags), m) <=> m = n
  BY <1>2 DEF HasName
<1> QED
  BY <1>2, <1>3, <1>4 DEF words

LEMMA UserLineKeeps ==
  ASSUME IInv, NEW n \in Names, NEW num \in Numbered, UserLine(n, num)
  PROVE  IInv'
<1>0. /\ Typed /\ Listing /\ phase = "body" /\ Reading /\ nuld' = nuld /\ n \in Nat \ {0}
  BY TokenSpecAssumption DEF IInv, UserLine, Line, Reading
<1>1. PICK t : t = FindByName(n, BOTH)
  OBVIOUS
<1>2. PICK id \in Int : id = NextId(num, 0)
  BY <1>0, NumbersAre
<1>3. PICK u : u = FindById(id, BOTH)
  OBVIOUS
<1> DEFINE coded == Coded(id)
           reserved == u \in RSVD
<1>4. CASE Refuse /\ UNCHANGED seed
  <2>1. seed' \in Int
    BY <1>0, <1>4 DEF Typed
  <2> QED
    BY <1>0, <1>4, <2>1, RefusedKeeps DEF Refuse
<1>5. CASE UNCHANGED <<table, seed, phase, past>>
  BY <1>0, <1>5, IdleKeeps
<1>6. CASE /\ t = 0 /\ seed' = NextSeed(num, 0)
           /\ IF u = 0
                THEN /\ heap' = Append(heap, Token(id, n, <<>>, {}))
                     /\ arr' = Append(arr, Len(heap) + 1)
                ELSE /\ heap' = [heap EXCEPT ![u] = WithName(@, n)]
                     /\ UNCHANGED arr
           /\ past' = [past EXCEPT !.clash = @ \/ reserved, !.moved = @ \/ coded]
           /\ UNCHANGED <<onech, view, quotes, phase>>
  <2>1. /\ RSVD = 1..NRsvd /\ RSVD \subseteq 1..Len(heap) /\ NRsvd \in Nat /\ Len(heap) \in Nat
        /\ BOTH = 1..Len(heap) /\ NRsvd <= Len(heap)
        /\ \A v \in 1..Len(heap) : heap[v] \in Tok
    BY <1>0, Sizes, Areas
  <2>2. \A v \in 1..Len(heap) : ~HasName(heap[v], n)
    <3>1. BOTH \in SUBSET (1..Len(heap)) /\ FindByName(n, BOTH) = 0 /\ 0 \notin BOTH
      BY <1>1, <1>6, <2>1
    <3>2. ~ \E v \in BOTH : HasName(heap[v], n)
      BY <1>0, <3>1, ByNameFinds
    <3> QED
      BY <2>1, <3>2
  <2>3. /\ u # 0 => u \in 1..Len(heap) /\ heap[u].id = id
        /\ u = 0 => \A v \in 1..Len(heap) : heap[v].id # id
    BY <1>0, <1>3, <2>1, ByIdFinds
  <2>4. PICK k, tok : k = (IF u = 0 THEN Len(heap) + 1 ELSE u)
                      /\ tok = (IF u = 0 THEN Token(id, n, <<>>, {}) ELSE WithName(heap[u], n))
    OBVIOUS
  <2>5. /\ tok \in Tok /\ tok.id = id /\ HasName(tok, n)
        /\ tok.flags = IF u = 0 THEN {} ELSE heap[k].flags
        /\ \A m \in Nat \ {0} : HasName(tok, m) <=> m = n \/ (u # 0 /\ HasName(heap[k], m))
    <3>1. CASE u = 0
      <4>1. {} \in SUBSET Flags
        OBVIOUS
      <4> QED
        BY <1>0, <2>4, <3>1, <4>1, TokenIs
    <3>2. CASE u # 0
      <4>1. heap[u] \in Tok
        BY <2>1, <2>3, <3>2
      <4>2. /\ WithName(heap[u], n) \in Tok /\ WithName(heap[u], n).id = heap[u].id
            /\ WithName(heap[u], n).flags = heap[u].flags /\ HasName(WithName(heap[u], n), n)
            /\ \A m \in Nat \ {0} : HasName(WithName(heap[u], n), m) <=> HasName(heap[u], m) \/ m = n
        BY <1>0, <4>1, WithNameIs
      <4> QED
        BY <2>3, <2>4, <3>2, <4>2
    <3> QED
      BY <3>1, <3>2
  <2>6. Change(k, tok)
    <3>1. CASE u = 0
      BY <1>0, <1>6, <2>4, <2>5, <3>1, Appended
    <3>2. CASE u # 0
      <4>1. heap' = [heap EXCEPT ![k] = tok] /\ arr' = arr /\ k \in 1..Len(heap)
        BY <1>6, <2>3, <2>4, <3>2
      <4> QED
        BY <1>0, <2>5, <4>1, Updated
    <3> QED
      BY <3>1, <3>2
  <2>7. /\ Keeps /\ k \in 1..Len(heap')
        /\ Len(heap') = (IF u = 0 THEN Len(heap) + 1 ELSE Len(heap))
        /\ (u = 0 <=> k \notin 1..Len(heap))
        /\ \A v \in 1..Len(heap') : heap'[v] = IF v = k THEN tok ELSE heap[v]
        /\ \A v \in 1..Len(heap') : v # k => v \in 1..Len(heap)
    <3>1. Keeps /\ Len(heap') = (IF k = Len(heap) + 1 THEN Len(heap) + 1 ELSE Len(heap))
          /\ \A v \in 1..Len(heap') : heap'[v] = IF v = k THEN tok ELSE heap[v]
      BY <2>6 DEF Change
    <3>2. u = 0 <=> k = Len(heap) + 1
      BY <2>1, <2>3, <2>4
    <3> QED
      BY <2>1, <2>3, <2>4, <3>1, <3>2
  <2>8. /\ past' \in PastRec /\ past'.asked = past.asked /\ past'.shared = past.shared
        /\ past'.stopped = past.stopped /\ past'.bare = past.bare
        /\ (~past'.moved => ~past.moved /\ ~coded)
        /\ (~past'.clash => ~past.clash /\ ~reserved)
    <3> HIDE DEF coded, reserved
    <3> QED
      BY <1>0, <1>6 DEF Typed, PastRec
  <2>9. \A v \in 1..Len(heap) : v \in 1..Len(heap')
    BY <2>1, <2>7
  <2>10. Typed'
    <3>1. seed' \in Int
      BY <1>0, <1>6, NumbersAre
    <3> QED
      BY <1>0, <1>6, <2>7, <2>8, <3>1, LineTyped DEF Typed
  <2>11. Listing'
    BY <1>0, <1>6, <2>7, LineListing
  <2>12. Owned'
    <3>1. Quiet
      BY <1>6, <2>5, <2>7, <2>8, <2>9 DEF Quiet
    <3> QED
      BY <1>0, <2>7, <3>1, LineOwned DEF IInv
  <2>13. Keywords'
    <3>1. \A v \in (NRsvd + 1)..Len(heap) : v \in 1..Len(heap)
      BY <2>1
    <3>2. \A v \in (NRsvd + 1)..Len(heap) : \A m \in Nat \ {0} :
            HasName(heap[v], m) => HasName(heap'[v], m)
      BY <2>5, <2>7, <2>9, <3>1
    <3> QED
      BY <1>0, <1>6, <2>7, <2>8, <3>2, LineKeywords
  <2>14. Apart'
    <3>1. \A v \in 1..Len(heap') : \A m \in Names :
            HasName(heap'[v], m) => (v \in 1..Len(heap) /\ HasName(heap[v], m)) \/ (m = n /\ v = k)
      BY <2>5, <2>7, TokenSpecAssumption
    <3>2. ASSUME ~past'.clash PROVE \A r \in RSVD : heap'[r].aliases = {}
      <4>1. \A r \in RSVD : heap[r].aliases = {}
        BY <1>0, <2>8, <3>2 DEF IInv, Apart
      <4>2. k \notin RSVD
        BY <2>1, <2>4, <2>8, <3>2
      <4> QED
        BY <2>1, <2>7, <2>9, <4>1, <4>2
    <3>3. ~past'.clash => /\ ~past.clash
                          /\ \A v \in 1..Len(heap) : HasName(heap[v], n) => v = k
                          /\ \A r \in RSVD : heap'[r].aliases = {}
      BY <2>2, <2>8, <3>2
    <3>4. NamesOne(n, k)
      BY <3>1, <3>3 DEF NamesOne
    <3> QED
      BY <1>0, <2>7, <3>4, LineApart
  <2>15. Numbering'
    <3>1. \A v \in 1..Len(heap') : v # k => v \in 1..Len(heap) /\ heap'[v] = heap[v]
      BY <2>7
    <3>2. heap'[k] = tok /\ tok.id = id
      BY <2>5, <2>7
    <3>3. k \in 1..Len(heap) => /\ u # 0 /\ heap[k].id = id /\ heap'[k].flags = heap[k].flags
      BY <2>3, <2>4, <2>5, <2>7, <3>2
    <3>4. k \notin 1..Len(heap) => u = 0 /\ heap'[k].flags = {}
      BY <2>5, <2>7, <3>2
    <3>5. k <= NRsvd => "CHRMAP" \notin heap'[k].flags
      <4>1. k <= NRsvd => k \in 1..NRsvd /\ k \in 1..Len(heap)
        BY <2>1, <2>3, <2>4
      <4> QED
        BY <1>0, <3>3, <4>1 DEF IInv, Numbering, Unsorted
    <3>6. ASSUME ~past'.moved PROVE Numbered1(k)'
      <4>1. CASE k \in 1..Len(heap)
        <5>1. Numbered1(k)
          BY <1>0, <2>8, <3>6, <4>1 DEF IInv, Numbering, Unsorted
        <5> QED
          BY <1>6, <3>2, <3>3, <4>1, <5>1 DEF Numbered1, Coded
      <4>2. CASE k \notin 1..Len(heap)
        <5>1. ~coded
          BY <2>8, <3>6
        <5> QED
          BY <3>2, <3>4, <4>2, <5>1 DEF Numbered1, Coded
      <4> QED
        BY <4>1, <4>2
    <3>7. ASSUME ~past'.moved, NEW v \in 1..Len(heap), v # k, heap[v].id = heap'[k].id
          PROVE  v <= NRsvd /\ k <= NRsvd
      <4>1. u # 0
        BY <2>3, <3>2, <3>7
      <4>2. k \in 1..Len(heap) /\ heap[k].id = heap[v].id
        BY <2>3, <2>4, <3>2, <3>7, <4>1
      <4> QED
        BY <1>0, <2>8, <3>7, <4>2 DEF IInv, Numbering, Unsorted
    <3>8. k \in (NRsvd + 1)..Len(heap) => k \in 1..Len(heap)
      BY <2>1
    <3>9. k \in (NRsvd + 1)..Len(heap) => heap'[k].id = heap[k].id /\ heap'[k].flags = heap[k].flags
      BY <3>2, <3>3, <3>8
    <3> QED
      BY <1>0, <1>6, <2>7, <2>8, <3>1, <3>5, <3>6, <3>7, <3>9, LineNumbering
  <2>16. Uld' /\ NumbersLead' /\ Counted'
    BY <1>0, <1>6, LaterKept
  <2> QED
    BY <2>10, <2>11, <2>12, <2>13, <2>14, <2>15, <2>16 DEF IInv
<1> QED
  BY <1>1, <1>2, <1>3, <1>4, <1>5, <1>6 DEF UserLine, Note
-----------------------------------------------------------------------------
(* -------- A line for a character -------- *)

(* The token k it names, which becomes tok.                                *)
CharTokenBe(n, num, c, k, tok) ==
  LET new == CharToken(n, num, c)
  IN /\ new.vx = k /\ tok \in Tok /\ k \in 1..(Len(heap) + 1)
     /\ IF k = Len(heap) + 1
          THEN /\ new.heap = Append(heap, tok) /\ new.arr = Append(arr, Len(heap) + 1)
               /\ tok.flags = (IF tok.id = Code[c] THEN {"CHRMAP"} ELSE {"REFERRED"})
               /\ \A v \in REGULAR : heap[v].id # tok.id
          ELSE /\ new.heap = [heap EXCEPT ![k] = tok] /\ new.arr = arr
               /\ tok.id = heap[k].id /\ tok.flags = heap[k].flags \cup {"REFERRED"}
               /\ k \in RSVD => tok.aliases = heap[k].aliases
     /\ \A m \in Nat \ {0} :
          HasName(tok, m) <=> m = n \/ (k # Len(heap) + 1 /\ HasName(heap[k], m))
     /\ \/ \A v \in 1..Len(heap) : ~HasName(heap[v], n)
        \/ k \in 1..Len(heap) /\ HasName(heap[k], n)

LEMMA ReferredIs ==
  ASSUME NEW tok \in Tok
  PROVE  LET r == [tok EXCEPT !.flags = @ \cup {"REFERRED"}]
         IN /\ r \in Tok /\ r.id = tok.id /\ r.flags = tok.flags \cup {"REFERRED"}
            /\ r.aliases = tok.aliases /\ r.name = tok.name
            /\ \A m : HasName(r, m) <=> HasName(tok, m)
  BY DEF Tok, Flags, HasName

LEMMA CharTokenIs ==
  ASSUME Typed, Listing, Reading, NEW n \in Nat \ {0}, NEW num \in Numbered, NEW c \in Chars
  PROVE  \E k, tok : CharTokenBe(n, num, c, k, tok)
<1>1. PICK t : t = FindByName(n, BOTH)
  OBVIOUS
<1>2. PICK id \in Int : id = NextId(num, Code[c])
  <2>1. Code[c] \in Int
    BY TokenSpecAssumption
  <2> QED
    BY <2>1, NumbersAre
<1>3. PICK u : u = FindById(id, REGULAR)
  OBVIOUS
<1>4. /\ RSVD = 1..NRsvd /\ NRsvd \in Nat /\ Len(heap) \in Nat /\ NRsvd <= Len(heap)
      /\ BOTH = 1..Len(heap) /\ REGULAR = (NRsvd + 1)..Len(heap) /\ REGULAR \subseteq 1..Len(heap)
      /\ \A v \in 1..Len(heap) : heap[v] \in Tok
  BY Sizes, Areas
<1>5. /\ heap \in Seq(Tok) /\ Len(heap) + 1 \in 1..(Len(heap) + 1)
      /\ \A v \in 1..Len(heap) : v \in 1..(Len(heap) + 1) /\ v # Len(heap) + 1
  BY <1>4 DEF Typed
<1> DEFINE refer(k) == [heap[k] EXCEPT !.flags = @ \cup {"REFERRED"}]
<1>6. CASE t # 0
  <2>1. t \in 1..Len(heap) /\ HasName(heap[t], n)
    BY <1>1, <1>4, <1>6, ByNameFinds
  <2>2. PICK tok : tok = refer(t)
    OBVIOUS
  <2>3. /\ tok \in Tok /\ tok.id = heap[t].id /\ tok.flags = heap[t].flags \cup {"REFERRED"}
        /\ tok.aliases = heap[t].aliases /\ \A m : HasName(tok, m) <=> HasName(heap[t], m)
    <3>1. heap[t] \in Tok
      BY <1>4, <2>1
    <3> QED
      BY <2>2, <3>1, ReferredIs
  <2>4. /\ CharToken(n, num, c).vx = t /\ CharToken(n, num, c).arr = arr
        /\ CharToken(n, num, c).heap = [heap EXCEPT ![t] = tok]
    BY <1>1, <1>6, <2>2 DEF CharToken
  <2>5. CharTokenBe(n, num, c, t, tok)
    BY <1>5, <2>1, <2>3, <2>4 DEF CharTokenBe
  <2> QED
    BY <2>5
<1>7. CASE t = 0 /\ u # 0
  <2>1. u \in REGULAR /\ u \in 1..Len(heap) /\ heap[u].id = id
    BY <1>3, <1>4, <1>7, ByIdFinds
  <2>2. PICK tok : tok = WithName(refer(u), n)
    OBVIOUS
  <2>3. /\ tok \in Tok /\ tok.id = heap[u].id /\ tok.flags = heap[u].flags \cup {"REFERRED"}
        /\ \A m \in Nat \ {0} : HasName(tok, m) <=> m = n \/ HasName(heap[u], m)
    <3>1. heap[u] \in Tok
      BY <1>4, <2>1
    <3>2. /\ refer(u) \in Tok /\ refer(u).id = heap[u].id
          /\ refer(u).flags = heap[u].flags \cup {"REFERRED"}
          /\ \A m : HasName(refer(u), m) <=> HasName(heap[u], m)
      BY <3>1, ReferredIs
    <3> HIDE DEF refer
    <3>3. /\ WithName(refer(u), n) \in Tok /\ WithName(refer(u), n).id = refer(u).id
          /\ WithName(refer(u), n).flags = refer(u).flags
          /\ \A m \in Nat \ {0} : HasName(WithName(refer(u), n), m) <=> HasName(refer(u), m) \/ m = n
      BY <3>2, WithNameIs
    <3> QED
      BY <2>2, <3>2, <3>3
  <2>4. /\ CharToken(n, num, c).vx = u /\ CharToken(n, num, c).arr = arr
        /\ CharToken(n, num, c).heap = [[heap EXCEPT ![u].flags = @ \cup {"REFERRED"}] EXCEPT ![u] = WithName(@, n)]
    BY <1>1, <1>2, <1>3, <1>7 DEF CharToken
  <2>5. [[heap EXCEPT ![u].flags = @ \cup {"REFERRED"}] EXCEPT ![u] = WithName(@, n)] = [heap EXCEPT ![u] = tok]
    <3> DEFINE mid == [heap EXCEPT ![u].flags = @ \cup {"REFERRED"}]
    <3>0. DOMAIN heap = 1..Len(heap) /\ u \in DOMAIN heap
      BY <1>5, <2>1
    <3>1. mid[u] = refer(u) /\ DOMAIN mid = DOMAIN heap /\ u \in DOMAIN heap
      <4>1. DOMAIN mid = DOMAIN heap
        OBVIOUS
      <4>2. mid[u] = refer(u)
        BY <3>0
      <4> QED
        BY <3>0, <4>1, <4>2
    <3>2. \A v \in DOMAIN heap : v # u => mid[v] = heap[v]
      OBVIOUS
    <3>3. mid = [v \in DOMAIN heap |-> mid[v]]
      OBVIOUS
    <3> HIDE DEF refer, mid
    <3>4. [mid EXCEPT ![u] = WithName(@, n)] = [v \in DOMAIN heap |-> IF v = u THEN WithName(mid[u], n) ELSE mid[v]]
      BY <3>1, <3>3
    <3>5. [heap EXCEPT ![u] = tok] = [v \in DOMAIN heap |-> IF v = u THEN tok ELSE heap[v]]
      BY <1>5
    <3>6. [mid EXCEPT ![u] = WithName(@, n)] = [heap EXCEPT ![u] = tok]
      BY <2>2, <3>1, <3>2, <3>4, <3>5
    <3> QED
      BY <3>6 DEF mid
  <2>6. \A v \in 1..Len(heap) : ~HasName(heap[v], n)
    <3>1. BOTH \in SUBSET (1..Len(heap)) /\ FindByName(n, BOTH) = 0 /\ 0 \notin BOTH
      BY <1>1, <1>4, <1>7
    <3>2. ~ \E v \in BOTH : HasName(heap[v], n)
      BY <3>1, ByNameFinds
    <3> QED
      BY <1>4, <3>2
  <2>7. u \notin RSVD
    BY <1>4, <2>1
  <2>8. CharTokenBe(n, num, c, u, tok)
    BY <1>5, <2>1, <2>3, <2>4, <2>5, <2>6, <2>7 DEF CharTokenBe
  <2> QED
    BY <2>8
<1>8. CASE t = 0 /\ u = 0
  <2> DEFINE flags == IF id = Code[c] THEN {"CHRMAP"} ELSE {"REFERRED"}
  <2>1. PICK tok : tok = Token(id, n, <<>>, flags)
    OBVIOUS
  <2>2. flags \in SUBSET Flags
    BY DEF Flags
  <2> HIDE DEF flags
  <2>3. /\ tok \in Tok /\ tok.id = id /\ tok.flags = flags
        /\ \A m : HasName(tok, m) <=> m = n
    BY <2>1, <2>2, TokenIs
  <2>4. /\ CharToken(n, num, c).vx = Len(heap) + 1 /\ CharToken(n, num, c).arr = Append(arr, Len(heap) + 1)
        /\ CharToken(n, num, c).heap = Append(heap, tok)
    BY <1>1, <1>2, <1>3, <1>8, <2>1 DEF CharToken, flags
  <2>5. \A v \in 1..Len(heap) : ~HasName(heap[v], n)
    <3>1. BOTH \in SUBSET (1..Len(heap)) /\ FindByName(n, BOTH) = 0 /\ 0 \notin BOTH
      BY <1>1, <1>4, <1>8
    <3>2. ~ \E v \in BOTH : HasName(heap[v], n)
      BY <3>1, ByNameFinds
    <3> QED
      BY <1>4, <3>2
  <2>6. \A v \in REGULAR : heap[v].id # id
    <3>1. REGULAR \in SUBSET (1..Len(heap)) /\ FindById(id, REGULAR) = 0 /\ 0 \notin REGULAR
      BY <1>3, <1>4, <1>8
    <3> QED
      BY <3>1, ByIdFinds
  <2>7. CharTokenBe(n, num, c, Len(heap) + 1, tok)
    BY <1>5, <2>3, <2>4, <2>5, <2>6 DEF CharTokenBe, flags
  <2> QED
    BY <2>7
<1> QED
  BY <1>6, <1>7, <1>8

(* What the line does: refused, it has marked the token; else the          *)
(* character leads to it.                                                  *)
LEMMA CharLineKeeps ==
  ASSUME IInv, NEW n \in Names, NEW c \in Chars, NEW num \in Numbered, CharLine(n, c, num)
  PROVE  IInv'
<1>0. /\ Typed /\ Listing /\ phase = "body" /\ Reading /\ nuld' = nuld /\ n \in Nat \ {0}
      /\ view' = view /\ quotes' = quotes
  BY TokenSpecAssumption DEF IInv, CharLine, Line, Reading
<1>1. PICK k, tok : CharTokenBe(n, num, c, k, tok)
  BY <1>0, CharTokenIs
<1>2. /\ heap' = CharToken(n, num, c).heap /\ arr' = CharToken(n, num, c).arr
      /\ k = CharToken(n, num, c).vx
  BY <1>1 DEF CharLine, CharTokenBe
<1>3. /\ RSVD = 1..NRsvd /\ NRsvd \in Nat /\ Len(heap) \in Nat /\ NRsvd <= Len(heap)
      /\ REGULAR = (NRsvd + 1)..Len(heap) /\ RSVD \subseteq 1..Len(heap)
      /\ \A v \in 1..Len(heap) : heap[v] \in Tok
  BY <1>0, Sizes, Areas
<1>4. tok \in Tok /\ k \in 1..(Len(heap) + 1)
  BY <1>1 DEF CharTokenBe
<1>5. Change(k, tok)
  <2>1. CASE k = Len(heap) + 1
    BY <1>0, <1>1, <1>2, <2>1, Appended DEF CharTokenBe
  <2>2. CASE k # Len(heap) + 1
    <3>1. k \in 1..Len(heap)
      BY <1>3, <1>4, <2>2
    <3> QED
      BY <1>0, <1>1, <1>2, <2>2, <3>1, Updated DEF CharTokenBe
  <2> QED
    BY <2>1, <2>2
<1>6. /\ Keeps /\ k \in 1..Len(heap') /\ heap'[k] = tok
      /\ (k = Len(heap) + 1 <=> k \notin 1..Len(heap))
      /\ \A v \in 1..Len(heap') : v # k => v \in 1..Len(heap) /\ heap'[v] = heap[v]
      /\ \A v \in 1..Len(heap) : v \in 1..Len(heap')
  <2>1. Keeps /\ Len(heap') = (IF k = Len(heap) + 1 THEN Len(heap) + 1 ELSE Len(heap))
        /\ \A v \in 1..Len(heap') : heap'[v] = IF v = k THEN tok ELSE heap[v]
    BY <1>5 DEF Change
  <2> QED
    BY <1>3, <1>4, <2>1
<1>7. /\ tok.flags = (IF k \notin 1..Len(heap)
                        THEN (IF tok.id = Code[c] THEN {"CHRMAP"} ELSE {"REFERRED"})
                        ELSE heap[k].flags \cup {"REFERRED"})
      /\ k \in 1..Len(heap) => tok.id = heap[k].id
      /\ k \notin 1..Len(heap) => \A v \in REGULAR : heap[v].id # tok.id
      /\ k \in RSVD => tok.aliases = heap[k].aliases
      /\ \A m \in Nat \ {0} :
           HasName(tok, m) <=> m = n \/ (k \in 1..Len(heap) /\ HasName(heap[k], m))
      /\ \/ \A v \in 1..Len(heap) : ~HasName(heap[v], n)
         \/ k \in 1..Len(heap) /\ HasName(heap[k], n)
  <2>1. k \in RSVD => k \in 1..Len(heap)
    BY <1>3
  <2> QED
    BY <1>1, <1>6, <2>1 DEF CharTokenBe
<1>8. /\ Referred(k)'
      /\ \A v \in 1..Len(heap') : v # k => (Referred(v)' <=> Referred(v))
  <2>1. "CHRMAP" \in tok.flags \/ "REFERRED" \in tok.flags
    BY <1>7
  <2> QED
    BY <1>6, <2>1 DEF Referred
<1>9. seed' \in Int
  <2>1. Code[c] \in Int
    BY TokenSpecAssumption
  <2>2. NextSeed(num, Code[c]) \in Int /\ seed \in Int
    BY <1>0, <2>1, NumbersAre DEF Typed
  <2> QED
    BY <2>2 DEF CharLine
<1> DEFINE sharing == \E d \in Chars \ {c} : onech[d] = k
           moving == FindById(tok.id, RSVD) # 0 \/ \E d \in Chars \ {c} : Code[d] = tok.id
<1>10. CASE phase' = "refused" /\ onech' = onech /\ past' = [past EXCEPT !.stopped = TRUE]
  <2>1. past' \in PastRec /\ past'.stopped /\ past'.shared = past.shared
    BY <1>0, <1>10 DEF Typed, PastRec
  <2>2. Typed' /\ Listing'
    BY <1>0, <1>6, <1>9, <1>10, <2>1, LineTyped, LineListing DEF Typed
  <2>3. Owned'
    <3>1. ASSUME NEW v \in 1..Len(heap'), ~Referred(v)'
          PROVE  (\E i \in 1..Len(arr') : arr'[i] = v) /\ \A d \in Chars : onech'[d] # v
      <4>1. v # k
        BY <1>8, <3>1
      <4>2. v \in 1..Len(heap) /\ ~Referred(v)
        BY <1>6, <1>8, <3>1, <4>1
      <4>3. \E i \in 1..Len(arr') : arr'[i] = v
        BY <1>6 DEF Keeps
      <4> QED
        BY <1>10, <4>2, <4>3 DEF IInv, Owned
    <3>2. ~past'.shared => \A d, e \in Chars : onech'[d] = onech'[e] /\ onech'[d] # 0 => d = e
      BY <1>10, <2>1 DEF IInv, Owned
    <3> QED
      BY <1>10, <2>1, <3>1, <3>2 DEF Owned
  <2>4. Keywords' /\ Apart' /\ Numbering'
    BY <1>10 DEF Keywords, Apart, Numbering, Reading, Unsorted
  <2>5. Uld' /\ NumbersLead' /\ Counted'
    BY <1>10, LaterKept
  <2> QED
    BY <2>2, <2>3, <2>4, <2>5 DEF IInv
<1>11. CASE /\ onech[c] \in {0, k} /\ onech' = [onech EXCEPT ![c] = k] /\ phase' = phase
            /\ past' = [past EXCEPT !.shared = @ \/ sharing, !.moved = @ \/ moving]
  <2>1. /\ past' \in PastRec /\ past'.asked = past.asked /\ past'.clash = past.clash
        /\ past'.stopped = past.stopped /\ past'.bare = past.bare
        /\ (~past'.moved => ~past.moved /\ ~moving)
        /\ (~past'.shared => ~past.shared /\ ~sharing)
    <3> HIDE DEF moving, sharing
    <3> QED
      BY <1>0, <1>11 DEF Typed, PastRec
  <2>2. /\ onech' \in [Chars -> 0..Len(heap')] /\ onech'[c] = k
        /\ \A d \in Chars : d # c => onech'[d] = onech[d]
        /\ \A d \in Chars : onech[d] # 0 => onech'[d] = onech[d]
    <3>1. onech \in [Chars -> 0..Len(heap)] /\ Len(heap) <= Len(heap') /\ Len(heap') \in Nat
      BY <1>0, <1>6 DEF Typed, Keeps
    <3>2. 0..Len(heap) \subseteq 0..Len(heap') /\ k \in 0..Len(heap')
      BY <1>3, <1>6, <3>1
    <3>3. onech' \in [Chars -> 0..Len(heap')]
      BY <1>11, <3>1, <3>2
    <3>4. onech'[c] = k /\ \A d \in Chars : d # c => onech'[d] = onech[d]
      BY <1>11, <3>1
    <3>5. onech[c] # 0 => onech[c] = k
      BY <1>11
    <3> QED
      BY <3>3, <3>4, <3>5
  <2>3. Typed'
    BY <1>0, <1>6, <1>9, <1>11, <2>1, <2>2, LineTyped DEF Typed
  <2>4. Listing'
    BY <1>0, <1>6, <1>11, LineListing
  <2>5. Owned'
    <3>1. ASSUME NEW v \in 1..Len(heap'), ~Referred(v)'
          PROVE  (\E i \in 1..Len(arr') : arr'[i] = v) /\ \A d \in Chars : onech'[d] # v
      <4>1. v # k
        BY <1>8, <3>1
      <4>2. v \in 1..Len(heap) /\ ~Referred(v)
        BY <1>6, <1>8, <3>1, <4>1
      <4>3. \E i \in 1..Len(arr') : arr'[i] = v
        BY <1>6 DEF Keeps
      <4>4. \A d \in Chars : onech[d] # v
        BY <4>2 DEF IInv, Owned
      <4> QED
        BY <2>2, <4>1, <4>3, <4>4
    <3>2. ASSUME ~past'.stopped, NEW v \in 1..Len(heap'), Referred(v)'
          PROVE  \E d \in Chars : onech'[d] = v
      <4>1. CASE v = k
        BY <2>2, <4>1
      <4>2. CASE v # k
        <5>1. v \in 1..Len(heap) /\ Referred(v)
          BY <1>6, <1>8, <3>2, <4>2
        <5>2. PICK d \in Chars : onech[d] = v
          BY <2>1, <3>2, <5>1 DEF IInv, Owned
        <5>3. v # 0
          BY <1>3, <5>1
        <5> QED
          BY <2>2, <5>2, <5>3
      <4> QED
        BY <4>1, <4>2
    <3>3. ASSUME ~past'.shared, NEW d \in Chars, NEW e \in Chars, onech'[d] = onech'[e], onech'[d] # 0
          PROVE  d = e
      <4>1. ~past.shared /\ \A x \in Chars : x # c => onech[x] # k
        BY <2>1, <3>3
      <4>2. CASE d = c \/ e = c
        BY <2>2, <3>3, <4>1, <4>2
      <4>3. CASE d # c /\ e # c
        BY <2>2, <3>3, <4>1, <4>3 DEF IInv, Owned
      <4> QED
        BY <4>2, <4>3
    <3>4. ~past'.stopped
      BY <1>0, <2>1 DEF IInv, Owned
    <3> QED
      BY <3>1, <3>2, <3>3, <3>4 DEF Owned
  <2>6. Keywords'
    <3>1. \A v \in (NRsvd + 1)..Len(heap) : v \in 1..Len(heap)
      BY <1>3
    <3>2. \A v \in (NRsvd + 1)..Len(heap) : \A m \in Nat \ {0} :
            HasName(heap[v], m) => HasName(heap'[v], m)
      BY <1>6, <1>7, <3>1
    <3> QED
      BY <1>0, <1>6, <1>11, <2>1, <3>2, LineKeywords
  <2>7. Apart'
    <3>1. \A v \in 1..Len(heap') : \A m \in Names :
            HasName(heap'[v], m) => (v \in 1..Len(heap) /\ HasName(heap[v], m)) \/ (m = n /\ v = k)
      BY <1>6, <1>7, TokenSpecAssumption
    <3>2. ASSUME ~past'.clash PROVE \A r \in RSVD : heap'[r].aliases = {}
      <4>1. \A r \in RSVD : heap[r].aliases = {}
        BY <1>0, <2>1, <3>2 DEF IInv, Apart
      <4> QED
        BY <1>3, <1>6, <1>7, <4>1
    <3>3. ASSUME ~past'.clash, NEW v \in 1..Len(heap), HasName(heap[v], n) PROVE v = k
      <4>1. k \in 1..Len(heap) /\ HasName(heap[k], n)
        BY <1>7, <3>3
      <4> QED
        BY <1>0, <2>1, <3>3, <4>1 DEF IInv, Apart, Bears, HasName
    <3>4. NamesOne(n, k)
      BY <2>1, <3>1, <3>2, <3>3 DEF NamesOne
    <3> QED
      BY <1>0, <1>6, <3>4, LineApart
  <2>8. Numbering'
    <3>1. "CHRMAP" \in heap'[k].flags <=>
            IF k \in 1..Len(heap) THEN "CHRMAP" \in heap[k].flags ELSE tok.id = Code[c]
      BY <1>6, <1>7
    <3>2. k <= NRsvd => "CHRMAP" \notin heap'[k].flags
      <4>1. k <= NRsvd => k \in 1..NRsvd /\ k \in 1..Len(heap)
        BY <1>3, <1>4
      <4> QED
        BY <1>0, <3>1, <4>1 DEF IInv, Numbering, Unsorted
    <3>3. ASSUME ~past'.moved PROVE Numbered1(k)'
      <4>1. CASE k \in 1..Len(heap) /\ "CHRMAP" \in heap[k].flags
        <5>1. PICK d \in Chars : Code[d] = heap[k].id /\ onech[d] = k
          BY <1>0, <2>1, <3>3, <4>1 DEF IInv, Numbering, Unsorted, Numbered1
        <5>2. onech'[d] = k
          BY <1>3, <2>2, <4>1, <5>1
        <5> QED
          BY <1>6, <1>7, <3>1, <4>1, <5>1, <5>2 DEF Numbered1
      <4>2. CASE k \in 1..Len(heap) /\ "CHRMAP" \notin heap[k].flags
        <5>1. ~Coded(heap[k].id)
          BY <1>0, <2>1, <3>3, <4>2 DEF IInv, Numbering, Unsorted, Numbered1
        <5> QED
          BY <1>6, <1>7, <3>1, <4>2, <5>1 DEF Numbered1, Coded
      <4>3. CASE k \notin 1..Len(heap) /\ tok.id = Code[c]
        BY <1>6, <2>2, <3>1, <4>3 DEF Numbered1
      <4>4. CASE k \notin 1..Len(heap) /\ tok.id # Code[c]
        <5>1. \A d \in Chars : Code[d] # tok.id
          BY <2>1, <3>3, <4>4
        <5> QED
          BY <1>6, <3>1, <4>4, <5>1 DEF Numbered1, Coded
      <4> QED
        BY <4>1, <4>2, <4>3, <4>4
    <3>4. ASSUME ~past'.moved, NEW v \in 1..Len(heap), v # k, heap[v].id = heap'[k].id
          PROVE  v <= NRsvd /\ k <= NRsvd
      <4>1. CASE k \in 1..Len(heap)
        BY <1>0, <1>6, <1>7, <2>1, <3>4, <4>1 DEF IInv, Numbering, Unsorted
      <4>2. CASE k \notin 1..Len(heap)
        <5>1. RSVD \in SUBSET (1..Len(heap)) /\ FindById(tok.id, RSVD) = 0 /\ 0 \notin RSVD
          BY <1>3, <2>1, <3>4
        <5>2. \A r \in RSVD : heap[r].id # tok.id
          BY <1>0, <5>1, ByIdFinds
        <5>3. v \in RSVD \/ v \in REGULAR
          BY <1>3, <3>4
        <5> QED
          BY <1>6, <1>7, <3>4, <4>2, <5>2, <5>3
      <4> QED
        BY <4>1, <4>2
    <3>5. k \in (NRsvd + 1)..Len(heap) => k \in 1..Len(heap)
      BY <1>3
    <3>6. k \in (NRsvd + 1)..Len(heap) =>
            heap'[k].id = heap[k].id /\ ("CHRMAP" \in heap'[k].flags <=> "CHRMAP" \in heap[k].flags)
      BY <1>6, <1>7, <3>1, <3>5
    <3>7. \A v \in 1..Len(heap') : v # k =>
            /\ v \in 1..Len(heap) /\ heap'[v].id = heap[v].id
            /\ ("CHRMAP" \in heap'[v].flags <=> "CHRMAP" \in heap[v].flags)
      BY <1>6
    <3> QED
      BY <1>0, <1>6, <1>11, <2>1, <2>2, <3>2, <3>3, <3>4, <3>6, <3>7, LineNumbering
  <2>9. Uld' /\ NumbersLead' /\ Counted'
    BY <1>0, <1>11, LaterKept
  <2> QED
    BY <2>3, <2>4, <2>5, <2>6, <2>7, <2>8, <2>9 DEF IInv
<1>12. heap'[k].id = tok.id
  BY <1>6
<1> QED
  BY <1>2, <1>10, <1>11, <1>12 DEF CharLine, Note
-----------------------------------------------------------------------------
(* -------- A line for a keyword -------- *)

WithKeyword(tok, w) == [tok EXCEPT !.base = Append(@, w)]
Keyworded(h, k, w) == [h EXCEPT ![k].base = Append(@, w)]
Replaced(h, k, tok) == [h EXCEPT ![k] = tok]

LEMMA KeywordIs ==
  ASSUME NEW tok \in Tok, NEW w \in Words
  PROVE  LET r == WithKeyword(tok, w)
         IN /\ r \in Tok /\ r.id = tok.id /\ r.flags = tok.flags
            /\ r.aliases = tok.aliases /\ r.name = tok.name
            /\ \A m : HasName(r, m) <=> HasName(tok, m)
<1>1. tok.base \in Seq(Words)
  BY DEF Tok
<1>2. Append(tok.base, w) \in Seq(Words)
  BY <1>1, AppendProperties
<1> DEFINE words == Append(tok.base, w)
           r == [tok EXCEPT !.base = words]
<1>3. words \in Seq(Words)
  BY <1>2
<1> HIDE DEF words
<1>4. /\ r \in Tok /\ r.id = tok.id /\ r.flags = tok.flags
      /\ r.aliases = tok.aliases /\ r.name = tok.name
  BY <1>3 DEF Tok
<1>5. \A m : HasName(r, m) <=> HasName(tok, m)
  BY <1>4 DEF HasName
<1> QED
  BY <1>4, <1>5 DEF words, WithKeyword

(* A token changed twice by a line.                                        *)
LEMMA Twice ==
  ASSUME NEW h \in Seq(Tok), NEW k \in 1..Len(h), NEW a \in Tok, NEW w
  PROVE  Keyworded(Replaced(h, k, a), k, w) = Replaced(h, k, WithKeyword(a, w))
<1> DEFINE mid == [h EXCEPT ![k] = a]
<1>1. DOMAIN h = 1..Len(h) /\ k \in DOMAIN h
  OBVIOUS
<1>2. mid[k] = a /\ DOMAIN mid = DOMAIN h /\ mid = [v \in DOMAIN h |-> mid[v]]
  BY <1>1
<1>3. \A v \in DOMAIN h : v # k => mid[v] = h[v]
  BY <1>1
<1> HIDE DEF mid
<1>4. [mid EXCEPT ![k].base = Append(@, w)]
        = [v \in DOMAIN h |-> IF v = k THEN [mid[k] EXCEPT !.base = Append(@, w)] ELSE mid[v]]
  BY <1>1, <1>2
<1> DEFINE b == [a EXCEPT !.base = Append(@, w)]
<1>5. [mid EXCEPT ![k].base = Append(@, w)] = [v \in DOMAIN h |-> IF v = k THEN b ELSE mid[v]]
  BY <1>2, <1>4
<1> HIDE DEF b
<1>6. [h EXCEPT ![k] = b] = [v \in DOMAIN h |-> IF v = k THEN b ELSE h[v]]
  BY <1>1
<1>7. [mid EXCEPT ![k].base = Append(@, w)] = [h EXCEPT ![k] = b]
  BY <1>3, <1>5, <1>6
<1> QED
  BY <1>7 DEF mid, b, Keyworded, WithKeyword, Replaced

(* A token made and given its keyword.                                     *)
LEMMA MadeWith ==
  ASSUME NEW h \in Seq(Tok), NEW a \in Tok, NEW w \in Words
  PROVE  Keyworded(Append(h, a), Len(h) + 1, w) = Append(h, WithKeyword(a, w))
<1> DEFINE l == Len(h)
           mid == Append(h, a)
           b == WithKeyword(a, w)
           one == [mid EXCEPT ![l + 1].base = Append(@, w)]
           two == Append(h, b)
<1>1. b \in Tok
  BY KeywordIs
<1>2. /\ l \in Nat /\ mid \in Seq(Tok) /\ Len(mid) = l + 1 /\ mid[l + 1] = a
      /\ \A v \in 1..l : mid[v] = h[v]
  BY AppendProperties
<1> HIDE DEF b
<1>3. /\ two \in Seq(Tok) /\ Len(two) = l + 1 /\ two[l + 1] = b
      /\ \A v \in 1..l : two[v] = h[v]
  BY <1>1, AppendProperties
<1> HIDE DEF l, mid, two
<1>4. DOMAIN mid = 1..(l + 1) /\ DOMAIN two = 1..(l + 1) /\ l + 1 \in 1..(l + 1)
  BY <1>2, <1>3
<1>5. mid = [v \in 1..(l + 1) |-> mid[v]] /\ two = [v \in 1..(l + 1) |-> two[v]]
  BY <1>2, <1>3, <1>4
<1>6. one = [v \in 1..(l + 1) |-> IF v = l + 1 THEN b ELSE mid[v]]
  BY <1>2, <1>4, <1>5 DEF b, WithKeyword
<1>7. \A v \in 1..(l + 1) : v = l + 1 \/ v \in 1..l
  BY <1>2
<1> HIDE DEF one
<1>8. \A v \in 1..(l + 1) : one[v] = two[v]
  BY <1>2, <1>3, <1>6, <1>7
<1>9. one = two
  BY <1>5, <1>6, <1>8
<1> QED
  BY <1>9 DEF one, two, mid, b, l, Keyworded

(* The token k the line gives the keyword to, which becomes tok; grp is    *)
(* the token of the body that has the name, 0 when none has it.            *)
WordTokenBe(n, w, grp, k, tok) ==
  /\ tok \in Tok /\ k \in 1..(Len(heap) + 1) /\ k > NRsvd
  /\ IF k = Len(heap) + 1
       THEN /\ heap' = Append(heap, tok) /\ arr' = Append(arr, Len(heap) + 1)
            /\ tok.flags = {} /\ FindById(tok.id, RSVD) = 0
            /\ \A v \in REGULAR : heap[v].id # tok.id
            /\ past'.moved = (past.moved \/ Coded(tok.id))
       ELSE /\ heap' = [heap EXCEPT ![k] = tok] /\ arr' = arr
            /\ tok.id = heap[k].id /\ tok.flags = heap[k].flags
            /\ \A m \in Nat \ {0} : HasName(heap[k], m) => HasName(tok, m)
  /\ \A m \in Nat \ {0} :
       HasName(tok, m) => (k # Len(heap) + 1 /\ HasName(heap[k], m)) \/ (m = n /\ grp \in {0, k})
  /\ view[w] \in {0, k} /\ view' = [view EXCEPT ![w] = k]
  /\ view[w] = 0 \/ grp = 0 => HasName(tok, n)

LEMMA WordTokenIs ==
  ASSUME IInv, NEW n \in Names, NEW w \in Words, NEW num \in Numbered, WordLine(n, w, num),
         phase' # "refused"
  PROVE  \E k, tok : WordTokenBe(n, w, FindByName(n, REGULAR), k, tok)
<1>0. /\ Typed /\ Listing /\ phase = "body" /\ Reading /\ n \in Nat \ {0}
  BY TokenSpecAssumption DEF IInv, WordLine, Line, Reading
<1>1. PICK grp : grp = FindByName(n, REGULAR)
  OBVIOUS
<1>2. /\ RSVD = 1..NRsvd /\ NRsvd \in Nat /\ Len(heap) \in Nat /\ NRsvd <= Len(heap)
      /\ REGULAR = (NRsvd + 1)..Len(heap) /\ REGULAR \subseteq 1..Len(heap)
      /\ RSVD \subseteq 1..Len(heap) /\ heap \in Seq(Tok)
      /\ \A v \in 1..Len(heap) : heap[v] \in Tok
  BY <1>0, Sizes, Areas DEF Typed
<1>3. IF grp = 0 THEN \A v \in REGULAR : ~HasName(heap[v], n)
                 ELSE grp \in REGULAR /\ HasName(heap[grp], n)
  <2>1. REGULAR \in SUBSET (1..Len(heap)) /\ 0 \notin REGULAR
    BY <1>2
  <2> QED
    BY <1>0, <1>1, <2>1, ByNameFinds
<1>4. PICK id : id = (IF grp # 0 THEN heap[grp].id ELSE NextId(num, 0))
  OBVIOUS
<1>5. id \in Int
  <2>1. NextId(num, 0) \in Int
    BY <1>0, NumbersAre
  <2>2. grp # 0 => heap[grp] \in Tok
    BY <1>2, <1>3
  <2> QED
    BY <1>4, <2>1, <2>2 DEF Tok
<1>6. PICK old : old = (IF grp # 0 THEN grp ELSE FindById(id, REGULAR))
  OBVIOUS
<1>7. IF old = 0 THEN grp = 0 /\ \A v \in REGULAR : heap[v].id # id
                 ELSE old \in REGULAR /\ heap[old].id = id
  <2>1. REGULAR \in SUBSET (1..Len(heap)) /\ 0 \notin REGULAR
    BY <1>2
  <2>2. CASE grp # 0
    BY <1>3, <1>4, <1>6, <2>1, <2>2
  <2>3. CASE grp = 0
    BY <1>0, <1>6, <2>1, <2>3, ByIdFinds
  <2> QED
    BY <2>2, <2>3
<1>8. PICK t : t = (IF view[w] # 0 THEN view[w] ELSE IF old # 0 THEN old ELSE Len(heap) + 1)
  OBVIOUS
<1>9. /\ t \in 1..(Len(heap) + 1) /\ t > NRsvd
      /\ t = Len(heap) + 1 <=> (view[w] = 0 /\ old = 0)
      /\ t # Len(heap) + 1 => t \in 1..Len(heap)
  <2>1. view[w] \in 0..Len(heap) /\ (view[w] # 0 => view[w] > NRsvd)
    BY <1>0 DEF IInv, Keywords, Typed
  <2>2. old # 0 => old \in (NRsvd + 1)..Len(heap)
    BY <1>2, <1>7
  <2> QED
    BY <1>2, <1>8, <2>1, <2>2
<1>10. PICK named : named = (IF old = 0 /\ view[w] = 0 THEN Append(heap, Token(id, n, <<>>, {}))
                             ELSE IF grp # 0 THEN heap
                             ELSE [heap EXCEPT ![t] = WithName(@, n)])
  OBVIOUS
<1>11. /\ FindById(id, RSVD) = 0
       /\ heap' = IF view[w] = 0 THEN Keyworded(named, t, w) ELSE named
       /\ arr' = IF t > Len(heap) THEN Append(arr, t) ELSE arr
       /\ view' = [view EXCEPT ![w] = t]
       /\ past' = [past EXCEPT
                !.asked = IF view[w] # 0 /\ grp # 0 THEN @ ELSE @ \cup {<<w, n>>},
                !.moved = @ \/ (old = 0 /\ Coded(id))]
  BY <1>1, <1>4, <1>6, <1>8, <1>10 DEF WordLine, Note, Refuse, Keyworded
<1>12. arr' = IF t = Len(heap) + 1 THEN Append(arr, Len(heap) + 1) ELSE arr
  BY <1>2, <1>9, <1>11
<1>13. view[w] \in {0, t}
  BY <1>8
<1>14. CASE view[w] # 0 /\ grp # 0
  <2>1. heap' = [heap EXCEPT ![t] = heap[t]]
    BY <1>2, <1>9, <1>10, <1>11, <1>14
  <2>2. heap[t] \in Tok /\ t \in 1..Len(heap) /\ t # Len(heap) + 1
    BY <1>2, <1>9, <1>14
  <2>3. WordTokenBe(n, w, grp, t, heap[t])
    BY <1>9, <1>11, <1>12, <1>13, <1>14, <2>1, <2>2 DEF WordTokenBe
  <2> QED
    BY <1>1, <2>3
<1>15. CASE view[w] # 0 /\ grp = 0
  <2>1. heap[t] \in Tok /\ t \in 1..Len(heap) /\ t # Len(heap) + 1
    BY <1>2, <1>9, <1>15
  <2>2. PICK tok : tok = WithName(heap[t], n)
    OBVIOUS
  <2>3. /\ tok \in Tok /\ tok.id = heap[t].id /\ tok.flags = heap[t].flags
        /\ HasName(tok, n)
        /\ \A m \in Nat \ {0} : HasName(tok, m) <=> HasName(heap[t], m) \/ m = n
    BY <1>0, <2>1, <2>2, WithNameIs
  <2>4. heap' = [heap EXCEPT ![t] = tok]
    BY <1>10, <1>11, <1>15, <2>2
  <2>5. WordTokenBe(n, w, grp, t, tok)
    BY <1>9, <1>11, <1>12, <1>13, <1>15, <2>1, <2>3, <2>4 DEF WordTokenBe
  <2> QED
    BY <1>1, <2>5
<1>16. CASE view[w] = 0 /\ grp # 0
  <2>1. t = grp /\ heap[t] \in Tok /\ t \in 1..Len(heap) /\ t # Len(heap) + 1
    BY <1>2, <1>3, <1>6, <1>7, <1>8, <1>9, <1>16
  <2>2. PICK tok : tok = WithKeyword(heap[t], w)
    OBVIOUS
  <2>3. /\ tok \in Tok /\ tok.id = heap[t].id /\ tok.flags = heap[t].flags
        /\ \A m : HasName(tok, m) <=> HasName(heap[t], m)
    BY <2>1, <2>2, KeywordIs
  <2>4. heap' = [heap EXCEPT ![t] = tok]
    <3>1. named = heap
      BY <1>7, <1>10, <1>16
    <3> QED
      BY <1>11, <1>16, <2>2, <3>1 DEF Keyworded, WithKeyword
  <2>5. HasName(tok, n)
    BY <1>3, <1>16, <2>1, <2>3
  <2>6. WordTokenBe(n, w, grp, t, tok)
    BY <1>9, <1>11, <1>12, <1>13, <1>16, <2>1, <2>3, <2>4, <2>5 DEF WordTokenBe
  <2> QED
    BY <1>1, <2>6
<1>17. CASE view[w] = 0 /\ grp = 0 /\ old # 0
  <2>1. t = old /\ heap[t] \in Tok /\ t \in 1..Len(heap) /\ t # Len(heap) + 1
    BY <1>2, <1>7, <1>8, <1>9, <1>17
  <2>2. PICK mid : mid = WithName(heap[t], n)
    OBVIOUS
  <2>3. /\ mid \in Tok /\ mid.id = heap[t].id /\ mid.flags = heap[t].flags
        /\ HasName(mid, n)
        /\ \A m \in Nat \ {0} : HasName(mid, m) <=> HasName(heap[t], m) \/ m = n
    BY <1>0, <2>1, <2>2, WithNameIs
  <2>4. PICK tok : tok = WithKeyword(mid, w)
    OBVIOUS
  <2>5. /\ tok \in Tok /\ tok.id = mid.id /\ tok.flags = mid.flags
        /\ \A m : HasName(tok, m) <=> HasName(mid, m)
    BY <2>3, <2>4, KeywordIs
  <2>6. heap' = [heap EXCEPT ![t] = tok]
    <3>1. named = Replaced(heap, t, mid)
      BY <1>10, <1>17, <2>2 DEF Replaced
    <3>2. Keyworded(Replaced(heap, t, mid), t, w) = Replaced(heap, t, tok)
      <4>1. heap \in Seq(Tok) /\ t \in 1..Len(heap) /\ mid \in Tok
        BY <1>2, <2>1, <2>3
      <4>2. Keyworded(Replaced(heap, t, mid), t, w) = Replaced(heap, t, WithKeyword(mid, w))
        BY ONLY <4>1, Twice
      <4> QED
        BY <2>4, <4>2
    <3> QED
      BY <1>11, <1>17, <3>1, <3>2 DEF Replaced
  <2>7. WordTokenBe(n, w, grp, t, tok)
    BY <1>9, <1>11, <1>12, <1>13, <1>17, <2>1, <2>3, <2>5, <2>6 DEF WordTokenBe
  <2> QED
    BY <1>1, <2>7
<1>18. CASE view[w] = 0 /\ grp = 0 /\ old = 0
  <2>1. t = Len(heap) + 1
    BY <1>9, <1>18
  <2>2. PICK mid : mid = Token(id, n, <<>>, {})
    OBVIOUS
  <2>3. mid \in Tok /\ mid.id = id /\ mid.flags = {} /\ \A m : HasName(mid, m) <=> m = n
    <3>1. {} \in SUBSET Flags
      OBVIOUS
    <3> QED
      BY <1>0, <1>5, <2>2, <3>1, TokenIs
  <2>4. PICK tok : tok = WithKeyword(mid, w)
    OBVIOUS
  <2>5. /\ tok \in Tok /\ tok.id = mid.id /\ tok.flags = mid.flags
        /\ \A m : HasName(tok, m) <=> HasName(mid, m)
    BY <2>3, <2>4, KeywordIs
  <2>6. heap' = Append(heap, tok)
    <3>1. named = Append(heap, mid)
      BY <1>10, <1>18, <2>2
    <3>2. Keyworded(Append(heap, mid), Len(heap) + 1, w) = Append(heap, tok)
      BY <1>2, <2>3, <2>4, MadeWith
    <3> QED
      BY <1>11, <1>18, <2>1, <3>1, <3>2
  <2>7. past'.moved = (past.moved \/ Coded(id))
    <3> DEFINE more == old = 0 /\ Coded(id)
    <3>1. more <=> Coded(id)
      BY <1>18
    <3>2. past'.moved = (past.moved \/ more)
      <4>1. past \in PastRec
        BY <1>0 DEF Typed
      <4> HIDE DEF more
      <4> QED
        BY <1>11, <4>1 DEF PastRec, more
    <3> QED
      BY <3>1, <3>2
  <2>8. WordTokenBe(n, w, grp, t, tok)
    BY <1>7, <1>9, <1>11, <1>12, <1>13, <1>18, <2>1, <2>3, <2>5, <2>6, <2>7 DEF WordTokenBe
  <2> QED
    BY <1>1, <2>8
<1> QED
  BY <1>14, <1>15, <1>16, <1>17, <1>18

LEMMA WordLineKeeps ==
  ASSUME IInv, NEW n \in Names, NEW w \in Words, NEW num \in Numbered, WordLine(n, w, num)
  PROVE  IInv'
<1>0. /\ Typed /\ Listing /\ phase = "body" /\ Reading /\ nuld' = nuld /\ n \in Nat \ {0}
      /\ ~IsReserved(n)
  BY TokenSpecAssumption DEF IInv, WordLine, Line, Reading
<1>1. seed' \in Int
  <2>1. NextSeed(num, 0) \in Int /\ seed \in Int
    BY <1>0, NumbersAre DEF Typed
  <2> QED
    BY <2>1 DEF WordLine
<1>2. CASE phase' = "refused"
  <2>1. UNCHANGED <<table, past, nuld>>
    BY <1>0, <1>2 DEF WordLine, Refuse
  <2> QED
    BY <1>1, <1>2, <2>1, RefusedKeeps
<1>3. CASE phase' # "refused"
  <2>0. PICK grp : grp = FindByName(n, REGULAR)
    OBVIOUS
  <2>1. PICK k, tok : WordTokenBe(n, w, grp, k, tok)
    BY <1>3, <2>0, WordTokenIs
  <2>2. /\ RSVD = 1..NRsvd /\ NRsvd \in Nat /\ Len(heap) \in Nat /\ NRsvd <= Len(heap)
        /\ REGULAR = (NRsvd + 1)..Len(heap) /\ REGULAR \subseteq 1..Len(heap)
        /\ RSVD \subseteq 1..Len(heap) /\ 0 \notin REGULAR
        /\ \A v \in 1..Len(heap) : heap[v] \in Tok
    BY <1>0, Sizes, Areas
  <2>3. IF grp = 0 THEN \A v \in REGULAR : ~HasName(heap[v], n)
                   ELSE grp \in REGULAR /\ HasName(heap[grp], n)
    <3>1. REGULAR \in SUBSET (1..Len(heap))
      BY <2>2
    <3> QED
      BY <1>0, <2>0, <2>2, <3>1, ByNameFinds
  <2>4. tok \in Tok /\ k \in 1..(Len(heap) + 1) /\ k > NRsvd
    BY <2>1 DEF WordTokenBe
  <2>5. Change(k, tok)
    <3>1. CASE k = Len(heap) + 1
      BY <1>0, <2>1, <2>4, <3>1, Appended DEF WordTokenBe
    <3>2. CASE k # Len(heap) + 1
      <4>1. k \in 1..Len(heap)
        BY <2>2, <2>4, <3>2
      <4> QED
        BY <1>0, <2>1, <2>4, <3>2, <4>1, Updated DEF WordTokenBe
    <3> QED
      BY <3>1, <3>2
  <2>6. /\ Keeps /\ k \in 1..Len(heap') /\ heap'[k] = tok
        /\ (k = Len(heap) + 1 <=> k \notin 1..Len(heap))
        /\ \A v \in 1..Len(heap') : v # k => v \in 1..Len(heap) /\ heap'[v] = heap[v]
        /\ \A v \in 1..Len(heap) : v \in 1..Len(heap')
    <3>1. Keeps /\ Len(heap') = (IF k = Len(heap) + 1 THEN Len(heap) + 1 ELSE Len(heap))
          /\ \A v \in 1..Len(heap') : heap'[v] = IF v = k THEN tok ELSE heap[v]
      BY <2>5 DEF Change
    <3> QED
      BY <2>2, <2>4, <3>1
  <2>7. /\ IF k \notin 1..Len(heap)
             THEN /\ tok.flags = {} /\ FindById(tok.id, RSVD) = 0
                  /\ \A v \in REGULAR : heap[v].id # tok.id
                  /\ past'.moved = (past.moved \/ Coded(tok.id))
             ELSE /\ tok.id = heap[k].id /\ tok.flags = heap[k].flags
                  /\ \A m \in Nat \ {0} : HasName(heap[k], m) => HasName(tok, m)
        /\ \A m \in Nat \ {0} :
             HasName(tok, m) => (k \in 1..Len(heap) /\ HasName(heap[k], m)) \/ (m = n /\ grp \in {0, k})
        /\ view[w] \in {0, k} /\ view' = [view EXCEPT ![w] = k]
        /\ view[w] = 0 \/ grp = 0 => HasName(tok, n)
    BY <2>1, <2>6 DEF WordTokenBe
  <2>8. /\ onech' = onech /\ quotes' = quotes /\ phase' = phase
    BY <1>3 DEF WordLine, Refuse
  <2> DEFINE known == view[w] # 0 /\ grp # 0
             more == (IF grp # 0 THEN grp ELSE FindById(IF grp # 0 THEN heap[grp].id ELSE NextId(num, 0), REGULAR)) = 0
                     /\ Coded(IF grp # 0 THEN heap[grp].id ELSE NextId(num, 0))
  <2>9. past' = [past EXCEPT !.asked = IF known THEN @ ELSE @ \cup {<<w, n>>}, !.moved = @ \/ more]
    BY <1>3, <2>0 DEF WordLine, Refuse, Note
  <2>10. /\ past' \in PastRec /\ past'.clash = past.clash /\ past'.shared = past.shared
         /\ past'.stopped = past.stopped /\ past'.bare = past.bare
         /\ past'.asked = (IF known THEN past.asked ELSE past.asked \cup {<<w, n>>})
         /\ (~past'.moved => ~past.moved)
    <3>1. past \in PastRec /\ <<w, n>> \in Words \X (Nat \ {0})
      BY <1>0 DEF Typed
    <3> HIDE DEF known, more
    <3>2. past.asked \in SUBSET (Words \X (Nat \ {0}))
      BY <3>1 DEF PastRec
    <3>3. PICK asked : asked = (IF known THEN past.asked ELSE past.asked \cup {<<w, n>>})
      OBVIOUS
    <3>4. asked \in SUBSET (Words \X (Nat \ {0}))
      BY <3>1, <3>2, <3>3
    <3>5. past' = [past EXCEPT !.asked = asked, !.moved = @ \/ more]
      BY <2>9, <3>3
    <3>6. PICK mv \in BOOLEAN : mv <=> (past.moved \/ more)
      OBVIOUS
    <3> QED
      BY <3>1, <3>3, <3>4, <3>5 DEF PastRec
  <2>11. view' \in [Words -> 0..Len(heap')] /\ view'[w] = k /\ \A x \in Words : x # w => view'[x] = view[x]
    <3>1. view \in [Words -> 0..Len(heap)] /\ Len(heap) <= Len(heap') /\ Len(heap') \in Nat
      BY <1>0, <2>6 DEF Typed, Keeps
    <3>2. 0..Len(heap) \subseteq 0..Len(heap') /\ k \in 0..Len(heap')
      BY <2>2, <2>6, <3>1
    <3> QED
      BY <2>7, <3>1, <3>2
  <2>12. Typed'
    BY <1>0, <1>1, <2>6, <2>8, <2>10, <2>11, LineTyped DEF Typed
  <2>13. Listing'
    BY <1>0, <2>6, <2>8, LineListing
  <2>14. Owned'
    <3>1. Quiet
      BY <2>6, <2>7, <2>8, <2>10 DEF Quiet
    <3> QED
      BY <1>0, <2>6, <3>1, LineOwned DEF IInv
  <2>15. Keywords'
    <3>1. \A v \in (NRsvd + 1)..Len(heap) : v \in 1..Len(heap)
      BY <2>2
    <3>2. \A v \in (NRsvd + 1)..Len(heap) : \A m \in Nat \ {0} :
            HasName(heap[v], m) => HasName(heap'[v], m)
      BY <2>6, <2>7, <3>1
    <3>3. \A x \in Words : view'[x] = view[x] \/ (view[x] = 0 /\ view'[x] > NRsvd)
      BY <2>4, <2>7, <2>11
    <3>4. ASSUME NEW p \in past'.asked
          PROVE  p \in past.asked \/ (view'[p[1]] # 0 /\ HasName(heap'[view'[p[1]]], p[2]))
      <4>1. CASE known
        BY <2>10, <3>4, <4>1
      <4>2. CASE ~known
        <5>1. HasName(tok, n) /\ k # 0
          BY <2>2, <2>4, <2>7, <4>2
        <5>2. p \in past.asked \/ p = <<w, n>>
          BY <2>10, <3>4, <4>2
        <5> HIDE DEF known, more
        <5> QED
          BY <2>6, <2>11, <5>1, <5>2
      <4> QED
        BY <4>1, <4>2
    <3> QED
      BY <1>0, <2>6, <2>8, <3>2, <3>3, <3>4, LineKeywords
  <2>16. Apart'
    <3>1. PICK x : x = (IF grp # 0 THEN grp ELSE k)
      OBVIOUS
    <3>2. \A v \in 1..Len(heap') : \A m \in Names :
            HasName(heap'[v], m) => (v \in 1..Len(heap) /\ HasName(heap[v], m)) \/ (m = n /\ v = x)
      BY <2>6, <2>7, <3>1, TokenSpecAssumption
    <3>3. ASSUME ~past'.clash PROVE \A r \in RSVD : heap'[r].aliases = {}
      <4>1. \A r \in RSVD : heap[r].aliases = {}
        BY <1>0, <2>10, <3>3 DEF IInv, Apart
      <4>2. \A r \in RSVD : r # k
        BY <2>2, <2>4
      <4> QED
        BY <2>2, <2>6, <4>1, <4>2
    <3>4. ASSUME ~past'.clash, NEW v \in 1..Len(heap), HasName(heap[v], n) PROVE v = x
      <4>1. CASE grp # 0
        <5>1. grp \in 1..Len(heap) /\ HasName(heap[grp], n) /\ x = grp
          BY <2>2, <2>3, <3>1, <4>1
        <5> QED
          BY <1>0, <2>10, <3>4, <5>1 DEF IInv, Apart, Bears, HasName
      <4>2. CASE grp = 0
        <5>1. v \in RSVD
          BY <2>2, <2>3, <3>4, <4>2
        <5>2. heap[v].aliases = {}
          BY <1>0, <2>10, <3>4, <5>1 DEF IInv, Apart
        <5> QED
          BY <1>0, <3>4, <5>1, <5>2 DEF HasName, IsReserved
      <4> QED
        BY <4>1, <4>2
    <3>5. NamesOne(n, x)
      BY <2>10, <3>2, <3>3, <3>4 DEF NamesOne
    <3> QED
      BY <1>0, <2>6, <3>5, LineApart
  <2>17. Numbering'
    <3>1. k <= NRsvd => "CHRMAP" \notin heap'[k].flags
      BY <2>2, <2>4
    <3>2. ASSUME ~past'.moved PROVE Numbered1(k)'
      <4>1. CASE k \in 1..Len(heap)
        <5>1. Numbered1(k)
          BY <1>0, <2>10, <3>2, <4>1 DEF IInv, Numbering, Unsorted
        <5> QED
          BY <2>6, <2>7, <2>8, <4>1, <5>1 DEF Numbered1, Coded
      <4>2. CASE k \notin 1..Len(heap)
        <5>1. ~Coded(tok.id)
          BY <2>7, <3>2, <4>2
        <5> QED
          BY <2>6, <2>7, <4>2, <5>1 DEF Numbered1, Coded
      <4> QED
        BY <4>1, <4>2
    <3>3. ASSUME ~past'.moved, NEW v \in 1..Len(heap), v # k, heap[v].id = heap'[k].id
          PROVE  v <= NRsvd /\ k <= NRsvd
      <4>1. CASE k \in 1..Len(heap)
        BY <1>0, <2>6, <2>7, <2>10, <3>3, <4>1 DEF IInv, Numbering, Unsorted
      <4>2. CASE k \notin 1..Len(heap)
        <5>1. RSVD \in SUBSET (1..Len(heap)) /\ FindById(tok.id, RSVD) = 0 /\ 0 \notin RSVD
          BY <2>2, <2>7, <4>2
        <5>2. \A r \in RSVD : heap[r].id # tok.id
          BY <1>0, <5>1, ByIdFinds
        <5>3. v \in RSVD \/ v \in REGULAR
          BY <2>2, <3>3
        <5> QED
          BY <2>6, <2>7, <3>3, <4>2, <5>2, <5>3
      <4> QED
        BY <4>1, <4>2
    <3>4. k \in (NRsvd + 1)..Len(heap) =>
            heap'[k].id = heap[k].id /\ ("CHRMAP" \in heap'[k].flags <=> "CHRMAP" \in heap[k].flags)
      <4>1. k \in (NRsvd + 1)..Len(heap) => k \in 1..Len(heap)
        BY <2>2
      <4> QED
        BY <2>6, <2>7, <4>1
    <3>5. \A v \in 1..Len(heap') : v # k =>
            /\ v \in 1..Len(heap) /\ heap'[v].id = heap[v].id
            /\ ("CHRMAP" \in heap'[v].flags <=> "CHRMAP" \in heap[v].flags)
      BY <2>6
    <3> QED
      BY <1>0, <2>6, <2>8, <2>10, <3>1, <3>2, <3>3, <3>4, <3>5, LineNumbering
  <2>18. Uld' /\ NumbersLead' /\ Counted'
    BY <1>0, <2>8, LaterKept
  <2> QED
    BY <2>12, <2>13, <2>14, <2>15, <2>16, <2>17, <2>18 DEF IInv
<1> QED
  BY <1>2, <1>3
-----------------------------------------------------------------------------
(* -------- Arrays put in order, cut and joined -------- *)

(* The entries of r are those of S, each once.                             *)
Lists(r, S) ==
  /\ r \in Seq(S)
  /\ \A i, j \in 1..Len(r) : r[i] = r[j] => i = j
  /\ \A x \in S : \E i \in 1..Len(r) : r[i] = x

LEMMA FunctionIsSeq ==
  ASSUME NEW S, NEW n \in Nat, NEW s \in [1..n -> S]
  PROVE  s \in Seq(S) /\ Len(s) = n
<1>1. s \in Seq(S)
  BY SeqDef
<1> QED
  BY <1>1, LenProperties

Entries(s, at) == {s[i] : i \in at}
InOrder(r, s, at, key) ==
  \A i, j \in 1..Len(r) : i <= j =>
    \E a, b \in at : r[i] = s[a] /\ r[j] = s[b] /\ key[a] <= key[b]

LEMMA ArrangedLists ==
  ASSUME NEW S, NEW s \in Seq(S), NEW at \in SUBSET (1..Len(s)),
         \A i, j \in 1..Len(s) : s[i] = s[j] => i = j,
         NEW key, \A i \in at : key[i] \in Int
  PROVE  /\ Lists(Arranged(s, at, key), Entries(s, at))
         /\ Cardinality(at) \in Nat /\ Len(Arranged(s, at, key)) = Cardinality(at)
         /\ InOrder(Arranged(s, at, key), s, at, key)
<1> DEFINE n == Cardinality(at)
           r == Arranged(s, at, key)
           T == Entries(s, at)
           l == Len(s)
<1>1. l \in Nat /\ IsFiniteSet(1..l)
  BY FS_Interval
<1>2. IsFiniteSet(at) /\ at \subseteq Nat
  <2>1. at \in SUBSET (1..l)
    OBVIOUS
  <2> HIDE DEF l
  <2>2. at \subseteq Nat
    BY <1>1, <2>1
  <2> QED
    BY <1>1, <2>1, <2>2, FS_Subset
<1>3. n \in Nat /\ \E p : Permutes(p, at, s, key)
  BY <1>2, ArrangedPermutes
<1>4. PICK p : Permutes(p, at, s, key)
  BY <1>3
<1> HIDE DEF l
<1>5. /\ p \in [1..n -> at] /\ (\A i, j \in 1..n : p[i] = p[j] => i = j)
      /\ (\A i \in at : \E k \in 1..n : p[k] = i)
      /\ (\A i, j \in 1..n : i <= j => key[p[i]] <= key[p[j]])
      /\ r = [k \in 1..n |-> s[p[k]]]
  BY <1>4 DEF Permutes
<1> HIDE DEF r, n, T
<1>6. r \in [1..n -> T]
  BY <1>5 DEF T, Entries
<1>7. r \in Seq(T) /\ Len(r) = n
  BY <1>3, <1>6, FunctionIsSeq
<1>8. \A i \in 1..n : r[i] = s[p[i]] /\ p[i] \in at /\ p[i] \in 1..l
  BY <1>5 DEF l
<1>9. \A i, j \in 1..n : r[i] = r[j] => i = j
  BY <1>5, <1>8 DEF l
<1>10. \A x \in T : \E i \in 1..n : r[i] = x
  BY <1>5, <1>8 DEF T, Entries
<1>11. Lists(r, T)
  BY <1>7, <1>9, <1>10 DEF Lists
<1>12. InOrder(r, s, at, key)
  <2>1. ASSUME NEW i \in 1..n, NEW j \in 1..n, i <= j
        PROVE  \E a, b \in at : r[i] = s[a] /\ r[j] = s[b] /\ key[a] <= key[b]
    <3>1. r[i] = s[p[i]] /\ r[j] = s[p[j]] /\ p[i] \in at /\ p[j] \in at
      BY <1>8
    <3>2. key[p[i]] <= key[p[j]]
      BY <1>5, <2>1
    <3> QED
      BY <3>1, <3>2
  <2> QED
    BY <1>7, <2>1 DEF InOrder
<1> QED
  BY <1>3, <1>7, <1>11, <1>12 DEF r, n, T

LEMMA JoinLists ==
  ASSUME NEW S, NEW T, NEW a, NEW b, Lists(a, S), Lists(b, T), S \cap T = {}
  PROVE  /\ Lists(a \o b, S \cup T) /\ Len(a \o b) = Len(a) + Len(b)
         /\ \A i \in 1..Len(a) : (a \o b)[i] = a[i]
<1> DEFINE U == S \cup T
           r == a \o b
           l == Len(a)
           m == Len(b)
<1>1. a \in Seq(S) /\ b \in Seq(T)
  BY DEF Lists
<1>2. a \in Seq(U) /\ b \in Seq(U) /\ l \in Nat /\ m \in Nat
  <2>1. S \subseteq U /\ T \subseteq U
    OBVIOUS
  <2> HIDE DEF U
  <2>2. a \in Seq(U) /\ b \in Seq(U)
    BY <1>1, <2>1, SeqMonotonic
  <2> QED
    BY <2>2
<1>3. /\ r \in Seq(U) /\ Len(r) = l + m
      /\ \A i \in 1..(l + m) : r[i] = IF i <= l THEN a[i] ELSE b[i - l]
  BY <1>2, ConcatProperties
<1>4. /\ \A i \in 1..l : a[i] \in S
      /\ \A i \in 1..m : b[i] \in T
  BY <1>1
<1>5. /\ \A i, j \in 1..l : a[i] = a[j] => i = j
      /\ \A i, j \in 1..m : b[i] = b[j] => i = j
      /\ \A x \in S : \E i \in 1..l : a[i] = x
      /\ \A x \in T : \E i \in 1..m : b[i] = x
  BY DEF Lists
<1> HIDE DEF r, l, m, U
<1>6. \A i \in 1..(l + m) : (i <= l /\ i \in 1..l) \/ (~(i <= l) /\ i - l \in 1..m)
  BY <1>2
<1>7. \A i \in 1..l : i \in 1..(l + m) /\ i <= l
  BY <1>2
<1>8. \A i \in 1..m : l + i \in 1..(l + m) /\ ~(l + i <= l) /\ (l + i) - l = i
  BY <1>2
<1>9. ASSUME NEW i \in 1..(l + m), NEW j \in 1..(l + m), r[i] = r[j] PROVE i = j
  <2>1. CASE i <= l /\ j <= l
    BY <1>3, <1>5, <1>6, <1>9, <2>1
  <2>2. CASE ~(i <= l) /\ ~(j <= l)
    <3>1. i - l = j - l
      BY <1>3, <1>5, <1>6, <1>9, <2>2
    <3> QED
      BY <1>2, <3>1
  <2>3. CASE (i <= l) # (j <= l)
    <3>1. (r[i] \in S /\ r[j] \in T) \/ (r[i] \in T /\ r[j] \in S)
      BY <1>3, <1>4, <1>6, <2>3
    <3> QED
      BY <1>9, <3>1
  <2> QED
    BY <2>1, <2>2, <2>3
<1>10. ASSUME NEW x \in U PROVE \E i \in 1..(l + m) : r[i] = x
  <2>1. CASE x \in S
    BY <1>3, <1>5, <1>7, <2>1
  <2>2. CASE x \in T
    <3>1. PICK i \in 1..m : b[i] = x
      BY <1>5, <2>2
    <3> QED
      BY <1>3, <1>8, <3>1
  <2> QED
    BY <1>10, <2>1, <2>2 DEF U
<1>11. Lists(r, U)
  BY <1>3, <1>9, <1>10 DEF Lists
<1>12. \A i \in 1..l : r[i] = a[i]
  BY <1>3, <1>7
<1> QED
  BY <1>3, <1>11, <1>12 DEF r, U, l, m

(* The array as one.                                                       *)
LEMMA ArrayLists ==
  ASSUME Typed, Listing
  PROVE  /\ Len(arr) \in Nat /\ arr \in Seq(1..Len(heap)) /\ DOMAIN arr = 1..Len(arr)
         /\ \A i, j \in 1..Len(arr) : arr[i] = arr[j] => i = j
         /\ \A i \in 1..Len(arr) : arr[i] \in 1..Len(heap) /\ heap[arr[i]] \in Tok
<1>1. arr \in Seq(1..Len(heap)) /\ heap \in Seq(Tok)
  BY DEF Typed
<1>2. DOMAIN arr = 1..Len(arr) /\ Len(arr) \in Nat
  BY <1>1
<1>3. \A i, j \in 1..Len(arr) : arr[i] = arr[j] => i = j
  BY <1>2 DEF Listing, IsInjective
<1> QED
  BY <1>1, <1>2, <1>3, Sizes

LEMMA ListIsArray ==
  ASSUME NEW l \in Nat, NEW S \in SUBSET (1..l), NEW r, Lists(r, S)
  PROVE  r \in Seq(1..l) /\ IsInjective(r) /\ DOMAIN r = 1..Len(r) /\ Len(r) \in Nat
<1>1. r \in Seq(S)
  BY DEF Lists
<1>2. r \in Seq(1..l)
  BY <1>1, SeqMonotonic
<1>3. DOMAIN r = 1..Len(r) /\ Len(r) \in Nat
  BY <1>1
<1> QED
  BY <1>2, <1>3 DEF Lists, IsInjective
-----------------------------------------------------------------------------
(* -------- The .uld: opened, its lines, closed -------- *)

LEMMA OpenUldKeeps ==
  ASSUME IInv, OpenUld
  PROVE  IInv'
<1>0. /\ Typed /\ Listing /\ Reading /\ phase = "body" /\ phase' = "uld"
      /\ heap' = heap /\ onech' = onech /\ view' = view /\ quotes' = quotes /\ seed' = seed
      /\ past' = past
  BY DEF IInv, OpenUld, Reading
<1> DEFINE named == {i \in DOMAIN arr : Named(arr[i])}
           rest == DOMAIN arr \ named
           plain == [i \in DOMAIN arr |-> i]
           front == AsTheyStand(arr, named)
           key == [i \in DOMAIN front |-> heap[front[i]].name]
           sorted == ByName(front)
           back == AsTheyStand(arr, rest)
           F == Entries(arr, named)
           B == Entries(arr, rest)
           l == Len(arr)
           h == Len(heap)
<1>1. arr' = sorted \o back /\ nuld' = Cardinality(named)
  BY DEF OpenUld
<1>2. /\ l \in Nat /\ h \in Nat /\ arr \in Seq(1..h) /\ DOMAIN arr = 1..l /\ l = h
      /\ \A i, j \in 1..l : arr[i] = arr[j] => i = j
      /\ \A i \in 1..l : arr[i] = i /\ arr[i] \in 1..h /\ heap[arr[i]] \in Tok
  BY <1>0, ArrayLists, Sizes DEF Listing
<1>3. named \in SUBSET (1..l) /\ rest \in SUBSET (1..l) /\ named \cup rest = 1..l /\ named \cap rest = {}
  BY <1>2
<1> HIDE DEF named, rest, h
<1>4. \A i \in 1..l : plain[i] \in Int
  BY <1>2
<1>5. front = Arranged(arr, named, plain) /\ back = Arranged(arr, rest, plain)
  BY DEF AsTheyStand
<1> HIDE DEF plain, front, back
<1>6. /\ Lists(front, F) /\ Len(front) = Cardinality(named) /\ Cardinality(named) \in Nat
      /\ Lists(back, B)
  <2>1. (\A i \in named : plain[i] \in Int) /\ (\A i \in rest : plain[i] \in Int)
    BY <1>3, <1>4
  <2> QED
    BY <1>2, <1>3, <1>5, <2>1, ArrangedLists
<1>7. front \in Seq(F) /\ DOMAIN front = 1..Len(front) /\ \A i \in 1..Len(front) : front[i] \in F
  BY <1>6 DEF Lists
<1>8. \A x \in F : heap[x].name \in Int
  BY <1>2, <1>3 DEF Tok, Entries
<1>9. sorted = Arranged(front, 1..Len(front), key)
  BY <1>7 DEF ByName
<1>10. \A i \in 1..Len(front) : key[i] \in Int /\ key[i] = heap[front[i]].name
  BY <1>7, <1>8
<1> HIDE DEF key, sorted, F, B
<1> DEFINE n == Len(front)
<1>11. n \in Nat /\ Cardinality(1..n) = n /\ (1..n) \in SUBSET (1..n)
  <2>1. n \in Nat
    BY <1>6
  <2> HIDE DEF n
  <2>2. Cardinality(1..n) = IF 1 > n THEN 0 ELSE n - 1 + 1
    BY <2>1, FS_Interval
  <2> QED
    BY <2>1, <2>2
<1>12. /\ Lists(sorted, Entries(front, 1..n)) /\ Len(sorted) = n
       /\ InOrder(sorted, front, 1..n, key)
  <2>1. \A i, j \in 1..Len(front) : front[i] = front[j] => i = j
    BY <1>6 DEF Lists
  <2>2. /\ Lists(Arranged(front, 1..Len(front), key), Entries(front, 1..Len(front)))
        /\ Len(Arranged(front, 1..Len(front), key)) = Cardinality(1..Len(front))
        /\ InOrder(Arranged(front, 1..Len(front), key), front, 1..Len(front), key)
    BY <1>7, <1>10, <1>11, <2>1, ArrangedLists
  <2> QED
    BY <1>9, <1>11, <2>2
<1>13. Entries(front, 1..n) = F
  BY <1>6, <1>7 DEF Lists, Entries
<1>14. F \cap B = {} /\ F \cup B = 1..h
  <2>1. F \cap B = {}
    BY <1>2, <1>3 DEF F, B, Entries
  <2>2. \A x \in 1..h : x \in F \cup B
    BY <1>2, <1>3 DEF F, B, Entries
  <2>3. \A x \in F \cup B : x \in 1..h
    BY <1>2, <1>3 DEF F, B, Entries
  <2> QED
    BY <2>1, <2>2, <2>3
<1>15. Lists(sorted, F)
  BY <1>12, <1>13
<1> HIDE DEF n
<1>16. /\ Lists(arr', F \cup B) /\ Len(arr') = Len(sorted) + Len(back)
       /\ \A i \in 1..Len(sorted) : arr'[i] = sorted[i]
  BY <1>1, <1>6, <1>14, <1>15, JoinLists
<1>17. Lists(arr', 1..h)
  BY <1>14, <1>16
<1>18. arr' \in Seq(1..h) /\ IsInjective(arr') /\ Len(arr') \in Nat
  BY <1>2, <1>17, ListIsArray
<1>19. Typed'
  <2>1. nuld' \in Nat
    BY <1>1, <1>6
  <2> QED
    BY <1>0, <1>18, <2>1 DEF Typed, h
<1>20. Listing'
  BY <1>0, <1>17, <1>18 DEF Listing, Lists, Reading, h
<1>21. Owned'
  BY <1>0, <1>17 DEF IInv, Owned, Referred, Lists, h
<1>22. Keywords' /\ Apart' /\ NumbersLead' /\ Counted'
  BY <1>0 DEF Keywords, Apart, NumbersLead, Counted, Reading
<1>23. Numbering'
  BY <1>0 DEF IInv, Numbering, Unsorted, Numbered1, Coded
<1>24. Uld'
  <2>1. nuld' = n /\ Len(back) \in Nat /\ n \in Nat /\ Len(sorted) = n
    BY <1>1, <1>6, <1>11, <1>12 DEF Lists, n
  <2>2. nuld' <= Len(arr')
    BY <1>16, <2>1
  <2>3. ASSUME NEW i \in 1..nuld', NEW j \in 1..nuld', i <= j
        PROVE  heap'[arr'[i]].name <= heap'[arr'[j]].name
    <3>1. arr'[i] = sorted[i] /\ arr'[j] = sorted[j] /\ i \in 1..Len(sorted) /\ j \in 1..Len(sorted)
      BY <1>16, <2>1
    <3>2. PICK a, b \in 1..n : sorted[i] = front[a] /\ sorted[j] = front[b] /\ key[a] <= key[b]
      BY <1>12, <2>3, <3>1 DEF InOrder
    <3> QED
      BY <1>0, <1>10, <3>1, <3>2 DEF n
  <2> QED
    BY <2>2, <2>3 DEF Uld
<1> QED
  BY <1>19, <1>20, <1>21, <1>22, <1>23, <1>24 DEF IInv

(* A line of the .uld finds a token of that name.                          *)
LEMMA UldFinds ==
  ASSUME Typed, Listing, Uld, phase = "uld", NEW n \in Int
  PROVE  \/ \E m \in 1..nuld : UldFind(n) = arr[m] /\ heap[arr[m]].name = n /\ m \in 1..Len(arr)
         \/ UldFind(n) = 0 /\ (~past.renamed => \A m \in 1..nuld : heap[arr[m]].name # n)
<1> DEFINE cmp == [k \in 1..nuld |-> heap[arr[k]].name - n]
<1>1. nuld \in Nat /\ nuld <= Len(arr) /\ Len(arr) \in Nat
  BY Sizes DEF Typed, Uld
<1>2. \A m \in 1..nuld : m \in 1..Len(arr)
  BY <1>1
<1>3. \A m \in 1..nuld : heap[arr[m]].name \in Int
  BY <1>2, ArrayLists DEF Tok
<1>4. \A m \in 1..nuld : cmp[m] = heap[arr[m]].name - n /\ cmp[m] \in Int
  BY <1>3
<1>5. cmp \in [1..nuld -> Int]
  <2>1. cmp = [m \in 1..nuld |-> cmp[m]]
    OBVIOUS
  <2> HIDE DEF cmp
  <2> QED
    BY <1>4, <2>1
<1>6. UldFind(n) = Search(arr, cmp)
  BY DEF UldFind
<1> HIDE DEF cmp
<1>7. cmp \in Seq(Int) /\ Len(cmp) = nuld
  BY <1>1, <1>5, FunctionIsSeq
<1>8. CASE \E m \in 1..nuld : cmp[m] = 0 /\ UldFind(n) = arr[m]
  <2>1. PICK m \in 1..nuld : cmp[m] = 0 /\ UldFind(n) = arr[m]
    BY <1>8
  <2>2. heap[arr[m]].name = n
    BY <1>3, <1>4, <2>1
  <2> QED
    BY <1>2, <2>1, <2>2
<1>9. CASE /\ UldFind(n) = 0
           /\ (\A i, j \in 1..nuld : i <= j => cmp[i] <= cmp[j]) => \A m \in 1..nuld : cmp[m] # 0
  <2>1. ASSUME ~past.renamed PROVE \A m \in 1..nuld : heap[arr[m]].name # n
    <3>1. \A i, j \in 1..nuld : i <= j => heap[arr[i]].name <= heap[arr[j]].name
      BY <2>1 DEF Uld
    <3>2. \A i, j \in 1..nuld : i <= j => cmp[i] <= cmp[j]
      BY <1>3, <1>4, <3>1
    <3>3. \A m \in 1..nuld : cmp[m] # 0
      BY <1>9, <3>2
    <3> QED
      BY <1>3, <1>4, <3>3
  <2> QED
    BY <1>9, <2>1
<1> QED
  BY <1>6, <1>7, <1>8, <1>9, SearchFinds

(* What a line of the .uld makes of the token it finds.                    *)
UldToken(tok, n2, id, alias) ==
  [tok EXCEPT !.name = IF n2 = 0 THEN @ ELSE n2, !.id = id, !.aliases = @ \cup ({alias} \ {0})]

LEMMA UldTokenIs ==
  ASSUME NEW tok \in Tok, NEW n2 \in Nat, NEW id \in Int, NEW alias \in Nat
  PROVE  LET r == UldToken(tok, n2, id, alias)
         IN /\ r \in Tok /\ r.id = id /\ r.flags = tok.flags
            /\ r.name = (IF n2 = 0 THEN tok.name ELSE n2)
<1> DEFINE name == IF n2 = 0 THEN tok.name ELSE n2
           more == tok.aliases \cup ({alias} \ {0})
           r == [tok EXCEPT !.name = name, !.id = id, !.aliases = more]
<1>1. name \in Nat /\ more \in SUBSET (Nat \ {0})
  BY DEF Tok
<1> HIDE DEF name, more
<1>2. r \in Tok /\ r.id = id /\ r.flags = tok.flags /\ r.name = name
  BY <1>1 DEF Tok
<1> QED
  BY <1>2 DEF UldToken, name, more

LEMMA UldLineKeeps ==
  ASSUME IInv, NEW n \in Names \cup Range(Rsvd), NEW n2 \in Names \cup {0}, NEW num \in Numbered,
         NEW alias \in Names \cup {0}, UldLine(n, n2, num, alias)
  PROVE  IInv'
<1>0. /\ Typed /\ Listing /\ Uld /\ phase = "uld" /\ seed' = seed /\ nuld' = nuld
      /\ n2 \in Nat /\ alias \in Nat /\ seed \in Int
  BY TokenSpecAssumption DEF IInv, UldLine, Typed
<1>1. n \in Int
  <2>1. Range(Rsvd) \subseteq Nat
    BY TokenSpecAssumption DEF Range
  <2> QED
    BY <2>1, TokenSpecAssumption
<1>2. PICK t : t = UldFind(n)
  OBVIOUS
<1>3. PICK id : id = (IF num = AUTO THEN heap[t].id ELSE num)
  OBVIOUS
<1>4. CASE Refuse
  BY <1>0, <1>4, RefusedKeeps DEF Refuse
<1> DEFINE renaming == n2 \notin {0, heap[t].name}
           moving == id # heap[t].id /\ (\/ "CHRMAP" \in heap[t].flags \/ Coded(id)
                                        \/ heap[t].id \in Range(quotes))
           again == alias \in heap[t].aliases
<1>5. CASE /\ t # 0
           /\ heap' = [heap EXCEPT ![t].name = IF n2 = 0 THEN @ ELSE n2, ![t].id = id,
                                   ![t].aliases = @ \cup ({alias} \ {0})]
           /\ phase' = IF again THEN "refused" ELSE phase
           /\ past' = [past EXCEPT !.renamed = @ \/ renaming, !.moved = @ \/ moving]
           /\ UNCHANGED <<arr, onech, view, quotes>>
  <2>1. t \in 1..Len(heap) /\ heap[t] \in Tok
    BY <1>0, <1>1, <1>2, <1>5, UldFinds, ArrayLists
  <2>2. id \in Int
    BY <1>3, <2>1, TokenSpecAssumption DEF Tok, Numbered
  <2>3. PICK tok : tok = UldToken(heap[t], n2, id, alias)
    OBVIOUS
  <2>4. /\ tok \in Tok /\ tok.id = id /\ tok.flags = heap[t].flags
        /\ tok.name = (IF n2 = 0 THEN heap[t].name ELSE n2)
    <3>1. n2 \in Nat /\ alias \in Nat /\ id \in Int /\ heap[t] \in Tok
      BY <1>0, <2>1, <2>2
    <3>2. /\ UldToken(heap[t], n2, id, alias) \in Tok /\ UldToken(heap[t], n2, id, alias).id = id
          /\ UldToken(heap[t], n2, id, alias).flags = heap[t].flags
          /\ UldToken(heap[t], n2, id, alias).name = (IF n2 = 0 THEN heap[t].name ELSE n2)
      BY <3>1, UldTokenIs
    <3> QED
      BY <2>3, <3>2
  <2>5. heap' = [heap EXCEPT ![t] = tok]
    BY <1>5, <2>3 DEF UldToken
  <2>6. /\ heap' \in Seq(Tok) /\ Len(heap') = Len(heap) /\ Len(heap) \in Nat
        /\ \A u \in 1..Len(heap) : heap'[u] = IF u = t THEN tok ELSE heap[u]
    BY <1>0, <2>1, <2>4, <2>5, ExceptSeq, Sizes DEF Typed
  <2>7. /\ past' \in PastRec /\ past'.asked = past.asked /\ past'.shared = past.shared
        /\ past'.stopped = past.stopped /\ past'.bare = past.bare
        /\ (~past'.moved => ~past.moved /\ ~moving)
        /\ (~past'.renamed => ~past.renamed /\ ~renaming)
    <3> HIDE DEF moving, renaming
    <3> QED
      BY <1>0, <1>5 DEF Typed, PastRec
  <2>8. phase' \in {"uld", "refused"}
    BY <1>0, <1>5
  <2>9. \A u \in 1..Len(heap) : heap'[u].flags = heap[u].flags
    BY <2>4, <2>6
  <2>10. Typed'
    BY <1>0, <1>5, <2>6, <2>7, <2>8 DEF Typed
  <2>11. Listing'
    BY <1>0, <1>5, <2>6, <2>8 DEF Listing, Reading
  <2>12. Owned'
    BY <1>0, <1>5, <2>6, <2>7, <2>8, <2>9 DEF IInv, Owned, Referred
  <2>13. Keywords' /\ Apart' /\ NumbersLead' /\ Counted'
    BY <2>8 DEF Keywords, Apart, NumbersLead, Counted, Reading
  <2>14. Numbering'
    <3>1. \A r \in 1..NRsvd : "CHRMAP" \notin heap'[r].flags
      <4>1. \A r \in 1..NRsvd : r \in 1..Len(heap)
        BY <1>0, Sizes
      <4> QED
        BY <1>0, <2>9, <4>1 DEF IInv, Numbering, Unsorted
    <3>2. ASSUME ~past'.moved, NEW u \in 1..Len(heap) PROVE Numbered1(u)'
      <4>1. Numbered1(u)
        BY <1>0, <2>7, <3>2 DEF IInv, Numbering, Unsorted
      <4>2. CASE u # t \/ id = heap[t].id
        <5>1. heap'[u].id = heap[u].id /\ heap'[u].flags = heap[u].flags
          BY <2>4, <2>6, <4>2
        <5> QED
          BY <1>5, <4>1, <5>1 DEF Numbered1, Coded
      <4>3. CASE u = t /\ id # heap[t].id
        <5>1. "CHRMAP" \notin heap[t].flags /\ ~Coded(id)
          BY <2>7, <3>2, <4>3
        <5> QED
          BY <2>4, <2>6, <4>3, <5>1 DEF Numbered1, Coded
      <4> QED
        BY <4>2, <4>3
    <3>3. ASSUME ~past'.moved, ~past'.bare, NEW w \in DOMAIN quotes
          PROVE  \E u \in (NRsvd + 1)..Len(heap) : "CHRMAP" \notin heap'[u].flags /\ heap'[u].id = quotes[w]
      <4>1. PICK u \in (NRsvd + 1)..Len(heap) : "CHRMAP" \notin heap[u].flags /\ heap[u].id = quotes[w]
        BY <1>0, <2>7, <3>3 DEF IInv, Numbering, Unsorted
      <4>2. u \in 1..Len(heap)
        BY <1>0, Sizes
      <4>3. heap'[u].id = heap[u].id
        <5>1. quotes[w] \in Range(quotes)
          BY DEF Range
        <5>2. u = t => id = heap[t].id
          BY <2>7, <3>3, <4>1, <5>1
        <5> QED
          BY <2>4, <2>6, <4>2, <5>2
      <4> QED
        BY <2>9, <4>1, <4>2, <4>3
    <3>4. CASE phase' = "refused"
      BY <3>4 DEF Numbering, Unsorted
    <3>5. CASE phase' = "uld"
      <4>1. quotes' = quotes /\ Len(heap') = Len(heap)
        BY <1>5, <2>6
      <4> QED
        BY <3>1, <3>2, <3>3, <3>5, <4>1 DEF Numbering
    <3> QED
      BY <2>8, <3>4, <3>5
  <2>15. Uld'
    <3>1. ASSUME ~past'.renamed, NEW i \in 1..nuld, NEW j \in 1..nuld, i <= j
          PROVE  heap'[arr[i]].name <= heap'[arr[j]].name
      <4>1. \A u \in 1..Len(heap) : heap'[u].name = heap[u].name
        BY <2>4, <2>6, <2>7, <3>1
      <4>2. i \in 1..Len(arr) /\ j \in 1..Len(arr)
        BY <1>0, Sizes DEF Uld, Typed
      <4>3. arr[i] \in 1..Len(heap) /\ arr[j] \in 1..Len(heap)
        BY <1>0, <4>2, Sizes
      <4> QED
        BY <1>0, <2>7, <3>1, <4>1, <4>3 DEF Uld
    <3> QED
      BY <1>0, <1>5, <3>1 DEF Uld
  <2> QED
    BY <2>10, <2>11, <2>12, <2>13, <2>14, <2>15 DEF IInv
<1> QED
  BY <1>2, <1>3, <1>4, <1>5 DEF UldLine, Note

(* The array in the order of the numbers.                                  *)
SortedById(r) == \A i, j \in 1..Len(r) : i <= j => heap[r[i]].id <= heap[r[j]].id

LEMMA ByIdIs ==
  ASSUME Typed, NEW S \in SUBSET (1..Len(heap)), NEW s, Lists(s, S)
  PROVE  Lists(ById(s), S) /\ SortedById(ById(s))
<1> DEFINE n == Len(s)
           key == [i \in DOMAIN s |-> heap[s[i]].id]
           r == ById(s)
<1>1. s \in Seq(S) /\ \A i, j \in 1..Len(s) : s[i] = s[j] => i = j
  BY DEF Lists
<1>2. DOMAIN s = 1..n /\ n \in Nat /\ \A i \in 1..n : s[i] \in S
  BY <1>1
<1>3. \A i \in 1..n : key[i] = heap[s[i]].id /\ key[i] \in Int
  BY <1>2, Sizes DEF Tok
<1>4. r = Arranged(s, 1..n, key)
  BY <1>2 DEF ById
<1> HIDE DEF key, r
<1>5. /\ Lists(Arranged(s, 1..Len(s), key), Entries(s, 1..Len(s)))
      /\ InOrder(Arranged(s, 1..Len(s), key), s, 1..Len(s), key)
  <2>1. (1..Len(s)) \in SUBSET (1..Len(s))
    OBVIOUS
  <2> QED
    BY <1>1, <1>3, <2>1, ArrangedLists
<1>6. Entries(s, 1..n) = S
  <2>1. \A x \in S : \E i \in 1..n : s[i] = x
    BY DEF Lists
  <2>2. \A x \in Entries(s, 1..n) : x \in S
    BY <1>2 DEF Entries
  <2>3. \A x \in S : x \in Entries(s, 1..n)
    BY <2>1 DEF Entries
  <2> QED
    BY <2>2, <2>3
<1>7. Lists(r, S)
  BY <1>4, <1>5, <1>6
<1>8. SortedById(r)
  <2>1. ASSUME NEW i \in 1..Len(r), NEW j \in 1..Len(r), i <= j PROVE heap[r[i]].id <= heap[r[j]].id
    <3>1. PICK a, b \in 1..n : r[i] = s[a] /\ r[j] = s[b] /\ key[a] <= key[b]
      BY <1>4, <1>5, <2>1 DEF InOrder
    <3> QED
      BY <1>3, <3>1
  <2> QED
    BY <2>1 DEF SortedById
<1> QED
  BY <1>7, <1>8 DEF r

LEMMA CloseUldKeeps ==
  ASSUME IInv, CloseUld
  PROVE  IInv'
<1>0. /\ Typed /\ Listing /\ phase = "uld" /\ phase' \in {"read", "refused"} /\ arr' = ById(arr)
      /\ heap' = heap /\ onech' = onech /\ view' = view /\ quotes' = quotes /\ seed' = seed
      /\ past' = past /\ nuld' = nuld
  BY DEF IInv, CloseUld
<1>1. Len(heap) \in Nat /\ Len(arr) \in Nat
  BY <1>0, Sizes
<1>2. Lists(arr, 1..Len(heap))
  <2>1. \A t \in 1..Len(heap) : \E i \in 1..Len(arr) : arr[i] = t
    BY <1>0 DEF Listing
  <2> QED
    BY <1>0, <2>1, ArrayLists DEF Lists
<1>3. Lists(arr', 1..Len(heap)) /\ SortedById(arr')
  <2>1. (1..Len(heap)) \in SUBSET (1..Len(heap))
    OBVIOUS
  <2>2. Lists(ById(arr), 1..Len(heap)) /\ SortedById(ById(arr))
    BY <1>0, <1>2, <2>1, ByIdIs
  <2> QED
    BY <1>0, <2>2
<1>4. arr' \in Seq(1..Len(heap)) /\ IsInjective(arr') /\ Len(arr') \in Nat /\ DOMAIN arr' = 1..Len(arr')
  <2>1. (1..Len(heap)) \in SUBSET (1..Len(heap))
    OBVIOUS
  <2> QED
    BY <1>1, <1>3, <2>1, ListIsArray
<1>5. Typed'
  BY <1>0, <1>4 DEF Typed
<1>6. Listing'
  BY <1>0, <1>3, <1>4 DEF Listing, Lists, Reading
<1>7. Owned'
  BY <1>0, <1>3 DEF IInv, Owned, Referred, Lists
<1>8. Keywords' /\ Apart' /\ Uld' /\ NumbersLead' /\ Counted'
  BY <1>0 DEF Keywords, Apart, Uld, NumbersLead, Counted, Reading
<1>9. Len(arr') = Len(arr)
  <2>1. Cardinality(DOMAIN arr) = Len(arr) /\ DOMAIN arr = 1..Len(arr)
    <3> DEFINE l == Len(arr)
    <3>1. l \in Nat /\ DOMAIN arr = 1..l
      BY <1>0, ArrayLists
    <3> HIDE DEF l
    <3>2. Cardinality(1..l) = IF 1 > l THEN 0 ELSE l - 1 + 1
      BY <3>1, FS_Interval
    <3> QED
      BY <3>1, <3>2 DEF l
  <2> DEFINE key == [i \in DOMAIN arr |-> heap[arr[i]].id]
  <2>2. arr' = Arranged(arr, 1..Len(arr), key)
    BY <1>0, <2>1 DEF ById
  <2>3. \A i \in 1..Len(arr) : key[i] \in Int
    BY <1>0, <2>1, ArrayLists DEF Tok
  <2> HIDE DEF key
  <2>4. (1..Len(arr)) \in SUBSET (1..Len(arr))
    OBVIOUS
  <2>5. Len(Arranged(arr, 1..Len(arr), key)) = Cardinality(1..Len(arr))
    <3>1. arr \in Seq(1..Len(heap)) /\ \A i, j \in 1..Len(arr) : arr[i] = arr[j] => i = j
      BY <1>0, ArrayLists
    <3> QED
      BY <2>3, <2>4, <3>1, ArrangedLists
  <2> QED
    BY <2>1, <2>2, <2>5
<1>10. Numbering'
  <2>1. ASSUME phase' = "read", NEW t \in 1..Len(heap), NEW u \in 1..Len(heap), heap[t].id = heap[u].id
        PROVE  t = u
    <3>1. \A i \in 2..Len(arr') : heap[arr'[i]].id # heap[arr'[i - 1]].id
      BY <1>9, <2>1 DEF CloseUld
    <3>2. PICK i, j \in 1..Len(arr') : arr'[i] = t /\ arr'[j] = u
      BY <1>3 DEF Lists
    <3>3. \A k \in 1..Len(arr') : heap[arr'[k]].id \in Int
      <4>1. \A k \in 1..Len(arr') : arr'[k] \in 1..Len(heap)
        BY <1>4
      <4>2. \A x \in 1..Len(heap) : heap[x].id \in Int
        BY <1>0, Sizes DEF Tok
      <4> QED
        BY <4>1, <4>2
    <3>4. ASSUME NEW a \in 1..Len(arr'), NEW b \in 1..Len(arr'), a < b
          PROVE  heap[arr'[a]].id < heap[arr'[b]].id
      <4>1. b \in 2..Len(arr') /\ b - 1 \in 1..Len(arr') /\ a <= b - 1 /\ b - 1 <= b
        BY <1>4, <3>4
      <4>2. /\ heap[arr'[a]].id <= heap[arr'[b - 1]].id /\ heap[arr'[b - 1]].id <= heap[arr'[b]].id
            /\ heap[arr'[b]].id # heap[arr'[b - 1]].id
        BY <1>3, <3>1, <4>1 DEF SortedById
      <4>3. PICK x, y, z \in Int : /\ x = heap[arr'[a]].id /\ y = heap[arr'[b - 1]].id
                                    /\ z = heap[arr'[b]].id
        BY <3>3, <4>1
      <4>4. x <= y /\ y <= z /\ z # y
        BY <4>2, <4>3
      <4>5. x < z
        BY <4>4
      <4> QED
        BY <4>3, <4>5
    <3>5. ~(i < j) /\ ~(j < i)
      BY <2>1, <3>2, <3>3, <3>4
    <3> QED
      BY <1>4, <3>2, <3>5
  <2> QED
    BY <1>0, <2>1 DEF IInv, Numbering, Unsorted, Numbered1, Coded
<1> QED
  BY <1>5, <1>6, <1>7, <1>8, <1>10 DEF IInv
-----------------------------------------------------------------------------
(* -------- The end of the load -------- *)

LEMMA SetToSeqLists ==
  ASSUME NEW S, IsFiniteSet(S)
  PROVE  Lists(SetToSeq(S), S)
<1> DEFINE n == Cardinality(S)
           f == SetToSeq(S)
<1>1. n \in Nat /\ ExistsBijection(1..n, S)
  BY FS_CardinalityType
<1> HIDE DEF n
<1>2. PICK g : g \in Bijection(1..n, S)
  BY <1>1, Fun_ExistsBij
<1>3. g \in [1..n -> S] /\ IsInjective(g)
  <2>1. g \in [1..n -> S] /\ g \in Injection(1..n, S)
    BY <1>2, Fun_BijectionProperties
  <2> QED
    BY <2>1 DEF Injection
<1>4. f = CHOOSE h \in [1..n -> S] : IsInjective(h)
  BY DEF SetToSeq, n
<1>5. f \in [1..n -> S] /\ IsInjective(f)
  <2> HIDE DEF f
  <2> QED
    BY <1>3, <1>4
<1> HIDE DEF f
<1>6. f \in Seq(S) /\ Len(f) = n
  BY <1>1, <1>5, FunctionIsSeq
<1>7. f \in Surjection(1..n, S)
  <2>1. f \in Injection(1..n, S)
    BY <1>5 DEF Injection
  <2>2. IsFiniteSet(1..n) /\ Cardinality(1..n) = n
    <3>1. IsFiniteSet(1..n) /\ Cardinality(1..n) = IF 1 > n THEN 0 ELSE n - 1 + 1
      BY <1>1, FS_Interval
    <3> QED
      BY <1>1, <3>1
  <2> QED
    BY <2>1, <2>2, FS_Injection DEF n
<1>8. \A x \in S : \E i \in 1..n : f[i] = x
  BY <1>7 DEF Surjection
<1>9. \A i, j \in 1..n : f[i] = f[j] => i = j
  BY <1>5 DEF IsInjective
<1> QED
  BY <1>6, <1>8, <1>9 DEF Lists, f

(* What the load leaves: the array holds the tokens of E, all but some of  *)
(* the characters'; each character without a token that must have one has  *)
(* a token of its own, behind the others.                                  *)
Finished(E) ==
  /\ E \subseteq 1..Len(heap) /\ Lists(arr', E) /\ SortedById(arr')
  /\ \A t \in 1..Len(heap) : "CHRMAP" \notin heap[t].flags => t \in E
  /\ heap' \in Seq(Tok) /\ Len(heap') \in Nat /\ Len(heap) <= Len(heap')
  /\ \A t \in 1..Len(heap) : heap'[t] = heap[t]
  /\ \A t \in 1..Len(heap') : t \notin 1..Len(heap) =>
       /\ heap'[t].flags = {"CHRMAP"}
       /\ \E c \in Chars : onech[c] = 0 /\ onech'[c] = t /\ heap'[t].id = Code[c]
  /\ onech' \in [Chars -> 0..Len(heap')]
  /\ \A c \in Chars : onech[c] # 0 => onech'[c] = onech[c]
  /\ \A c \in Chars : onech'[c] = onech[c] \/ onech'[c] > Len(heap)
  /\ \A c, d \in Chars : onech'[c] = onech'[d] /\ onech'[c] > Len(heap) => c = d

LEMMA FinishIs ==
  ASSUME IInv, Finish, phase' # "refused"
  PROVE  \E E : Finished(E)
<1>0. /\ Typed /\ Listing /\ phase = "read" /\ arr' = ById(Rearranged)
      /\ heap' = heap \o [k \in 1..Len(Free) |-> Token(Code[Free[k]], 0, <<>>, {"CHRMAP"})]
      /\ onech' = [c \in Chars |->
             IF \E k \in 1..Len(Free) : Free[k] = c
               THEN Len(heap) + (CHOOSE k \in 1..Len(Free) : Free[k] = c)
               ELSE onech[c]]
  BY DEF IInv, Finish
<1> DEFINE l == Len(heap)
           m == Len(Free)
           S == {c \in Dflt : onech[c] = 0}
           new == [k \in 1..m |-> Token(Code[Free[k]], 0, <<>>, {"CHRMAP"})]
           kept == {i \in DOMAIN arr : i <= NRsvd \/ "CHRMAP" \notin heap[arr[i]].flags}
           E == Entries(arr, kept)
           plain == [i \in DOMAIN arr |-> i]
           pos(c) == CHOOSE k \in 1..m : Free[k] = c
<1>1. /\ l \in Nat /\ heap \in Seq(Tok) /\ onech \in [Chars -> 0..l]
      /\ arr \in Seq(1..Len(heap)) /\ DOMAIN arr = 1..Len(arr)
      /\ \A i, j \in 1..Len(arr) : arr[i] = arr[j] => i = j
      /\ \A i \in 1..Len(arr) : arr[i] \in 1..Len(heap)
  BY <1>0, Sizes, ArrayLists DEF Typed
<1>2. Lists(Free, S) /\ S \subseteq Chars
  <2>1. S \in SUBSET Chars /\ IsFiniteSet(Chars)
    BY TokenSpecAssumption
  <2>2. Free = SetToSeq(S)
    BY DEF Free
  <2> HIDE DEF S
  <2> QED
    BY <2>1, <2>2, FS_Subset, SetToSeqLists
<1>3. /\ m \in Nat /\ \A k \in 1..m : Free[k] \in S
      /\ \A i, j \in 1..m : Free[i] = Free[j] => i = j
      /\ \A c \in S : \E k \in 1..m : Free[k] = c
  <2>1. Free \in Seq(S)
    BY <1>2 DEF Lists
  <2> QED
    BY <1>2, <2>1 DEF Lists
<1>4. \A k \in 1..m : Free[k] \in Chars /\ onech[Free[k]] = 0 /\ Code[Free[k]] \in Int
  BY <1>2, <1>3, TokenSpecAssumption
<1> HIDE DEF S, kept
<1>5. new \in Seq(Tok) /\ Len(new) = m
      /\ \A k \in 1..m : new[k].id = Code[Free[k]] /\ new[k].flags = {"CHRMAP"}
  <2>1. ASSUME NEW id \in Int
        PROVE  /\ Token(id, 0, <<>>, {"CHRMAP"}) \in Tok /\ Token(id, 0, <<>>, {"CHRMAP"}).id = id
               /\ Token(id, 0, <<>>, {"CHRMAP"}).flags = {"CHRMAP"}
    <3>1. <<>> \in Seq(Words) /\ {} \in SUBSET (Nat \ {0}) /\ {"CHRMAP"} \in SUBSET Flags /\ 0 \in Nat
      BY DEF Flags
    <3> DEFINE words == <<>>
               flags == {"CHRMAP"}
    <3>2. words \in Seq(Words) /\ flags \in SUBSET Flags
      BY <3>1
    <3> HIDE DEF words, flags
    <3>3. /\ Token(id, 0, words, flags) \in Tok /\ Token(id, 0, words, flags).id = id
          /\ Token(id, 0, words, flags).flags = flags
      BY <3>1, <3>2 DEF Token, Tok
    <3> QED
      BY <3>3 DEF words, flags
  <2>2. \A k \in 1..m : new[k] = Token(Code[Free[k]], 0, <<>>, {"CHRMAP"})
    OBVIOUS
  <2>3. \A k \in 1..m : new[k] \in Tok /\ new[k].id = Code[Free[k]] /\ new[k].flags = {"CHRMAP"}
    BY <1>4, <2>1, <2>2
  <2>4. new = [k \in 1..m |-> new[k]]
    OBVIOUS
  <2> HIDE DEF new, m
  <2>5. new \in [1..m -> Tok]
    BY <2>3, <2>4
  <2> QED
    BY <1>3, <2>3, <2>5, FunctionIsSeq
<1>6. heap' = heap \o new
  BY <1>0
<1>7. \A c \in Chars : IF c \in S THEN onech'[c] = l + pos(c) /\ pos(c) \in 1..m /\ Free[pos(c)] = c
                                  ELSE onech'[c] = onech[c]
  <2>1. ASSUME NEW c \in Chars, c \in S
        PROVE  onech'[c] = l + pos(c) /\ pos(c) \in 1..m /\ Free[pos(c)] = c
    <3>1. \E k \in 1..m : Free[k] = c
      BY <1>3, <2>1
    <3> QED
      BY <1>0, <3>1
  <2>2. ASSUME NEW c \in Chars, c \notin S PROVE onech'[c] = onech[c]
    <3>1. ~ \E k \in 1..m : Free[k] = c
      BY <1>3, <2>2
    <3> QED
      BY <1>0, <3>1
  <2> QED
    BY <2>1, <2>2
<1>8. onech' = [c \in Chars |-> onech'[c]]
  BY <1>0
<1> HIDE DEF l, m, new, pos
<1>9. /\ heap' \in Seq(Tok) /\ Len(heap') = l + m
      /\ \A t \in 1..(l + m) : heap'[t] = IF t <= l THEN heap[t] ELSE new[t - l]
  BY <1>1, <1>5, <1>6, ConcatProperties DEF l
<1>10. \A t \in 1..(l + m) : t \in 1..l \/ (~(t <= l) /\ t \notin 1..l /\ t - l \in 1..m /\ l + (t - l) = t)
  BY <1>1, <1>3
<1>11. \A t \in 1..l : heap'[t] = heap[t] /\ t \in 1..(l + m)
  BY <1>1, <1>3, <1>9
<1>12. ASSUME NEW c \in S PROVE onech[c] = 0 /\ c \in Chars
  BY <1>2, <1>12 DEF S
<1>13. ASSUME NEW t \in 1..(l + m), t \notin 1..l
       PROVE  /\ heap'[t].flags = {"CHRMAP"}
              /\ \E c \in Chars : onech[c] = 0 /\ onech'[c] = t /\ heap'[t].id = Code[c]
  <2>1. t - l \in 1..m /\ heap'[t] = new[t - l] /\ l + (t - l) = t
    BY <1>9, <1>10, <1>13
  <2>2. PICK c : c = Free[t - l]
    OBVIOUS
  <2>3. c \in S /\ c \in Chars /\ onech[c] = 0
    BY <1>3, <1>12, <2>1, <2>2
  <2>4. onech'[c] = l + pos(c) /\ pos(c) \in 1..m /\ Free[pos(c)] = c
    BY <1>7, <2>3
  <2>5. pos(c) = t - l
    BY <1>3, <2>1, <2>2, <2>4
  <2> QED
    BY <1>5, <2>1, <2>2, <2>3, <2>4, <2>5
<1>14. \A c \in Chars : /\ onech'[c] \in 0..(l + m)
                        /\ onech[c] # 0 => onech'[c] = onech[c]
                        /\ onech'[c] = onech[c] \/ onech'[c] > l
  <2>1. ASSUME NEW c \in Chars, c \in S PROVE onech'[c] \in 0..(l + m) /\ onech[c] = 0 /\ onech'[c] > l
    <3>1. onech'[c] = l + pos(c) /\ pos(c) \in 1..m
      BY <1>7, <2>1
    <3> QED
      BY <1>1, <1>3, <1>12, <2>1, <3>1
  <2>2. ASSUME NEW c \in Chars, c \notin S PROVE onech'[c] \in 0..(l + m) /\ onech'[c] = onech[c]
    BY <1>1, <1>3, <1>7, <2>2
  <2> QED
    BY <2>1, <2>2
<1>15. ASSUME NEW c \in Chars, NEW d \in Chars, onech'[c] = onech'[d], onech'[c] > l PROVE c = d
  <2>1. \A x \in Chars : onech'[x] > l => x \in S
    BY <1>1, <1>7
  <2>2. c \in S /\ d \in S
    BY <1>15, <2>1
  <2>3. /\ onech'[c] = l + pos(c) /\ pos(c) \in 1..m /\ Free[pos(c)] = c
        /\ onech'[d] = l + pos(d) /\ pos(d) \in 1..m /\ Free[pos(d)] = d
    BY <1>7, <2>2
  <2>4. pos(c) = pos(d)
    <3>1. PICK i, j \in 1..m : i = pos(c) /\ j = pos(d)
      BY <2>3
    <3>2. l + i = l + j
      BY <1>15, <2>3, <3>1
    <3> QED
      BY <1>1, <1>3, <3>1, <3>2
  <2> QED
    BY <2>3, <2>4
<1>16. kept \in SUBSET (1..Len(arr)) /\ \A i \in 1..Len(arr) : "CHRMAP" \notin heap[arr[i]].flags => i \in kept
  BY <1>1 DEF kept
<1>17. Rearranged = Arranged(arr, kept, plain)
  BY DEF Rearranged, AsTheyStand, kept
<1>18. \A i \in kept : plain[i] \in Int
  <2>1. \A i \in kept : i \in 1..Len(arr)
    BY <1>16
  <2> QED
    BY <1>1, <2>1
<1> HIDE DEF plain, E
<1>19. Lists(Rearranged, E)
  BY <1>1, <1>16, <1>17, <1>18, ArrangedLists DEF E
<1>20. E \in SUBSET (1..Len(heap))
  BY <1>1, <1>16 DEF E, Entries
<1>21. Lists(arr', E) /\ SortedById(arr')
  <2>1. Lists(ById(Rearranged), E) /\ SortedById(ById(Rearranged))
    BY <1>0, <1>19, <1>20, ByIdIs
  <2> QED
    BY <1>0, <2>1
<1>22. \A t \in 1..Len(heap) : "CHRMAP" \notin heap[t].flags => t \in E
  <2>1. \A t \in 1..Len(heap) : \E i \in 1..Len(arr) : arr[i] = t
    BY <1>0 DEF Listing
  <2> QED
    BY <1>16, <2>1 DEF E, Entries
<1>23. l + m \in Nat /\ l <= l + m
  BY <1>1, <1>3
<1>24. onech' \in [Chars -> 0..(l + m)]
  BY <1>8, <1>14
<1>25. Finished(E)
  BY <1>9, <1>11, <1>13, <1>14, <1>15, <1>20, <1>21, <1>22, <1>23, <1>24 DEF Finished, l
<1> QED
  BY <1>25

(* The lookup by number, of any table.                                     *)
ById1(h, a, id) == Search(a, [k \in 1..Len(a) |-> h[a[k]].id - id])
Vx(h, a, o, id) ==
  LET t == ById1(h, a, id)
  IN IF t # 0 THEN t
     ELSE IF \E c \in Chars : Code[c] = id THEN o[CHOOSE c \in Chars : Code[c] = id] ELSE 0

InIdOrder(h, a) == \A i, j \in 1..Len(a) : i <= j => h[a[i]].id <= h[a[j]].id
Unlike(h, t) == \A u \in 1..Len(h) : h[u].id = h[t].id => u = t
HeldBy(h, a, o, t) == \/ \E m \in 1..Len(a) : a[m] = t
                      \/ \E c \in Chars : Code[c] = h[t].id /\ o[c] = t

LEMMA ById1Is ==
  ASSUME NEW h \in Seq(Tok), NEW a \in Seq(1..Len(h)), NEW id \in Int, InIdOrder(h, a)
  PROVE  \/ \E m \in 1..Len(a) : h[a[m]].id = id /\ ById1(h, a, id) = a[m] /\ a[m] # 0
         \/ ById1(h, a, id) = 0 /\ \A m \in 1..Len(a) : h[a[m]].id # id
<1> DEFINE n == Len(a)
           cmp == [k \in 1..n |-> h[a[k]].id - id]
<1>1. n \in Nat /\ \A m \in 1..n : a[m] \in 1..Len(h) /\ a[m] # 0 /\ h[a[m]].id \in Int
  <2>1. n \in Nat /\ \A m \in 1..n : a[m] \in 1..Len(h)
    OBVIOUS
  <2>2. \A x \in 1..Len(h) : h[x] \in Tok
    OBVIOUS
  <2>3. \A x \in 1..Len(h) : h[x].id \in Int /\ x # 0
    BY <2>2 DEF Tok
  <2> QED
    BY <2>1, <2>3
<1>2. \A m \in 1..n : cmp[m] = h[a[m]].id - id /\ cmp[m] \in Int
  BY <1>1
<1>3. cmp \in [1..n -> Int]
  <2>1. cmp = [m \in 1..n |-> cmp[m]]
    OBVIOUS
  <2> HIDE DEF cmp
  <2> QED
    BY <1>2, <2>1
<1>4. ById1(h, a, id) = Search(a, cmp)
  BY DEF ById1
<1>5. \A i, j \in 1..n : i <= j => h[a[i]].id <= h[a[j]].id
  BY DEF InIdOrder
<1> HIDE DEF cmp, n
<1>6. cmp \in Seq(Int) /\ Len(cmp) = n
  BY <1>1, <1>3, FunctionIsSeq
<1>7. ASSUME NEW i \in 1..n, NEW j \in 1..n, i <= j PROVE cmp[i] <= cmp[j]
  <2>1. h[a[i]].id <= h[a[j]].id /\ h[a[i]].id \in Int /\ h[a[j]].id \in Int
    BY <1>1, <1>5, <1>7
  <2>2. cmp[i] = h[a[i]].id - id /\ cmp[j] = h[a[j]].id - id
    BY <1>2
  <2>3. PICK x, y \in Int : x = h[a[i]].id /\ y = h[a[j]].id
    BY <2>1
  <2>4. x <= y /\ cmp[i] = x - id /\ cmp[j] = y - id
    BY <2>1, <2>2, <2>3
  <2>5. x - id <= y - id
    BY <2>4
  <2> QED
    BY <2>4, <2>5
<1>8. \/ \E m \in 1..n : cmp[m] = 0 /\ Search(a, cmp) = a[m]
      \/ Search(a, cmp) = 0 /\ \A m \in 1..n : cmp[m] # 0
  BY <1>6, <1>7, SearchFinds
<1>9. ASSUME NEW m \in 1..n PROVE cmp[m] = 0 <=> h[a[m]].id = id
  <2>1. PICK x \in Int : x = h[a[m]].id
    BY <1>1
  <2>2. cmp[m] = x - id
    BY <1>2, <2>1
  <2> QED
    BY <2>1, <2>2
<1>10. CASE \E m \in 1..n : cmp[m] = 0 /\ Search(a, cmp) = a[m]
  BY <1>1, <1>4, <1>9, <1>10 DEF n
<1>11. CASE Search(a, cmp) = 0 /\ \A m \in 1..n : cmp[m] # 0
  BY <1>4, <1>9, <1>11 DEF n
<1> QED
  BY <1>8, <1>10, <1>11

(* A token of a table whose numbers differ is found, in the array or as a  *)
(* character.                                                              *)
LEMMA VxIs ==
  ASSUME NEW h \in Seq(Tok), NEW a \in Seq(1..Len(h)), NEW o, NEW t \in 1..Len(h),
         InIdOrder(h, a), Unlike(h, t), HeldBy(h, a, o, t)
  PROVE  Vx(h, a, o, h[t].id) = t
<1>1. h[t].id \in Int /\ t # 0 /\ \A m \in 1..Len(a) : a[m] \in 1..Len(h)
  <2>1. h[t] \in Tok /\ t # 0 /\ \A m \in 1..Len(a) : a[m] \in 1..Len(h)
    OBVIOUS
  <2> QED
    BY <2>1 DEF Tok
<1>2. PICK id \in Int : id = h[t].id
  BY <1>1
<1>3. \/ \E m \in 1..Len(a) : h[a[m]].id = id /\ ById1(h, a, id) = a[m] /\ a[m] # 0
      \/ ById1(h, a, id) = 0 /\ \A m \in 1..Len(a) : h[a[m]].id # id
  BY <1>2, ById1Is
<1>4. CASE \E m \in 1..Len(a) : h[a[m]].id = id /\ ById1(h, a, id) = a[m]
  <2>1. ById1(h, a, id) = t
    BY <1>1, <1>2, <1>4 DEF Unlike
  <2>2. Vx(h, a, o, id) = t
    BY <1>1, <2>1 DEF Vx
  <2> QED
    BY <1>2, <2>2
<1>5. CASE ById1(h, a, id) = 0 /\ \A m \in 1..Len(a) : h[a[m]].id # id
  <2>1. PICK c \in Chars : Code[c] = id /\ o[c] = t
    BY <1>2, <1>5 DEF HeldBy
  <2>2. (CHOOSE d \in Chars : Code[d] = id) = c
    <3>1. \A d \in Chars : Code[d] = id => d = c
      BY <2>1, TokenSpecAssumption DEF IsInjective
    <3> QED
      BY <2>1, <3>1
  <2>3. Vx(h, a, o, id) = t
    BY <1>5, <2>1, <2>2 DEF Vx
  <2> QED
    BY <1>2, <2>3
<1> QED
  BY <1>3, <1>4, <1>5

LEMMA VxFinds ==
  ASSUME NEW h \in Seq(Tok), NEW a \in Seq(1..Len(h)), NEW o, NEW id \in Int, InIdOrder(h, a),
         \E m \in 1..Len(a) : h[a[m]].id = id
  PROVE  Vx(h, a, o, id) # 0
<1>1. ById1(h, a, id) # 0
  <2>1. \/ \E m \in 1..Len(a) : h[a[m]].id = id /\ ById1(h, a, id) = a[m] /\ a[m] # 0
        \/ ById1(h, a, id) = 0 /\ \A m \in 1..Len(a) : h[a[m]].id # id
    BY ById1Is
  <2> QED
    BY <2>1
<1> QED
  BY <1>1 DEF Vx

LEMMA FinishKeeps ==
  ASSUME IInv, Finish
  PROVE  IInv'
<1>0. /\ Typed /\ Listing /\ phase = "read" /\ seed' = seed /\ nuld' = nuld
      /\ view' = view /\ quotes' = quotes /\ past' = past
  BY DEF IInv, Finish, table
<1>1. CASE phase' = "refused"
  <2>1. UNCHANGED <<table, past, nuld>> /\ seed' \in Int
    BY <1>0, <1>1 DEF Finish, Typed
  <2> QED
    BY <1>1, <2>1, RefusedKeeps
<1>2. CASE phase' # "refused"
  <2>0. phase' = "loaded" /\ RsvdDiffer
    BY <1>2 DEF Finish
  <2>1. PICK E : Finished(E)
    BY <1>2, FinishIs
  <2>2. /\ E \subseteq 1..Len(heap) /\ Lists(arr', E) /\ SortedById(arr')
        /\ \A t \in 1..Len(heap) : "CHRMAP" \notin heap[t].flags => t \in E
        /\ heap' \in Seq(Tok) /\ Len(heap') \in Nat /\ Len(heap) <= Len(heap')
        /\ \A t \in 1..Len(heap) : heap'[t] = heap[t]
    BY <2>1 DEF Finished
  <2>3. /\ \A t \in 1..Len(heap') : t \notin 1..Len(heap) =>
             /\ heap'[t].flags = {"CHRMAP"}
             /\ \E c \in Chars : onech[c] = 0 /\ onech'[c] = t /\ heap'[t].id = Code[c]
        /\ onech' \in [Chars -> 0..Len(heap')]
        /\ \A c \in Chars : onech[c] # 0 => onech'[c] = onech[c]
        /\ \A c \in Chars : onech'[c] = onech[c] \/ onech'[c] > Len(heap)
        /\ \A c, d \in Chars : onech'[c] = onech'[d] /\ onech'[c] > Len(heap) => c = d
    BY <2>1 DEF Finished
  <2>4. /\ Len(heap) \in Nat /\ NRsvd <= Len(heap) /\ NRsvd \in Nat /\ RSVD = 1..NRsvd
        /\ \A t \in 1..Len(heap) : t \in 1..Len(heap') /\ t # 0 /\ ~(t > Len(heap))
        /\ 0..Len(heap) \subseteq 0..Len(heap') /\ 1..Len(heap) \subseteq 1..Len(heap')
    BY <1>0, <2>2, Sizes
  <2>5. /\ arr' \in Seq(1..Len(heap)) /\ arr' \in Seq(1..Len(heap')) /\ IsInjective(arr')
        /\ DOMAIN arr' = 1..Len(arr') /\ Len(arr') \in Nat
        /\ \A i \in 1..Len(arr') : arr'[i] \in 1..Len(heap)
    <3>1. arr' \in Seq(1..Len(heap)) /\ IsInjective(arr') /\ DOMAIN arr' = 1..Len(arr') /\ Len(arr') \in Nat
      BY <2>2, <2>4, ListIsArray
    <3>2. arr' \in Seq(1..Len(heap'))
      BY <2>4, <3>1, SeqMonotonic
    <3> QED
      BY <3>1, <3>2
  <2>6. Typed'
    <3>1. view' \in [Words -> 0..Len(heap')]
      BY <1>0, <2>4 DEF Typed
    <3>2. NRsvd <= Len(heap')
      BY <2>2, <2>4
    <3> QED
      BY <1>0, <2>0, <2>2, <2>3, <2>5, <3>1, <3>2 DEF Typed
  <2>7. Listing'
    BY <2>0, <2>5 DEF Listing, Reading
  <2>8. \A t \in 1..Len(heap) : Referred(t)' <=> Referred(t)
    BY <2>2 DEF Referred
  <2>9. \A t \in 1..Len(heap') : t \notin 1..Len(heap) => Referred(t)'
    BY <2>3 DEF Referred
  <2>10. Owned'
    <3>1. ASSUME NEW t \in 1..Len(heap'), ~Referred(t)'
          PROVE  (\E i \in 1..Len(arr') : arr'[i] = t) /\ \A c \in Chars : onech'[c] # t
      <4>1. t \in 1..Len(heap) /\ ~Referred(t)
        BY <2>8, <2>9, <3>1
      <4>2. t \in E
        BY <2>2, <4>1 DEF Referred
      <4>3. \E i \in 1..Len(arr') : arr'[i] = t
        BY <2>2, <4>2 DEF Lists
      <4>4. ASSUME NEW c \in Chars PROVE onech'[c] # t
        <5>1. onech[c] # t
          BY <4>1 DEF IInv, Owned
        <5> QED
          BY <2>3, <2>4, <4>1, <5>1
      <4> QED
        BY <4>3, <4>4
    <3>2. ASSUME ~past'.stopped, NEW t \in 1..Len(heap'), Referred(t)'
          PROVE  \E c \in Chars : onech'[c] = t
      <4>1. CASE t \in 1..Len(heap)
        <5>1. PICK c \in Chars : onech[c] = t
          BY <1>0, <2>8, <3>2, <4>1 DEF IInv, Owned
        <5> QED
          BY <2>3, <2>4, <4>1, <5>1
      <4>2. CASE t \notin 1..Len(heap)
        BY <2>3, <4>2
      <4> QED
        BY <4>1, <4>2
    <3>3. ASSUME ~past'.shared, NEW c \in Chars, NEW d \in Chars, onech'[c] = onech'[d], onech'[c] # 0
          PROVE  c = d
      <4>1. CASE onech'[c] > Len(heap)
        BY <2>3, <3>3, <4>1
      <4>2. CASE ~(onech'[c] > Len(heap))
        <5>1. onech[c] = onech'[c] /\ onech[d] = onech'[d]
          BY <2>3, <3>3, <4>2
        <5> QED
          BY <1>0, <3>3, <5>1 DEF IInv, Owned
      <4> QED
        BY <4>1, <4>2
    <3>4. ~past'.stopped
      BY <1>0 DEF IInv, Owned
    <3> QED
      BY <3>1, <3>2, <3>3, <3>4 DEF Owned
  <2>11. Keywords' /\ Apart' /\ Uld' /\ Numbering' /\ Counted'
    BY <2>0 DEF Keywords, Apart, Uld, Numbering, Counted, Reading, Unsorted
  <2>12. NumbersLead'
    <3> SUFFICES ASSUME ~past.moved
                 PROVE  /\ \A t \in Live' : Vx(heap', arr', onech', heap'[t].id) = t
                        /\ past.bare \/ \A w \in DOMAIN quotes : Vx(heap', arr', onech', quotes[w]) # 0
      BY <1>0 DEF NumbersLead, FindVx, Vx, ById1
    <3>1. InIdOrder(heap', arr')
      BY <2>2, <2>5 DEF SortedById, InIdOrder
    <3>2. Numbering
      BY DEF IInv
    <3>3. ASSUME NEW t \in 1..Len(heap), "CHRMAP" \in heap[t].flags
          PROVE  \E c \in Chars : Code[c] = heap[t].id /\ onech[c] = t
      BY <1>0, <3>2, <3>3 DEF Numbering, Unsorted, Numbered1
    <3>4. ASSUME NEW t \in 1..Len(heap), NEW u \in 1..Len(heap'), u \notin 1..Len(heap)
          PROVE  heap'[t].id # heap'[u].id
      <4>1. PICK c \in Chars : onech[c] = 0 /\ heap'[u].id = Code[c]
        BY <2>3, <3>4
      <4>2. CASE "CHRMAP" \in heap[t].flags
        <5>1. PICK d \in Chars : Code[d] = heap[t].id /\ onech[d] = t
          BY <3>3, <4>2
        <5>2. d # c
          BY <2>4, <4>1, <5>1
        <5>3. Code[d] # Code[c]
          BY <5>2, TokenSpecAssumption DEF IsInjective
        <5> QED
          BY <2>2, <4>1, <5>1, <5>3
      <4>3. CASE "CHRMAP" \notin heap[t].flags
        <5>1. ~Coded(heap[t].id)
          BY <1>0, <3>2, <4>3 DEF Numbering, Unsorted, Numbered1
        <5> QED
          BY <2>2, <4>1, <5>1 DEF Coded
      <4> QED
        BY <4>2, <4>3
    <3>5. ASSUME NEW t \in 1..Len(heap'), NEW u \in 1..Len(heap'), heap'[t].id = heap'[u].id PROVE t = u
      <4>1. CASE t \in 1..Len(heap) /\ u \in 1..Len(heap)
        <5>1. heap[t].id = heap[u].id
          BY <2>2, <3>5, <4>1
        <5>2. t = u \/ (t <= NRsvd /\ u <= NRsvd)
          BY <1>0, <3>2, <4>1, <5>1 DEF Numbering, Unsorted
        <5>3. t <= NRsvd /\ u <= NRsvd => t \in RSVD /\ u \in RSVD
          BY <2>4, <4>1
        <5> QED
          BY <2>0, <5>1, <5>2, <5>3 DEF RsvdDiffer
      <4>2. CASE t \in 1..Len(heap) /\ u \notin 1..Len(heap)
        BY <3>4, <3>5, <4>2
      <4>3. CASE t \notin 1..Len(heap) /\ u \in 1..Len(heap)
        BY <3>4, <3>5, <4>3
      <4>4. CASE t \notin 1..Len(heap) /\ u \notin 1..Len(heap)
        <5>1. PICK c \in Chars : onech'[c] = t /\ heap'[t].id = Code[c]
          BY <2>3, <4>4
        <5>2. PICK d \in Chars : onech'[d] = u /\ heap'[u].id = Code[d]
          BY <2>3, <4>4
        <5>3. c = d
          BY <3>5, <5>1, <5>2, TokenSpecAssumption DEF IsInjective
        <5> QED
          BY <5>1, <5>2, <5>3
      <4> QED
        BY <4>1, <4>2, <4>3, <4>4
    <3>6. ASSUME NEW t \in 1..Len(heap')
          PROVE  \/ \E m \in 1..Len(arr') : arr'[m] = t
                 \/ \E c \in Chars : Code[c] = heap'[t].id /\ onech'[c] = t
      <4>1. CASE t \in E
        BY <2>2, <4>1 DEF Lists
      <4>2. CASE t \notin E /\ t \in 1..Len(heap)
        <5>1. PICK c \in Chars : Code[c] = heap[t].id /\ onech[c] = t
          BY <2>2, <3>3, <4>2
        <5>2. onech'[c] = t
          BY <2>3, <2>4, <4>2, <5>1
        <5> QED
          BY <2>2, <4>2, <5>1, <5>2
      <4>3. CASE t \notin 1..Len(heap)
        BY <2>3, <4>3
      <4> QED
        BY <4>1, <4>2, <4>3
    <3>7. ASSUME NEW t \in Live' PROVE t \in 1..Len(heap')
      <4>1. t \in Range(arr') \/ (t \in Range(onech') /\ t # 0)
        BY DEF Live, Range
      <4>2. CASE t \in Range(arr')
        BY <2>4, <2>5, <4>2 DEF Range
      <4>3. CASE t \in Range(onech') /\ t # 0
        <5>1. t \in 0..Len(heap')
          BY <2>3, <4>3 DEF Range
        <5> QED
          BY <2>2, <4>3, <5>1
      <4> QED
        BY <4>1, <4>2, <4>3
    <3>8. ASSUME NEW t \in Live' PROVE Vx(heap', arr', onech', heap'[t].id) = t
      <4>1. t \in 1..Len(heap')
        BY <3>7
      <4>2. HeldBy(heap', arr', onech', t)
        BY <3>6, <4>1 DEF HeldBy
      <4>3. Unlike(heap', t)
        BY <3>5, <4>1 DEF Unlike
      <4> QED
        BY <2>2, <2>5, <3>1, <4>1, <4>2, <4>3, VxIs
    <3>9. ASSUME ~past.bare, NEW w \in DOMAIN quotes PROVE Vx(heap', arr', onech', quotes[w]) # 0
      <4>1. PICK t \in (NRsvd + 1)..Len(heap) : "CHRMAP" \notin heap[t].flags /\ heap[t].id = quotes[w]
        BY <1>0, <3>2, <3>9 DEF Numbering, Unsorted
      <4>2. t \in 1..Len(heap)
        BY <2>4
      <4>3. PICK m \in 1..Len(arr') : arr'[m] = t
        BY <2>2, <4>1, <4>2 DEF Lists
      <4>4. heap'[arr'[m]].id = quotes[w] /\ quotes[w] \in Int
        <5>1. heap[t].id \in Int
          BY <1>0, <4>2, Sizes DEF Tok
        <5> QED
          BY <2>2, <4>1, <4>2, <4>3, <5>1
      <4> QED
        BY <2>2, <2>5, <3>1, <4>4, VxFinds
    <3> QED
      BY <3>8, <3>9
  <2> QED
    BY <2>6, <2>7, <2>10, <2>11, <2>12 DEF IInv
<1> QED
  BY <1>1, <1>2

LEMMA DestroyKeeps ==
  ASSUME IInv, Destroy
  PROVE  IInv'
<1>1. /\ heap' = heap /\ arr' = arr /\ onech' = onech /\ view' = view /\ quotes' = quotes
      /\ past' = past /\ nuld' = nuld /\ seed' = seed /\ phase \in {"loaded", "refused"}
      /\ phase' = "gone" /\ Typed
      /\ freed' = [t \in DOMAIN heap |-> Releases(t)]
  BY DEF Destroy, table, IInv
<1>2. Typed' /\ Listing'
  BY <1>1 DEF IInv, Typed, Listing, Reading
<1>3. Owned'
  BY <1>1 DEF IInv, Owned, Referred
<1>4. Keywords' /\ Apart' /\ Numbering' /\ Uld' /\ NumbersLead'
  BY <1>1 DEF Keywords, Apart, Numbering, Uld, NumbersLead, Reading, Unsorted
<1>5. Counted'
  <2>1. DOMAIN heap = 1..Len(heap)
    BY <1>1 DEF Typed
  <2>2. freed' = [t \in 1..Len(heap) |-> Releases(t)]
    BY <1>1, <2>1
  <2> QED
    BY <1>1, <2>2 DEF Counted, Releases
<1> QED
  BY <1>2, <1>3, <1>4, <1>5 DEF IInv

LEMMA InitKeeps ==
  ASSUME Init
  PROVE  IInv
<1>1. NRsvd \in Nat \ {0} /\ Rsvd \in Seq(Nat \ {0}) /\ RsvdId \in Seq(Int) /\ Len(Rsvd) = NRsvd
      /\ Len(RsvdId) = NRsvd
  <2>1. Rsvd \in Seq(Nat \ {0}) /\ NRsvd > 0 /\ RsvdId \in Seq(Int) /\ Len(RsvdId) = NRsvd
    BY TokenSpecAssumption
  <2> QED
    BY <2>1 DEF NRsvd
<1>2. \A i \in 1..NRsvd : Rsvd[i] \in Nat \ {0} /\ RsvdId[i] \in Int /\ RsvdId[i] <= 0
  BY <1>1, TokenSpecAssumption
<1>3. ASSUME NEW id \in Int, NEW n \in Nat
      PROVE  /\ Token(id, n, <<>>, {"RSVD"}) \in Tok /\ Token(id, n, <<>>, {"RSVD"}).id = id
             /\ Token(id, n, <<>>, {"RSVD"}).flags = {"RSVD"}
             /\ Token(id, n, <<>>, {"RSVD"}).name = n /\ Token(id, n, <<>>, {"RSVD"}).aliases = {}
  <2>1. <<>> \in Seq(Words) /\ {} \in SUBSET (Nat \ {0}) /\ {"RSVD"} \in SUBSET Flags
    BY DEF Flags
  <2> DEFINE words == <<>>
             flags == {"RSVD"}
  <2>2. words \in Seq(Words) /\ flags \in SUBSET Flags
    BY <2>1
  <2> HIDE DEF words, flags
  <2>3. /\ Token(id, n, words, flags) \in Tok /\ Token(id, n, words, flags).id = id
        /\ Token(id, n, words, flags).flags = flags
        /\ Token(id, n, words, flags).name = n /\ Token(id, n, words, flags).aliases = {}
    BY <2>1, <2>2 DEF Token, Tok
  <2> QED
    BY <2>3 DEF words, flags
<1>4. \A i \in 1..NRsvd :
        /\ heap[i] \in Tok /\ heap[i].id = RsvdId[i] /\ heap[i].flags = {"RSVD"}
        /\ heap[i].name = Rsvd[i] /\ heap[i].aliases = {}
  <2>1. \A i \in 1..NRsvd : heap[i] = Token(RsvdId[i], Rsvd[i], <<>>, {"RSVD"})
    BY DEF Init
  <2>2. \A i \in 1..NRsvd : Rsvd[i] \in Nat /\ RsvdId[i] \in Int
    BY <1>2
  <2> QED
    BY <1>3, <2>1, <2>2
<1>5. heap \in Seq(Tok) /\ Len(heap) = NRsvd
  <2>1. heap = [i \in 1..NRsvd |-> heap[i]]
    BY DEF Init
  <2>2. heap \in [1..NRsvd -> Tok]
    BY <1>4, <2>1
  <2> QED
    BY <1>1, <2>2, FunctionIsSeq
<1>6. arr \in Seq(1..NRsvd) /\ Len(arr) = NRsvd /\ \A i \in 1..NRsvd : arr[i] = i
  <2>1. arr \in [1..NRsvd -> 1..NRsvd] /\ \A i \in 1..NRsvd : arr[i] = i
    BY DEF Init
  <2> QED
    BY <1>1, <2>1, FunctionIsSeq
<1>7. /\ onech = [c \in Chars |-> 0] /\ view = [w \in Words |-> 0] /\ quotes = <<>>
      /\ seed = 0 /\ phase = "head" /\ nuld = 0
      /\ past.asked = {} /\ past.clash = FALSE /\ past.stopped = FALSE
      /\ past \in PastRec
  <2>1. past \in PastRec
    BY DEF Init, PastRec
  <2> QED
    BY <2>1 DEF Init
<1>8. Typed
  <2>1. quotes \in [DOMAIN quotes -> Numbers] /\ DOMAIN quotes \subseteq Words
    <3>1. DOMAIN quotes = {}
      BY <1>7
    <3>2. quotes = [x \in DOMAIN quotes |-> quotes[x]]
      BY <1>7
    <3> QED
      BY <3>1, <3>2
  <2>2. onech \in [Chars -> 0..Len(heap)] /\ view \in [Words -> 0..Len(heap)]
    BY <1>1, <1>5, <1>7
  <2> QED
    BY <1>1, <1>5, <1>6, <1>7, <2>1, <2>2 DEF Typed
<1>9. Listing
  <2>1. DOMAIN arr = 1..NRsvd
    BY <1>6
  <2> QED
    BY <1>5, <1>6, <1>7, <2>1 DEF Listing, IsInjective, Reading
<1>10. Owned
  <2>1. \A t \in 1..Len(heap) : ~Referred(t)
    BY <1>4, <1>5 DEF Referred
  <2>2. \A t \in 1..Len(heap) : t # 0
    BY <1>1, <1>5
  <2> QED
    BY <1>5, <1>6, <1>7, <2>1, <2>2 DEF Owned
<1>11. Keywords
  BY <1>7 DEF Keywords
<1>12. Apart
  <2>1. \A i, j \in 1..NRsvd : Rsvd[i] = Rsvd[j] => i = j
    <3>1. DOMAIN Rsvd = 1..NRsvd
      BY <1>1
    <3> QED
      BY <3>1, TokenSpecAssumption DEF IsInjective
  <2> QED
    BY <1>4, <1>5, <2>1 DEF Apart, Bears, RSVD
<1>13. Numbering
  <2>1. \A t \in 1..Len(heap) : "CHRMAP" \notin heap[t].flags /\ ~Coded(heap[t].id)
    <3>1. \A c \in Chars : Code[c] \in Nat \ {0}
      BY TokenSpecAssumption
    <3>2. ASSUME NEW t \in 1..Len(heap) PROVE ~Coded(heap[t].id)
      <4>1. heap[t].id \in Int /\ heap[t].id <= 0
        BY <1>2, <1>4, <1>5
      <4> QED
        BY <3>1, <4>1 DEF Coded
    <3> QED
      BY <1>4, <1>5, <3>2
  <2>2. \A t \in 1..Len(heap) : t <= NRsvd
    BY <1>1, <1>5
  <2>3. (NRsvd + 1)..Len(heap) = {}
    BY <1>1, <1>5
  <2>4. DOMAIN quotes = {}
    BY <1>7
  <2> QED
    BY <1>5, <2>1, <2>2, <2>3, <2>4 DEF Numbering, Numbered1
<1>14. Uld /\ NumbersLead /\ Counted
  BY <1>7 DEF Uld, NumbersLead, Counted
<1> QED
  BY <1>8, <1>9, <1>10, <1>11, <1>12, <1>13, <1>14 DEF IInv

LEMMA NextKeeps ==
  ASSUME IInv, [Next]_vars
  PROVE  IInv'
<1>1. CASE RenameAny
  BY <1>1, RenameKeeps DEF RenameAny
<1>2. CASE QuoteTypeAny
  BY <1>2, QuoteTypeKeeps DEF QuoteTypeAny
<1>3. CASE StartBody
  BY <1>3, StartBodyKeeps
<1>4. CASE ReservedLineAny
  BY <1>4, ReservedLineKeeps DEF ReservedLineAny
<1>5. CASE UserLineAny
  BY <1>5, UserLineKeeps DEF UserLineAny
<1>6. CASE CharLineAny
  BY <1>6, CharLineKeeps DEF CharLineAny
<1>7. CASE WordLineAny
  BY <1>7, WordLineKeeps DEF WordLineAny
<1>8. CASE OpenUld
  BY <1>8, OpenUldKeeps
<1>9. CASE UldLineAny
  BY <1>9, UldLineKeeps DEF UldLineAny
<1>10. CASE CloseUld
  BY <1>10, CloseUldKeeps
<1>11. CASE NoUld
  BY <1>11, NoUldKeeps
<1>12. CASE Finish
  BY <1>12, FinishKeeps
<1>13. CASE Destroy
  BY <1>13, DestroyKeeps
<1>14. CASE UNCHANGED vars
  <2>1. /\ heap' = heap /\ arr' = arr /\ onech' = onech /\ view' = view /\ quotes' = quotes
        /\ past' = past /\ nuld' = nuld /\ seed' = seed /\ phase' = phase /\ freed' = freed
    BY <1>14 DEF vars, table
  <2>2. Typed' /\ Listing'
    BY <2>1 DEF IInv, Typed, Listing, Reading
  <2>3. Owned' /\ Keywords'
    BY <2>1 DEF IInv, Owned, Referred, Keywords, Bears, Reading
  <2>4. Apart' /\ Numbering'
    BY <2>1 DEF IInv, Apart, Bears, RSVD, Numbering, Numbered1, Coded, Reading, Unsorted
  <2>5. Uld'
    BY <2>1 DEF IInv, Uld
  <2>6. NumbersLead'
    <3>1. NumbersLead = (phase = "loaded" /\ ~past.moved =>
            /\ \A t \in Live : Vx(heap, arr, onech, heap[t].id) = t
            /\ past.bare \/ \A w \in DOMAIN quotes : Vx(heap, arr, onech, quotes[w]) # 0)
      BY DEF NumbersLead, FindVx, Vx, ById1
    <3>2. NumbersLead' = (phase' = "loaded" /\ ~past'.moved =>
            /\ \A t \in Live' : Vx(heap', arr', onech', heap'[t].id) = t
            /\ past'.bare \/ \A w \in DOMAIN quotes' : Vx(heap', arr', onech', quotes'[w]) # 0)
      BY DEF NumbersLead, FindVx, Vx, ById1
    <3>3. Live' = Live /\ NumbersLead
      BY <2>1 DEF Live, IInv
    <3> QED
      BY <2>1, <3>1, <3>2, <3>3
  <2>7. Counted'
    BY <2>1 DEF IInv, Counted, Releases
  <2> QED
    BY <2>2, <2>3, <2>4, <2>5, <2>6, <2>7 DEF IInv
<1> QED
  BY <1>1, <1>2, <1>3, <1>4, <1>5, <1>6, <1>7, <1>8, <1>9, <1>10, <1>11, <1>12, <1>13, <1>14 DEF Next
-----------------------------------------------------------------------------
(* -------- The theorems -------- *)

(* The invariant, for every specification of any length.                   *)
THEOREM SpecIInv == Spec => []IInv
<1>1. Init => IInv
  BY InitKeeps
<1>2. IInv /\ [Next]_vars => IInv'
  BY NextKeeps
<1> QED
  BY <1>1, <1>2, PTL DEF Spec

(* A keyword stays with a token of the name its line gave it, whatever the *)
(* later lines of the specification say (__ulc_proc_line__regular()).      *)
THEOREM KeywordsKeptHolds == Spec => []KeywordsKept
<1>1. IInv => KeywordsKept
  BY DEF IInv, Keywords, Reading, KeywordsKept
<1> QED
  BY <1>1, SpecIInv, PTL

(* Names are borne once while the body is read; in a loaded table a number *)
(* leads back to its token and a quote mark's number to one; a line of the *)
(* .uld finds the token it names (uls_bi_search_vptr() over the arrays     *)
(* uls_quick_sort_vptr() arranged).                                        *)
THEOREM LookupsAgreeHolds == Spec => []LookupsAgree
<1>1. ASSUME IInv PROVE LookupsAgree
  <2>0. Typed /\ Listing
    BY <1>1 DEF IInv
  <2>1. ASSUME phase = "body", ~past.clash, NEW i \in DOMAIN arr, NEW j \in DOMAIN arr, NEW n \in Names,
               Bears(arr[i], n), Bears(arr[j], n)
        PROVE  i = j
    <3>1. i \in 1..Len(heap) /\ j \in 1..Len(heap) /\ arr[i] = i /\ arr[j] = j
      BY <2>0, <2>1, ArrayLists DEF Listing, Reading
    <3> QED
      BY <1>1, <2>1, <3>1 DEF IInv, Apart, Reading
  <2>2. phase = "loaded" /\ ~past.moved =>
          /\ \A t \in Live : FindVx(heap[t].id) = t
          /\ past.bare \/ \A w \in DOMAIN quotes : FindVx(quotes[w]) # 0
    BY <1>1 DEF IInv, NumbersLead
  <2>3. ASSUME phase = "uld", ~past.renamed, NEW i \in 1..nuld
        PROVE  UldFind(heap[arr[i]].name) # 0 /\ heap[UldFind(heap[arr[i]].name)].name = heap[arr[i]].name
    <3>1. i \in 1..Len(arr)
      BY <1>1, <2>0, <2>3, Sizes DEF IInv, Uld, Typed
    <3>2. PICK n \in Int : n = heap[arr[i]].name
      BY <2>0, <3>1, ArrayLists DEF Tok
    <3>3. \/ \E m \in 1..nuld : UldFind(n) = arr[m] /\ heap[arr[m]].name = n /\ m \in 1..Len(arr)
          \/ UldFind(n) = 0 /\ (~past.renamed => \A m \in 1..nuld : heap[arr[m]].name # n)
      BY <1>1, <2>0, <2>3, UldFinds DEF IInv
    <3>4. PICK m \in 1..Len(arr) : UldFind(n) = arr[m] /\ heap[arr[m]].name = n
      BY <2>3, <3>2, <3>3
    <3>5. arr[m] # 0
      BY <2>0, ArrayLists
    <3> QED
      BY <3>2, <3>4, <3>5
  <2> QED
    BY <2>1, <2>2, <2>3 DEF LookupsAgree
<1> QED
  BY <1>1, SpecIInv, PTL

(* Destroying the analyser (free_tokdef_array(), uls_deinit_1char_table()) *)
(* releases every token once, with two exceptions: one that characters     *)
(* share is released by each of them, and when the load stopped, one that  *)
(* no character holds may stay.                                            *)
THEOREM FreedOnceHolds == Spec => []FreedOnce
<1>1. ASSUME IInv PROVE FreedOnce
  <2>0. Typed /\ Listing /\ Owned
    BY <1>1 DEF IInv
  <2>1. IsInjective(arr)
    BY <2>0 DEF Listing
  <2>2. /\ DOMAIN arr = 1..Len(arr) /\ DOMAIN heap = 1..Len(heap)
        /\ \A i, j \in 1..Len(arr) : arr[i] = arr[j] => i = j
    BY <2>0, ArrayLists DEF Typed
  <2>3. ASSUME phase = "gone", NEW t \in DOMAIN heap
        PROVE  \/ freed[t] = 1
               \/ past.shared /\ freed[t] > 1 /\ freed[t] = Cardinality(Holders(t))
               \/ past.stopped /\ freed[t] = 0 /\ Holders(t) = {}
    <3> DEFINE inArray == {i \in DOMAIN arr : arr[i] = t}
               inChars == Holders(t)
    <3>1. freed[t] = Releases(t)
      BY <1>1, <2>2, <2>3 DEF IInv, Counted
    <3>2. Releases(t) = (IF {"CHRMAP", "REFERRED"} \cap heap[t].flags = {} THEN Cardinality(inArray) ELSE 0)
                          + Cardinality(inChars)
      BY DEF Releases, Holders
    <3>3. Referred(t) <=> {"CHRMAP", "REFERRED"} \cap heap[t].flags # {}
      BY DEF Referred
    <3>4. IsFiniteSet(inChars) /\ Cardinality(inChars) \in Nat
      <4>1. inChars \subseteq Chars /\ IsFiniteSet(Chars)
        BY TokenSpecAssumption DEF Holders
      <4> HIDE DEF inChars
      <4> QED
        BY <4>1, FS_Subset, FS_CardinalityType
    <3>5. CASE Referred(t)
      <4>1. freed[t] = Cardinality(inChars)
        BY <3>1, <3>2, <3>3, <3>4, <3>5
      <4>2. CASE inChars = {}
        <5>1. \A c \in Chars : onech[c] # t
          BY <4>2 DEF Holders
        <5>2. past.stopped
          BY <2>0, <2>2, <2>3, <3>5, <5>1 DEF Owned
        <5> HIDE DEF inChars
        <5>3. Cardinality(inChars) = 0
          BY <4>2, FS_EmptySet
        <5> QED
          BY <4>1, <4>2, <5>2, <5>3 DEF inChars
      <4>3. CASE \E c \in inChars : \A d \in inChars : d = c
        <5>1. PICK c \in inChars : \A d \in inChars : d = c
          BY <4>3
        <5> HIDE DEF inChars
        <5>2. inChars = {c}
          BY <5>1
        <5> QED
          BY <4>1, <5>2, FS_Singleton
      <4>4. CASE \E c, d \in inChars : c # d
        <5>1. PICK c \in inChars, d \in inChars : c # d
          BY <4>4
        <5>2. c \in Chars /\ d \in Chars /\ onech[c] = t /\ onech[d] = t /\ t # 0
          BY <2>0, <2>2, <2>3, <5>1, Sizes DEF Holders
        <5>3. past.shared
          BY <2>0, <5>1, <5>2 DEF Owned
        <5> HIDE DEF inChars
        <5>4. {c, d} \subseteq inChars /\ Cardinality({c, d}) = 2
          <6>1. IsFiniteSet({c}) /\ Cardinality({c}) = 1 /\ d \notin {c} /\ {c, d} = {c} \cup {d}
            BY <5>1, FS_Singleton
          <6>2. Cardinality({c} \cup {d}) = Cardinality({c}) + 1
            BY ONLY <6>1, FS_AddElement
          <6>3. {c, d} \subseteq inChars
            BY <5>1
          <6> QED
            BY <6>1, <6>2, <6>3
        <5>5. Cardinality(inChars) >= 2
          BY <3>4, <5>4, FS_Subset
        <5> QED
          BY <3>4, <4>1, <5>3, <5>5 DEF inChars
      <4> QED
        BY <4>2, <4>3, <4>4
    <3>6. CASE ~Referred(t)
      <4>1. PICK i \in 1..Len(arr) : arr[i] = t
        BY <2>0, <2>2, <3>6 DEF Owned
      <4>2. \A j : j \in inArray <=> j = i
        BY <2>2, <4>1
      <4>3. inChars = {}
        BY <2>0, <2>2, <3>6 DEF Owned, Holders
      <4> HIDE DEF inArray, inChars
      <4>4. Cardinality(inChars) = 0
        BY <4>3, FS_EmptySet
      <4>5. inArray = {i}
        BY <4>2
      <4>6. Cardinality(inArray) = 1
        BY <4>5, FS_Singleton
      <4> QED
        BY <3>1, <3>2, <3>3, <3>6, <4>4, <4>6
    <3> QED
      BY <3>5, <3>6
  <2> QED
    BY <2>1, <2>3 DEF FreedOnce
<1> QED
  BY <1>1, SpecIInv, PTL
=============================================================================
