-------------------------- MODULE UtfSource_proofs --------------------------
(***************************************************************************)
(* The decoder under the input buffer, for any file and any size of the    *)
(* two buffers: the characters come whole and in order, the decoded words  *)
(* in the raw buffer are not overwritten before they are encoded           *)
(* (DecodedInPlaceHolds), and what is missing at the end of the file is    *)
(* what EndsTruly says (EndsTrulyHolds).                                   *)
(***************************************************************************)
EXTENDS UtfSource, Flattening, FiniteSetTheorems

(* The n characters after the a-th.                                        *)
Chars(a, n) == [k \in 1..n |-> a + k]

Flowing == {"drain", "encode"}
Typed ==
  /\ file \in Files
  /\ inp \in [read : Nat, decoded : Nat, is_eof : {0, 1}, wch_buffered : Nat]
  /\ raw \in Seq(Nat) /\ taken \in Seq(Nat)
  /\ isrc \in [eof : BOOLEAN, err : BOOLEAN]
  /\ pc \in {"idle", "refill", "read", "fill"} \cup Flowing
  /\ call \in [req : Nat, at0 : Nat, len0 : Nat, want : Nat, got : Seq(Nat)]

(* What has been read and not decoded fits in its buffer; the end of the   *)
(* file is seen only by a decoder that is short of words.                  *)
Words ==
  /\ inp.decoded <= Len(file.chars)
  /\ WordsUpto[inp.decoded] <= inp.read /\ inp.read <= FileWords
  /\ inp.read <= WordsUpto[inp.decoded] + WrdBuf
  /\ inp.is_eof = 1 => inp.read = FileWords /\ inp.read < WordsUpto[inp.decoded] + 4
  /\ pc = "encode" /\ call.got = <<>> => inp.read = WordsUpto[inp.decoded]

(* Of the decoded characters the first e are encoded, and the rest is on   *)
(* its way: in the hands of uls_fill_utf8buf(), or kept for the next round.*)
Underway(e) ==
  IF pc \in Flowing
  THEN /\ inp.wch_buffered = 0 /\ e + Len(call.got) = inp.decoded
       /\ call.got = Chars(e, Len(call.got))
  ELSE IF inp.wch_buffered = 0 THEN e = inp.decoded
  ELSE inp.wch_buffered = inp.decoded /\ e + 1 = inp.decoded
Text ==
  \E e \in 0..inp.decoded :
    taken \o raw = Bytes(Chars(0, e)) /\ (~isrc.err => Underway(e))

(* The room that is left, for as many characters as a round asks for.      *)
Room ==
  /\ Len0 <= BufSiz
  /\ pc # "idle" => call.req <= BufSiz /\ ~isrc.err
  /\ pc = "read" => Len0 < BufSiz
  /\ pc \in {"fill"} \cup Flowing => call.len0 <= Len0
  /\ pc = "fill" => Len0 > call.len0 \/ Len0 < BufSiz
  /\ pc \in Flowing =>
       /\ call.want = Wanted /\ call.want > 0 /\ Len(call.got) <= call.want
       /\ InPlace \/ Len0 < BufSiz
  /\ isrc.err => isrc.eof

(* What ended the file.                                                    *)
Ended ==
  /\ isrc.eof => pc \in {"idle", "refill", "read"}
  /\ isrc.eof /\ ~isrc.err => inp.is_eof = 1
  /\ isrc.eof /\ ~isrc.err =>
       \/ inp.read = WordsUpto[inp.decoded] /\ inp.wch_buffered = 0
       \/ inp.wch_buffered # 0 /\ file.chars[inp.wch_buffered].width > 1
  /\ isrc.err => file.fails \/ file.cut > 0

IInv == Typed /\ Words /\ Text /\ Room /\ Ended
-----------------------------------------------------------------------------
(* Every set of numbers up to a bound has a greatest one.                  *)
LEMMA Greatest ==
  ASSUME NEW m \in Nat, NEW T, T \subseteq 0..m, T # {}
  PROVE  \E n \in T : \A k \in T : k <= n
<1> DEFINE D == {k \in Nat : m - k \in T}
<1>1. PICK t \in T : TRUE
  OBVIOUS
<1>2. m - t \in D /\ t \in Nat
  <2>1. t \in 0..m /\ m - (m - t) = t /\ m - t \in Nat
    BY <1>1
  <2> QED
    BY <1>1, <2>1
<1>3. PICK d \in D : \A k \in D : d <= k
  <2>1. D \subseteq Nat /\ D # {}
    BY <1>2
  <2> HIDE DEF D
  <2> QED
    BY <2>1, Least
<1>4. ASSUME NEW k \in T PROVE k <= m - d
  <2>1. k \in 0..m /\ m - (m - k) = k /\ m - k \in Nat
    OBVIOUS
  <2>2. m - k \in D
    BY <2>1
  <2> QED
    BY <1>3, <2>1, <2>2
<1> QED
  BY <1>3, <1>4

-----------------------------------------------------------------------------
(* -------- the words of characters -------- *)

N == Len(file.chars)
IsFile == file.chars \in Seq([words : 1..4, width : 1..ChMax])

LEMMA FileIs ==
  ASSUME file \in Files
  PROVE  /\ IsFile /\ N \in Nat /\ file.fails \in BOOLEAN
         /\ DOMAIN file.chars = 1..N
         /\ \A k \in 1..N : file.chars[k].words \in 1..4 /\ file.chars[k].width \in 1..ChMax
         /\ file.cut # 0 => N > 0 /\ file.cut \in 1..file.chars[N].words - 1
<1>1. /\ IsFile /\ file.fails \in BOOLEAN
      /\ file.cut # 0 => file.chars # <<>> /\ file.cut \in 1..(Last(file.chars).words - 1)
  BY FilesOK DEF IsFile
<1>2. N \in Nat /\ DOMAIN file.chars = 1..N
  BY <1>1, LenProperties DEF IsFile, N
<1>3. \A k \in 1..N : file.chars[k] \in [words : 1..4, width : 1..ChMax]
  BY <1>1, ElementOfSeq DEF IsFile, N
<1>4. file.chars # <<>> => N > 0
  BY <1>1, <1>2, EmptySeq DEF IsFile, N
<1> QED
  BY <1>1, <1>2, <1>3, <1>4 DEF Last, N

(* The recursion of WordsUpto, as far as n.                                *)
Sums(f, n) == f = [k \in 0..n |-> IF k = 0 THEN 0 ELSE f[k - 1] + file.chars[k].words]

LEMMA SumsExist ==
  ASSUME file \in Files, NEW n \in 0..N
  PROVE  \E f \in [0..n -> Nat] : Sums(f, n)
<1> DEFINE Has(k) == \E f \in [0..k -> Nat] : Sums(f, k)
           Fails == {k \in Nat : k <= N /\ ~Has(k)}
<1>0. N \in Nat /\ \A k \in 1..N : file.chars[k].words \in Nat
  BY FileIs
<1> HIDE DEF Has
<1>1. Has(0)
  <2>1. [k \in 0..0 |-> 0] \in [0..0 -> Nat] /\ Sums([k \in 0..0 |-> 0], 0)
    BY DEF Sums
  <2> QED
    BY <2>1 DEF Has
<1>2. ASSUME NEW k \in Nat, k < N, Has(k) PROVE Has(k + 1)
  <2>1. PICK f \in [0..k -> Nat] : Sums(f, k)
    BY <1>2 DEF Has
  <2> DEFINE g == [i \in 0..k + 1 |-> IF i <= k THEN f[i] ELSE f[k] + file.chars[k + 1].words]
  <2>2. file.chars[k + 1].words \in Nat
    BY <1>0, <1>2
  <2>3. g \in [0..k + 1 -> Nat]
    BY <2>1, <2>2
  <2>4. ASSUME NEW i \in 0..k + 1
        PROVE  g[i] = IF i = 0 THEN 0 ELSE g[i - 1] + file.chars[i].words
    <3>1. \A j \in 0..k : f[j] = IF j = 0 THEN 0 ELSE f[j - 1] + file.chars[j].words
      BY <2>1 DEF Sums
    <3>2. CASE i <= k
      BY <3>1, <3>2
    <3>3. CASE i = k + 1
      BY <3>3
    <3> QED
      BY <3>2, <3>3
  <2>5. Sums(g, k + 1)
    <3> HIDE DEF g
    <3>1. g = [i \in 0..k + 1 |-> g[i]]
      BY <2>3
    <3> QED
      BY <2>4, <3>1 DEF Sums
  <2> QED
    BY <2>3, <2>5 DEF Has
<1>3. Fails = {}
  <2> SUFFICES ASSUME Fails # {} PROVE FALSE
    OBVIOUS
  <2>1. PICK k \in Fails : \A m \in Fails : k <= m
    <3>1. Fails \subseteq Nat
      OBVIOUS
    <3> HIDE DEF Fails
    <3> QED
      BY <3>1, Least
  <2>2. k # 0
    BY <2>1, <1>1
  <2>3. k - 1 \in Nat /\ k - 1 < N /\ (k - 1) + 1 = k /\ k - 1 \notin Fails
    BY <1>0, <2>1, <2>2
  <2> QED
    BY <1>0, <2>1, <2>3, <1>2
<1>4. Has(n)
  BY <1>0, <1>3
<1> QED
  BY <1>4 DEF Has

(* What WordsUpto is: the words of one character after the other.          *)
LEMMA WordsAt ==
  ASSUME file \in Files
  PROVE  /\ WordsUpto[0] = 0
         /\ \A k \in 0..N : WordsUpto[k] \in Nat
         /\ \A k \in 1..N : WordsUpto[k] = WordsUpto[k - 1] + file.chars[k].words
<1>1. N \in Nat /\ N \in 0..N
  BY FileIs
<1>2. PICK f \in [0..N -> Nat] : Sums(f, N)
  BY <1>1, SumsExist
<1>3. Sums(WordsUpto, N)
  <2> DEFINE w == CHOOSE g : Sums(g, N)
  <2>1. Sums(w, N)
    BY <1>2
  <2>2. WordsUpto = w
    BY Zenon DEF WordsUpto, Sums, N
  <2> QED
    BY <2>1, <2>2
<1>4. \A k \in 0..N : WordsUpto[k] = IF k = 0 THEN 0 ELSE WordsUpto[k - 1] + file.chars[k].words
  BY <1>3 DEF Sums
<1> DEFINE Fails == {k \in Nat : k <= N /\ WordsUpto[k] \notin Nat}
<1>5. Fails = {}
  <2> SUFFICES ASSUME Fails # {} PROVE FALSE
    OBVIOUS
  <2>1. PICK k \in Fails : \A m \in Fails : k <= m
    <3>1. Fails \subseteq Nat
      OBVIOUS
    <3> HIDE DEF Fails
    <3> QED
      BY <3>1, Least
  <2>2. k \in 0..N /\ WordsUpto[k] \notin Nat
    BY <1>1, <2>1
  <2>3. k # 0
    BY <1>1, <1>4, <2>2
  <2>4. k - 1 \in Nat /\ k - 1 \notin Fails /\ k - 1 <= N
    BY <1>1, <2>1, <2>2, <2>3
  <2>5. WordsUpto[k - 1] \in Nat /\ file.chars[k].words \in Nat
    <3>1. k \in 1..N
      BY <1>1, <2>2, <2>3
    <3>2. file.chars[k].words \in 1..4
      BY <3>1, FileIs
    <3> QED
      BY <2>4, <3>2
  <2> QED
    BY <1>4, <2>2, <2>3, <2>5
<1>6. ASSUME NEW k \in 0..N PROVE WordsUpto[k] \in Nat
  <2>1. k \in Nat /\ k <= N
    BY <1>1
  <2> QED
    BY <1>5, <2>1
<1>7. ASSUME NEW k \in 1..N PROVE WordsUpto[k] = WordsUpto[k - 1] + file.chars[k].words
  <2>1. k \in 0..N /\ k # 0
    BY <1>1
  <2> QED
    BY <1>4, <2>1
<1>8. WordsUpto[0] = 0
  <2>1. 0 \in 0..N
    BY <1>1
  <2> QED
    BY <1>4, <2>1
<1> QED
  BY <1>6, <1>7, <1>8

(* More characters have more words.                                        *)
LEMMA WordsGrow ==
  ASSUME file \in Files, NEW i \in 0..N, NEW j \in 0..N, i < j
  PROVE  WordsUpto[i] < WordsUpto[j]
<1> DEFINE Fails == {k \in Nat : i < k /\ k <= N /\ ~(WordsUpto[i] < WordsUpto[k])}
<1>0. N \in Nat /\ \A k \in 1..N : file.chars[k].words \in 1..4
  BY FileIs
<1>1. Fails = {}
  <2> SUFFICES ASSUME Fails # {} PROVE FALSE
    OBVIOUS
  <2>1. PICK k \in Fails : \A m \in Fails : k <= m
    <3>1. Fails \subseteq Nat
      OBVIOUS
    <3> HIDE DEF Fails
    <3> QED
      BY <3>1, Least
  <2>2. /\ k \in 1..N /\ k - 1 \in 0..N /\ k - 1 \notin Fails
        /\ i < k /\ ~(WordsUpto[i] < WordsUpto[k])
    BY <1>0, <2>1
  <2>3. WordsUpto[k] = WordsUpto[k - 1] + file.chars[k].words
    BY <2>2, WordsAt
  <2>4. WordsUpto[k] \in Nat /\ WordsUpto[k - 1] \in Nat /\ WordsUpto[i] \in Nat
    BY <2>2, WordsAt
  <2>5. i = k - 1 \/ WordsUpto[i] < WordsUpto[k - 1]
    BY <1>0, <2>2
  <2> QED
    BY <1>0, <2>2, <2>3, <2>4, <2>5
<1> QED
  BY <1>0, <1>1

LEMMA FileWordsIs ==
  ASSUME file \in Files
  PROVE  FileWords \in Int /\ FileWords = WordsUpto[N] - file.cut
<1>1. WordsUpto[N] \in Nat
  BY FileIs, WordsAt
<1>2. file.cut = 0 \/ file.cut \in Int
  BY FileIs
<1> QED
  BY <1>1, <1>2 DEF FileWords, N

(* All the words there are make the whole characters, and no more.         *)
LEMMA AllWords ==
  ASSUME file \in Files, NEW d \in 0..N, WordsUpto[d] <= FileWords
  PROVE  /\ FileWords \in Int
         /\ file.cut # 0 => d < N /\ WordsUpto[d] < FileWords
         /\ WordsUpto[d] = FileWords => d = N
         /\ file.cut = 0 /\ d < N => WordsUpto[d + 1] <= FileWords
<1>0. N \in Nat /\ N \in 0..N
  BY FileIs
<1>1. WordsUpto[N] \in Nat /\ WordsUpto[d] \in Nat
  BY <1>0, WordsAt
<1>2. FileWords = WordsUpto[N] - file.cut
  BY DEF FileWords, N
<1>3. CASE file.cut = 0
  <2>1. d < N => WordsUpto[d] < WordsUpto[N]
    BY <1>0, WordsGrow
  <2>2. d < N => WordsUpto[d + 1] <= WordsUpto[N]
    <3>1. d + 1 < N => WordsUpto[d + 1] < WordsUpto[N] /\ WordsUpto[d + 1] \in Nat
      BY <1>0, WordsGrow, WordsAt
    <3> QED
      BY <1>0, <1>1, <3>1
  <2> QED
    BY <1>0, <1>1, <1>2, <1>3, <2>1, <2>2
<1>4. CASE file.cut # 0
  <2>1. N > 0 /\ file.cut \in 1..file.chars[N].words - 1 /\ file.chars[N].words \in 1..4
    BY <1>0, <1>4, FileIs
  <2>2. N \in 1..N /\ N - 1 \in 0..N
    BY <1>0, <2>1
  <2>3. WordsUpto[N] = WordsUpto[N - 1] + file.chars[N].words /\ WordsUpto[N - 1] \in Nat
    BY <2>2, WordsAt
  <2>4. d # N
    BY <1>1, <1>2, <2>1
  <2>5. d < N - 1 => WordsUpto[d] < WordsUpto[N - 1]
    BY <2>2, WordsGrow
  <2>6. WordsUpto[d] <= WordsUpto[N - 1]
    BY <1>0, <1>1, <2>2, <2>3, <2>4, <2>5
  <2> QED
    BY <1>0, <1>1, <1>2, <1>4, <2>1, <2>3, <2>4, <2>6
<1> QED
  BY <1>3, <1>4

-----------------------------------------------------------------------------
(* -------- the bytes of characters -------- *)

Run1(c) == [b \in 1..file.chars[c].width |-> c]
Pieces(cs) == [k \in DOMAIN cs |-> Run1(cs[k])]

LEMMA FunctionIsSeq ==
  ASSUME NEW S, NEW n \in Nat, NEW s \in [1..n -> S]
  PROVE  s \in Seq(S) /\ Len(s) = n
<1>1. s \in Seq(S)
  BY SeqDef
<1> QED
  BY <1>1, LenProperties

LEMMA NumbersAreSeq ==
  ASSUME NEW n \in Nat, NEW s \in Seq(1..n)
  PROVE  s \in Seq(Nat)
<1>1. Len(s) \in Nat /\ s \in [1..Len(s) -> 1..n]
  BY LenProperties
<1>2. s \in [1..Len(s) -> Nat]
  BY <1>1
<1> QED
  BY <1>1, <1>2, FunctionIsSeq

LEMMA RunIs ==
  ASSUME file \in Files, NEW c \in 1..N
  PROVE  Run1(c) \in Seq(1..N) /\ Len(Run1(c)) = file.chars[c].width /\ Len(Run1(c)) \in 1..ChMax
<1>1. file.chars[c].width \in 1..ChMax /\ ChMax \in Nat
  BY FileIs, BufsOK
<1>2. file.chars[c].width \in Nat /\ file.chars[c].width >= 1 /\ file.chars[c].width <= ChMax
  BY <1>1
<1>3. Run1(c) \in [1..file.chars[c].width -> 1..N]
  BY DEF Run1
<1> HIDE DEF Run1
<1>4. Run1(c) \in Seq(1..N) /\ Len(Run1(c)) = file.chars[c].width
  BY <1>2, <1>3, FunctionIsSeq
<1> QED
  BY <1>1, <1>4

LEMMA PiecesAre ==
  ASSUME file \in Files, NEW cs \in Seq(1..N)
  PROVE  Pieces(cs) \in Seq(Seq(1..N)) /\ Len(Pieces(cs)) = Len(cs) /\ Bytes(cs) = FlattenSeq(Pieces(cs))
<1>1. Len(cs) \in Nat /\ DOMAIN cs = 1..Len(cs) /\ \A k \in 1..Len(cs) : cs[k] \in 1..N
  BY LenProperties, ElementOfSeq
<1>2. \A k \in 1..Len(cs) : Run1(cs[k]) \in Seq(1..N)
  BY <1>1, RunIs
<1>3. Pieces(cs) \in [1..Len(cs) -> Seq(1..N)]
  BY <1>1, <1>2 DEF Pieces
<1>4. Bytes(cs) = FlattenSeq(Pieces(cs))
  BY DEF Bytes, Pieces, Run1
<1> HIDE DEF Pieces
<1>5. Pieces(cs) \in Seq(Seq(1..N)) /\ Len(Pieces(cs)) = Len(cs)
  BY <1>1, <1>3, FunctionIsSeq
<1> QED
  BY <1>4, <1>5

LEMMA BytesType ==
  ASSUME file \in Files, NEW cs \in Seq(1..N)
  PROVE  Bytes(cs) \in Seq(1..N) /\ Len(Bytes(cs)) \in Nat
<1>1. Bytes(cs) \in Seq(1..N)
  BY PiecesAre, FlattenType
<1> QED
  BY <1>1, LenProperties

LEMMA BytesNone ==
  ASSUME file \in Files
  PROVE  Bytes(<<>>) = <<>>
<1>0. <<>> \in Seq(1..N) /\ Len(<<>>) = 0
  OBVIOUS
<1>1. Bytes(<<>>) = FlattenSeq(Pieces(<<>>)) /\ Len(Pieces(<<>>)) = 0 /\ Pieces(<<>>) \in Seq(Seq(1..N))
  <2> DEFINE none == <<>>
  <2>1. none \in Seq(1..N) /\ Len(none) = 0
    BY <1>0
  <2> HIDE DEF none
  <2>2. Bytes(none) = FlattenSeq(Pieces(none)) /\ Len(Pieces(none)) = 0 /\ Pieces(none) \in Seq(Seq(1..N))
    BY <2>1, PiecesAre
  <2> QED
    BY <2>2 DEF none
<1>2. Pieces(<<>>) = <<>>
  BY <1>1, EmptySeq
<1> QED
  BY <1>1, <1>2, FlattenEmpty

LEMMA BytesAppend ==
  ASSUME file \in Files, NEW cs \in Seq(1..N), NEW c \in 1..N
  PROVE  /\ Append(cs, c) \in Seq(1..N)
         /\ Bytes(Append(cs, c)) = Bytes(cs) \o Run1(c)
         /\ Len(Bytes(Append(cs, c))) = Len(Bytes(cs)) + file.chars[c].width
<1>1. /\ Append(cs, c) \in Seq(1..N) /\ Len(Append(cs, c)) = Len(cs) + 1 /\ Len(cs) \in Nat
      /\ \A k \in 1..Len(cs) : Append(cs, c)[k] = cs[k]
      /\ Append(cs, c)[Len(cs) + 1] = c
  BY AppendProperties, LenProperties
<1>2. Run1(c) \in Seq(1..N) /\ Len(Run1(c)) = file.chars[c].width
  BY RunIs
<1>3. Pieces(Append(cs, c)) = Append(Pieces(cs), Run1(c))
  <2> DEFINE p == Pieces(Append(cs, c))
             q == Append(Pieces(cs), Run1(c))
  <2>1. p \in Seq(Seq(1..N)) /\ Len(p) = Len(cs) + 1
    BY <1>1, PiecesAre
  <2>2. /\ Pieces(cs) \in Seq(Seq(1..N)) /\ Len(Pieces(cs)) = Len(cs)
    BY PiecesAre
  <2>3. /\ q \in Seq(Seq(1..N)) /\ Len(q) = Len(cs) + 1
        /\ \A k \in 1..Len(cs) : q[k] = Pieces(cs)[k]
        /\ q[Len(cs) + 1] = Run1(c)
    BY <1>2, <2>2, AppendProperties
  <2>4. ASSUME NEW k \in 1..Len(cs) + 1 PROVE p[k] = q[k]
    <3>1. p[k] = Run1(Append(cs, c)[k])
      BY <1>1, LenProperties DEF Pieces
    <3>2. CASE k = Len(cs) + 1
      BY <1>1, <2>3, <3>1, <3>2
    <3>3. CASE k # Len(cs) + 1
      <4>1. k \in 1..Len(cs)
        BY <1>1, <3>3
      <4>2. Pieces(cs)[k] = Run1(cs[k])
        BY <4>1, LenProperties DEF Pieces
      <4> HIDE DEF p, q
      <4> QED
        BY <1>1, <2>3, <3>1, <4>1, <4>2
    <3> QED
      BY <3>2, <3>3
  <2> HIDE DEF p, q
  <2>5. p = q
    BY <2>1, <2>3, <2>4, SeqEqual
  <2> QED
    BY <2>5 DEF p, q
<1>4. Pieces(cs) \in Seq(Seq(1..N)) /\ Bytes(cs) = FlattenSeq(Pieces(cs))
  BY PiecesAre
<1>5. Bytes(Append(cs, c)) = FlattenSeq(Pieces(Append(cs, c)))
  BY <1>1, PiecesAre
<1>6. Bytes(Append(cs, c)) = Bytes(cs) \o Run1(c)
  BY <1>2, <1>3, <1>4, <1>5, FlattenAppend
<1>7. Len(Bytes(cs) \o Run1(c)) = Len(Bytes(cs)) + Len(Run1(c))
  BY <1>2, BytesType, ConcatProperties
<1> QED
  BY <1>1, <1>2, <1>6, <1>7

(* The characters behind the a-th, one more.                               *)
LEMMA CharsAre ==
  ASSUME NEW a \in Nat, NEW n \in Nat, NEW m \in Nat, a + n <= m
  PROVE  /\ Chars(a, n) \in Seq(1..m) /\ Chars(a, n) \in Seq(Nat) /\ Len(Chars(a, n)) = n
         /\ \A k \in 1..n : Chars(a, n)[k] = a + k
         /\ n = 0 => Chars(a, n) = <<>>
         /\ n > 0 => Chars(a, n) = Append(Chars(a, n - 1), a + n)
         /\ \A j \in 0..n : SubSeq(Chars(a, n), 1, j) = Chars(a, j)
<1>1. \A i \in 0..n : /\ Chars(a, i) \in Seq(1..m) /\ Chars(a, i) \in Seq(Nat) /\ Len(Chars(a, i)) = i
                      /\ \A k \in 1..i : Chars(a, i)[k] = a + k
  <2> SUFFICES ASSUME NEW i \in 0..n
               PROVE  /\ Chars(a, i) \in Seq(1..m) /\ Chars(a, i) \in Seq(Nat) /\ Len(Chars(a, i)) = i
                      /\ \A k \in 1..i : Chars(a, i)[k] = a + k
    OBVIOUS
  <2>1. Chars(a, i) \in [1..i -> 1..m] /\ Chars(a, i) \in [1..i -> Nat] /\ i \in Nat
    BY DEF Chars
  <2>2. \A k \in 1..i : Chars(a, i)[k] = a + k
    BY DEF Chars
  <2> HIDE DEF Chars
  <2> QED
    BY <2>1, <2>2, SeqDef, LenProperties
<1> HIDE DEF Chars
<1>2. n = 0 => Chars(a, n) = <<>>
  BY <1>1, EmptySeq
<1>3. ASSUME n > 0 PROVE Chars(a, n) = Append(Chars(a, n - 1), a + n)
  <2>1. n - 1 \in 0..n /\ n \in 0..n /\ a + n \in 1..m
    BY <1>3
  <2> DEFINE p == Append(Chars(a, n - 1), a + n)
  <2>2. /\ p \in Seq(1..m) /\ Len(p) = n /\ p[n] = a + n
        /\ \A k \in 1..n - 1 : p[k] = a + k
    <3> DEFINE c == Chars(a, n - 1)
               e == a + n
    <3>1. c \in Seq(1..m) /\ Len(c) = n - 1 /\ e \in 1..m /\ \A k \in 1..n - 1 : c[k] = a + k
      BY <1>1, <2>1
    <3> HIDE DEF c, e
    <3>2. /\ Append(c, e) \in Seq(1..m) /\ Len(Append(c, e)) = (n - 1) + 1
          /\ Append(c, e)[(n - 1) + 1] = e /\ \A k \in 1..n - 1 : Append(c, e)[k] = c[k]
      BY <3>1, AppendProperties
    <3>3. (n - 1) + 1 = n
      OBVIOUS
    <3> QED
      BY <3>1, <3>2, <3>3 DEF c, e
  <2> HIDE DEF p
  <2>3. \A k \in 1..n : p[k] = Chars(a, n)[k]
    <3> SUFFICES ASSUME NEW k \in 1..n PROVE p[k] = Chars(a, n)[k]
      OBVIOUS
    <3>1. k = n \/ k \in 1..n - 1
      BY <2>1
    <3> QED
      BY <1>1, <2>1, <2>2, <3>1
  <2>4. Chars(a, n) = p
    BY <1>1, <2>1, <2>2, <2>3, SeqEqual
  <2> QED
    BY <2>4 DEF p
<1>4. ASSUME NEW j \in 0..n PROVE SubSeq(Chars(a, n), 1, j) = Chars(a, j)
  <2> DEFINE p == SubSeq(Chars(a, n), 1, j)
  <2>1. n \in 0..n /\ j \in 0..n
    OBVIOUS
  <2>2. p \in Seq(1..m) /\ Len(p) = j /\ \A k \in 1..j : p[k] = Chars(a, n)[k]
    BY <1>1, <2>1, SubSeqProperties
  <2> HIDE DEF p
  <2>3. \A k \in 1..j : p[k] = Chars(a, j)[k]
    <3> SUFFICES ASSUME NEW k \in 1..j PROVE p[k] = Chars(a, j)[k]
      OBVIOUS
    <3>1. k \in 1..n
      OBVIOUS
    <3>2. Chars(a, n)[k] = a + k /\ Chars(a, j)[k] = a + k
      BY <1>1, <2>1, <3>1
    <3> QED
      BY <2>2, <3>2
  <2>4. p = Chars(a, j)
    BY <1>1, <2>1, <2>2, <2>3, SeqEqual
  <2> QED
    BY <2>4 DEF p
<1>5. n \in 0..n
  OBVIOUS
<1> QED
  BY <1>1, <1>2, <1>3, <1>4, <1>5

(* The bytes of the first a characters, and of the n behind them.          *)
LEMMA BytesSplit ==
  ASSUME file \in Files, NEW a \in Nat, NEW n \in Nat, a + n <= N
  PROVE  Bytes(Chars(0, a)) \o Bytes(Chars(a, n)) = Bytes(Chars(0, a + n))
<1>0. N \in Nat
  BY FileIs
<1> DEFINE Fits2(k) == Bytes(Chars(0, a)) \o Bytes(Chars(a, k)) = Bytes(Chars(0, a + k))
           Fails == {k \in Nat : k <= n /\ ~Fits2(k)}
<1> HIDE DEF Fits2
<1>1. Bytes(Chars(0, a)) \in Seq(1..N)
  BY <1>0, CharsAre, BytesType
<1>2. Fits2(0)
  <2>1. Chars(a, 0) = <<>>
    BY <1>0, CharsAre
  <2>2. Bytes(Chars(0, a)) \o <<>> = Bytes(Chars(0, a)) /\ a + 0 = a
    BY <1>1, ConcatEmptySeq
  <2> QED
    BY <2>1, <2>2, BytesNone DEF Fits2
<1>3. ASSUME NEW k \in Nat, k > 0, k <= n, Fits2(k - 1) PROVE Fits2(k)
  <2>1. a + k \in 1..N /\ a + (k - 1) = a + k - 1 /\ k - 1 \in Nat /\ a + k \in Nat /\ a + k > 0 /\ a + (k - 1) \in Nat
    BY <1>0, <1>3
  <2>2. Chars(a, k) = Append(Chars(a, k - 1), a + k) /\ Chars(a, k - 1) \in Seq(1..N)
    BY <1>0, <1>3, <2>1, CharsAre
  <2>3. Chars(0, a + k) = Append(Chars(0, a + k - 1), a + k) /\ Chars(0, a + k - 1) \in Seq(1..N)
    <3>1. 0 + (a + k) <= N /\ 0 + (a + k) = a + k /\ 0 \in Nat /\ a + k - 1 \in Nat /\ 0 + (a + k - 1) <= N
      BY <1>0, <2>1
    <3> QED
      BY <1>0, <2>1, <3>1, CharsAre
  <2>4. Bytes(Chars(a, k)) = Bytes(Chars(a, k - 1)) \o Run1(a + k)
    BY <2>1, <2>2, BytesAppend
  <2>5. Bytes(Chars(0, a + k)) = Bytes(Chars(0, a + k - 1)) \o Run1(a + k)
    BY <2>1, <2>3, BytesAppend
  <2>6. Bytes(Chars(a, k - 1)) \in Seq(1..N) /\ Run1(a + k) \in Seq(1..N)
    BY <2>1, <2>2, BytesType, RunIs
  <2>7. Bytes(Chars(0, a)) \o Bytes(Chars(a, k - 1)) = Bytes(Chars(0, a + k - 1))
    BY <1>3, <2>1 DEF Fits2
  <2>8. Bytes(Chars(0, a)) \o (Bytes(Chars(a, k - 1)) \o Run1(a + k))
          = (Bytes(Chars(0, a)) \o Bytes(Chars(a, k - 1))) \o Run1(a + k)
    <3> DEFINE x == Bytes(Chars(0, a))
               y == Bytes(Chars(a, k - 1))
               z == Run1(a + k)
    <3>1. x \in Seq(1..N) /\ y \in Seq(1..N) /\ z \in Seq(1..N)
      BY <1>1, <2>6
    <3> HIDE DEF x, y, z
    <3>2. (x \o y) \o z = x \o (y \o z)
      BY <3>1, Associative
    <3> QED
      BY <3>2 DEF x, y, z
  <2> QED
    BY <2>4, <2>5, <2>7, <2>8 DEF Fits2
<1>4. Fails = {}
  <2> SUFFICES ASSUME Fails # {} PROVE FALSE
    OBVIOUS
  <2>1. PICK k \in Fails : \A m \in Fails : k <= m
    <3>1. Fails \subseteq Nat
      OBVIOUS
    <3> HIDE DEF Fails
    <3> QED
      BY <3>1, Least
  <2>2. k > 0 /\ k \in Nat /\ k <= n
    BY <1>2, <2>1
  <2>3. k - 1 \in Nat /\ k - 1 \notin Fails /\ k - 1 <= n
    BY <2>1, <2>2
  <2> QED
    BY <1>3, <2>1, <2>2, <2>3
<1>5. Fits2(n)
  BY <1>4
<1> QED
  BY <1>5 DEF Fits2

(* A character has at most ChMax bytes.                                    *)
LEMMA BytesBound ==
  ASSUME file \in Files, NEW a \in Nat, NEW n \in Nat, a + n <= N
  PROVE  /\ Len(Bytes(Chars(a, n))) \in Nat
         /\ Len(Bytes(Chars(a, n))) <= WchSiz * n
         /\ n = 1 => Len(Bytes(Chars(a, n))) = file.chars[a + 1].width
         /\ n > 0 => Len(Bytes(Chars(a, n))) > 0
<1>0. N \in Nat /\ WchSiz \in Nat /\ ChMax \in Nat /\ ChMax <= WchSiz
  BY FileIs, BufsOK
<1> DEFINE B(k) == Len(Bytes(Chars(a, k)))
           Fails == {k \in Nat : k <= n /\ ~(B(k) <= WchSiz * k)}
<1>1. \A k \in 0..n : B(k) \in Nat
  BY <1>0, CharsAre, BytesType
<1>2. B(0) = 0
  BY <1>0, CharsAre, BytesNone, EmptySeq
<1>3. ASSUME NEW k \in 1..n PROVE B(k) = B(k - 1) + file.chars[a + k].width /\ file.chars[a + k].width \in 1..ChMax
  <2>1. k - 1 \in Nat /\ a + k \in 1..N /\ k \in Nat /\ k > 0 /\ a + k <= N /\ a + (k - 1) <= N
    BY <1>0
  <2>2. Chars(a, k) = Append(Chars(a, k - 1), a + k) /\ Chars(a, k - 1) \in Seq(1..N)
    BY <1>0, <2>1, CharsAre
  <2> QED
    BY <2>1, <2>2, BytesAppend, FileIs
<1> HIDE DEF B
<1>4. Fails = {}
  <2> SUFFICES ASSUME Fails # {} PROVE FALSE
    OBVIOUS
  <2>1. PICK k \in Fails : \A m \in Fails : k <= m
    <3>1. Fails \subseteq Nat
      OBVIOUS
    <3> HIDE DEF Fails
    <3> QED
      BY <3>1, Least
  <2>2. k \in 1..n
    BY <1>0, <1>2, <2>1
  <2>3. k - 1 \in Nat /\ k - 1 \notin Fails /\ k - 1 \in 0..n
    BY <2>1, <2>2
  <2>4. B(k - 1) <= WchSiz * (k - 1)
    BY <2>3
  <2>5. WchSiz * k = WchSiz * (k - 1) + WchSiz /\ WchSiz * (k - 1) \in Nat
    BY <1>0, <2>2, <2>3
  <2>6. B(k) = B(k - 1) + file.chars[a + k].width /\ file.chars[a + k].width <= WchSiz
        /\ file.chars[a + k].width \in Nat /\ B(k - 1) \in Nat
    BY <1>0, <1>1, <1>3, <2>2, <2>3
  <2>7. B(k) <= WchSiz * k
    <3> DEFINE b == WchSiz * (k - 1)
               c == WchSiz * k
               w == file.chars[a + k].width
    <3>1. B(k - 1) <= b /\ c = b + WchSiz /\ b \in Nat /\ B(k) = B(k - 1) + w /\ w <= WchSiz
          /\ w \in Nat /\ B(k - 1) \in Nat
      BY <2>4, <2>5, <2>6
    <3> HIDE DEF b, c, w
    <3>2. B(k) <= c
      BY <1>0, <3>1
    <3> QED
      BY <3>2 DEF c
  <2> QED
    BY <2>1, <2>7
<1>5. B(n) <= WchSiz * n /\ B(n) \in Nat
  BY <1>1, <1>4
<1>6. n > 0 => B(n) > 0
  <2> SUFFICES ASSUME n > 0 PROVE B(n) > 0
    OBVIOUS
  <2>1. n \in 1..n /\ n - 1 \in 0..n
    OBVIOUS
  <2>2. B(n) = B(n - 1) + file.chars[a + n].width /\ file.chars[a + n].width \in 1..ChMax /\ B(n - 1) \in Nat
    BY <1>1, <1>3, <2>1
  <2> QED
    BY <1>0, <2>2
<1>7. n = 1 => B(n) = file.chars[a + 1].width
  <2> SUFFICES ASSUME n = 1 PROVE B(n) = file.chars[a + 1].width
    OBVIOUS
  <2>1. 1 \in 1..n /\ 1 - 1 = 0
    OBVIOUS
  <2>2. B(1) = B(0) + file.chars[a + 1].width /\ file.chars[a + 1].width \in 1..ChMax
    BY <1>3, <2>1
  <2> QED
    BY <1>0, <1>2, <2>2
<1> QED
  BY <1>5, <1>6, <1>7 DEF B

LEMMA CharsType ==
  ASSUME NEW a \in Nat, NEW n \in Nat
  PROVE  Chars(a, n) \in Seq(Nat) /\ Len(Chars(a, n)) = n
<1>1. a + n \in Nat /\ a + n <= a + n
  OBVIOUS
<1> QED
  BY <1>1, CharsAre

(* The n characters behind the first a, with m more behind them.           *)
LEMMA CharsJoin ==
  ASSUME NEW a \in Nat, NEW n \in Nat, NEW m \in Nat
  PROVE  Chars(a, n) \o Chars(a + n, m) = Chars(a, n + m)
<1>1. /\ Chars(a, n) \in Seq(Nat) /\ Len(Chars(a, n)) = n
      /\ \A k \in 1..n : Chars(a, n)[k] = a + k
  <2>1. a + n \in Nat /\ a + n <= a + n
    OBVIOUS
  <2> QED
    BY <2>1, CharsAre
<1>2. /\ Chars(a + n, m) \in Seq(Nat) /\ Len(Chars(a + n, m)) = m
      /\ \A k \in 1..m : Chars(a + n, m)[k] = (a + n) + k
  <2>1. a + n \in Nat /\ (a + n) + m \in Nat /\ (a + n) + m <= (a + n) + m
    OBVIOUS
  <2> QED
    BY <2>1, CharsAre
<1>3. /\ Chars(a, n + m) \in Seq(Nat) /\ Len(Chars(a, n + m)) = n + m
      /\ \A k \in 1..n + m : Chars(a, n + m)[k] = a + k
  <2>1. n + m \in Nat /\ a + (n + m) \in Nat /\ a + (n + m) <= a + (n + m)
    OBVIOUS
  <2> QED
    BY <2>1, CharsAre
<1> DEFINE x == Chars(a, n)
           y == Chars(a + n, m)
           z == Chars(a, n + m)
<1> HIDE DEF x, y, z
<1>4. x \in Seq(Nat) /\ Len(x) = n /\ \A k \in 1..n : x[k] = a + k
  BY <1>1 DEF x
<1>5. y \in Seq(Nat) /\ Len(y) = m /\ \A k \in 1..m : y[k] = (a + n) + k
  BY <1>2 DEF y
<1>6. z \in Seq(Nat) /\ Len(z) = n + m /\ \A k \in 1..n + m : z[k] = a + k
  BY <1>3 DEF z
<1>7. /\ x \o y \in Seq(Nat) /\ Len(x \o y) = n + m
      /\ \A k \in 1..n + m : (x \o y)[k] = IF k <= n THEN x[k] ELSE y[k - n]
  <2>1. x \in Seq(Nat) /\ y \in Seq(Nat) /\ Len(x) = n /\ Len(y) = m
    BY <1>4, <1>5
  <2>2. /\ x \o y \in Seq(Nat) /\ Len(x \o y) = Len(x) + Len(y)
        /\ \A k \in 1..Len(x) + Len(y) : (x \o y)[k] = IF k <= Len(x) THEN x[k] ELSE y[k - Len(x)]
    BY <2>1, ConcatProperties
  <2> QED
    BY <2>1, <2>2
<1>8. ASSUME NEW k \in 1..n + m PROVE (x \o y)[k] = z[k]
  <2>1. CASE k <= n
    BY <1>4, <1>6, <1>7, <2>1
  <2>2. CASE ~(k <= n)
    <3>1. k - n \in 1..m /\ (a + n) + (k - n) = a + k
      BY <2>2
    <3> QED
      BY <1>5, <1>6, <1>7, <2>2, <3>1
  <2> QED
    BY <2>1, <2>2
<1>9. x \o y = z
  BY <1>6, <1>7, <1>8, SeqEqual
<1> QED
  BY <1>9 DEF x, y, z

-----------------------------------------------------------------------------
(* -------- the room for them -------- *)

LEMMA Divides ==
  ASSUME NEW x \in Nat, NEW m \in Nat, m > 0
  PROVE  x \div m \in Nat /\ m * (x \div m) <= x /\ x < m * (x \div m) + m
  OBVIOUS

LEMMA Quotient ==
  ASSUME NEW q \in Nat, NEW m \in Nat, m > 0
  PROVE  (q * m) \div m = q
  OBVIOUS

(* The decoded words begin behind the bytes, and as many are asked for as  *)
(* there is room for; there is room for one.                               *)
LEMMA RoomFor ==
  ASSUME Len0 \in Nat, Len0 <= BufSiz
  PROVE  /\ InPlaceAt \in Nat /\ Len0 <= InPlaceAt
         /\ Wanted \in Nat /\ Wanted > 0
         /\ InPlace => WchSiz * Wanted <= BufSiz - InPlaceAt
         /\ ~InPlace => Wanted = 1
<1>0. WchSiz \in Nat /\ WchSiz > 0 /\ BufSiz \in Nat /\ ChMax \in Nat /\ ChMax > 0 /\ BufSiz % WchSiz = 0
  BY BufsOK
<1> DEFINE m == WchSiz
           p == (Len0 + m - 1) \div m
           q == BufSiz \div m
<1>1. Len0 + m - 1 \in Nat
  BY <1>0
<1>2. p \in Nat /\ Len0 + m - 1 < m * p + m
  BY <1>0, <1>1, Divides
<1>3. InPlaceAt = p * m
  BY DEF InPlaceAt, Roundup
<1>4. q \in Nat /\ BufSiz = q * m
  BY <1>0, Divides
<1> HIDE DEF m, p, q
<1>5. p * m \in Nat /\ m * p = p * m /\ m \in Nat
  BY <1>0, <1>2 DEF m
<1>6. InPlaceAt \in Nat /\ Len0 <= InPlaceAt
  BY <1>0, <1>2, <1>3, <1>5
<1>7. ASSUME InPlace
      PROVE  Wanted \in Nat /\ Wanted > 0 /\ WchSiz * Wanted <= BufSiz - InPlaceAt
  <2>1. p * m < q * m
    BY <1>0, <1>3, <1>4, <1>5, <1>7 DEF InPlace
  <2>2. p < q
    <3>1. p >= q => p * m >= q * m
      BY <1>2, <1>4, <1>5
    <3> QED
      BY <1>2, <1>4, <1>5, <2>1, <3>1
  <2>3. BufSiz - InPlaceAt = (q - p) * m /\ q - p \in Nat
    BY <1>2, <1>3, <1>4, <1>5, <2>2
  <2>4. Wanted = ((q - p) * m) \div m
    BY <1>7, <2>3 DEF Wanted, m
  <2>5. Wanted = q - p
    BY <1>0, <2>3, <2>4, Quotient DEF m
  <2>6. WchSiz * Wanted = BufSiz - InPlaceAt
    BY <1>5, <2>3, <2>5 DEF m
  <2> QED
    BY <1>0, <1>2, <1>4, <1>6, <2>2, <2>5, <2>6
<1>8. ~InPlace => Wanted = 1
  BY DEF Wanted
<1> QED
  BY <1>6, <1>7, <1>8

-----------------------------------------------------------------------------
(* -------- what a round of the decoder finds -------- *)

Read4(u) ==
  /\ u.read \in Nat /\ u.decoded = inp.decoded /\ u.wch_buffered = inp.wch_buffered
  /\ WordsUpto[u.decoded] <= u.read /\ u.read <= FileWords
  /\ u.read <= WordsUpto[u.decoded] + WrdBuf
  /\ u.is_eof \in {-1, 0, 1}
  /\ u.is_eof = 1 => u.read = FileWords /\ u.read < WordsUpto[u.decoded] + 4
  /\ u.is_eof < 0 => file.fails
  /\ u.is_eof >= 0 => u.read = FileWords \/ u.read >= WordsUpto[u.decoded] + 4

LEMMA RawFilledIs ==
  ASSUME Typed, Words, NEW u \in RawFilled
  PROVE  /\ Read4(u)
         /\ u \in [read : Nat, decoded : Nat, is_eof : {-1, 0, 1}, wch_buffered : Nat]
<1>0. /\ file \in Files /\ inp.read \in Nat /\ inp.decoded \in 0..N /\ inp.is_eof \in {0, 1}
      /\ inp \in [read : Nat, decoded : Nat, is_eof : {0, 1}, wch_buffered : Nat]
  BY FileIs DEF Typed, Words, N
<1>1. WordsUpto[inp.decoded] \in Nat /\ WrdBuf \in Nat /\ WrdBuf >= 4
  BY <1>0, WordsAt, BufsOK
<1>2. /\ WordsUpto[inp.decoded] <= inp.read /\ inp.read <= FileWords
      /\ inp.read <= WordsUpto[inp.decoded] + WrdBuf
      /\ inp.is_eof = 1 => inp.read = FileWords /\ inp.read < WordsUpto[inp.decoded] + 4
  BY DEF Words
<1>3. FileWords \in Int
  BY <1>0, FileWordsIs
<1> DEFINE w == WordsUpto[inp.decoded]
           rest == FileWords - inp.read
           room == WrdBuf - (inp.read - w)
           rc == IF rest < room THEN rest ELSE room
<1>4. RawRoom = room /\ n_wrds(inp) = inp.read - w
  BY DEF RawRoom, n_wrds
<1>5. CASE ~TooFewWords \/ inp.is_eof # 0
  <2>1. u = inp
    BY <1>5 DEF RawFilled
  <2>2. ~(inp.read - w < 4) \/ inp.is_eof = 1
    BY <1>0, <1>4, <1>5 DEF TooFewWords
  <2> QED
    BY <1>0, <1>1, <1>2, <1>3, <2>1, <2>2 DEF Read4
<1>6. CASE TooFewWords /\ inp.is_eof = 0
  <2>1. inp.read < w + 4 /\ room \in Nat /\ room > 0 /\ rest \in Nat /\ rc \in Nat
    BY <1>0, <1>1, <1>2, <1>3, <1>4, <1>6 DEF TooFewWords
  <2>2. \/ u = [inp EXCEPT !.read = @ + rc, !.is_eof = IF rc = 0 THEN 1 ELSE 0]
        \/ file.fails /\ u = [inp EXCEPT !.is_eof = -1]
    BY <1>4, <1>6 DEF RawFilled
  <2>3. CASE u = [inp EXCEPT !.read = @ + rc, !.is_eof = IF rc = 0 THEN 1 ELSE 0]
    <3> HIDE DEF rc
    <3>1. /\ u.read = inp.read + rc /\ u.decoded = inp.decoded /\ u.wch_buffered = inp.wch_buffered
          /\ u.is_eof = IF rc = 0 THEN 1 ELSE 0
          /\ u \in [read : Nat, decoded : Nat, is_eof : {-1, 0, 1}, wch_buffered : Nat]
      <4>1. inp.read + rc \in Nat
        BY <1>0, <2>1
      <4> DEFINE x == inp.read + rc
                 y == IF rc = 0 THEN 1 ELSE 0
      <4>2. x \in Nat /\ y \in {-1, 0, 1} /\ u = [inp EXCEPT !.read = x, !.is_eof = y]
        BY <2>3, <4>1
      <4> HIDE DEF x, y
      <4>3. u = [read |-> x, decoded |-> inp.decoded, is_eof |-> y, wch_buffered |-> inp.wch_buffered]
        BY <1>0, <4>2
      <4>4. inp.decoded \in Nat /\ inp.wch_buffered \in Nat
        BY <1>0
      <4> QED
        BY <4>2, <4>3, <4>4 DEF x, y
    <3>2. rc = rest \/ rc = room
      BY <2>1 DEF rc
    <3>3. rc <= rest /\ rc <= room
      BY <2>1 DEF rc
    <3>4. u.read = FileWords \/ u.read = w + WrdBuf
      BY <1>0, <1>1, <1>3, <3>1, <3>2
    <3>5. rc = 0 => u.read = FileWords /\ u.read < w + 4
      BY <1>0, <1>1, <1>3, <2>1, <3>1, <3>2
    <3>6. w <= u.read /\ u.read <= FileWords /\ u.read <= w + WrdBuf /\ u.read \in Nat
      BY <1>0, <1>1, <1>2, <1>3, <2>1, <3>1, <3>3
    <3>7. u.is_eof \in {0, 1} /\ (u.is_eof = 1 => rc = 0)
      BY <3>1
    <3> QED
      BY <1>1, <3>1, <3>4, <3>5, <3>6, <3>7 DEF Read4
  <2>4. CASE file.fails /\ u = [inp EXCEPT !.is_eof = -1]
    <3>1. /\ u.read = inp.read /\ u.decoded = inp.decoded /\ u.wch_buffered = inp.wch_buffered
          /\ u.is_eof = -1
          /\ u \in [read : Nat, decoded : Nat, is_eof : {-1, 0, 1}, wch_buffered : Nat]
      BY <1>0, <2>4
    <3> QED
      BY <1>0, <1>2, <2>4, <3>1 DEF Read4
  <2> QED
    BY <2>2, <2>3, <2>4
<1> QED
  BY <1>0, <1>5, <1>6

(* The number of whole characters among the words.                         *)
LEMMA DecodableIs ==
  ASSUME file \in Files, NEW u, u.read \in Nat, u.decoded \in 0..N,
         WordsUpto[u.decoded] <= u.read, NEW max \in Nat
  PROVE  /\ Decodable(u, max) \in 0..max /\ u.decoded + Decodable(u, max) <= N
         /\ WordsUpto[u.decoded + Decodable(u, max)] <= u.read
         /\ Decodable(u, max) = 0 /\ max > 0 /\ u.decoded < N =>
              ~(WordsUpto[u.decoded + 1] <= u.read)
<1> DEFINE ns == {n \in 0..max : u.decoded + n <= N /\ WordsUpto[u.decoded + n] <= u.read}
           d == CHOOSE n \in ns : \A m \in ns : m <= n
<1>1. Decodable(u, max) = d
  BY DEF Decodable, N
<1>2. ns \subseteq 0..max
  OBVIOUS
<1>3. 0 \in ns
  <2>1. u.decoded + 0 = u.decoded /\ 0 \in 0..max /\ N \in Nat
    BY FileIs
  <2> QED
    BY <2>1
<1>4. d \in ns /\ \A m \in ns : m <= d
  <2> HIDE DEF ns
  <2>1. \E n \in ns : \A m \in ns : m <= n
    BY <1>2, <1>3, Greatest
  <2> QED
    BY <2>1
<1>5. max > 0 /\ u.decoded < N /\ WordsUpto[u.decoded + 1] <= u.read => 1 \in ns
  BY FileIs
<1> QED
  BY <1>1, <1>4, <1>5

(* The decoder that is not at the end finds a whole character, unless the  *)
(* file is cut within it.                                                  *)
LEMMA CutOnly ==
  ASSUME Typed, Words, NEW u \in RawFilled, u.is_eof >= 0, n_wrds(u) > 0, Decodable(u, 1) = 0
  PROVE  file.cut > 0
<1>0. /\ file \in Files /\ inp.decoded \in 0..N /\ N \in Nat
  BY FileIs DEF Typed, Words, N
<1>1. Read4(u)
  BY RawFilledIs
<1>2. /\ u.read \in Nat /\ u.decoded \in 0..N /\ WordsUpto[u.decoded] <= u.read /\ u.read <= FileWords
      /\ u.read = FileWords \/ u.read >= WordsUpto[u.decoded] + 4
  BY <1>0, <1>1 DEF Read4
<1>3. WordsUpto[u.decoded] \in Nat /\ u.read > WordsUpto[u.decoded]
  BY <1>0, <1>2, WordsAt DEF n_wrds
<1>4. /\ FileWords \in Int /\ WordsUpto[u.decoded] <= FileWords
      /\ file.cut = 0 /\ u.decoded < N => WordsUpto[u.decoded + 1] <= FileWords
      /\ file.cut # 0 => u.decoded < N
  <2>1. WordsUpto[u.decoded] <= FileWords
    <3>1. FileWords \in Int
      BY <1>0, FileWordsIs
    <3> QED
      BY <1>2, <1>3, <3>1
  <2> QED
    BY <1>0, <1>2, <2>1, AllWords
<1>5. SUFFICES ASSUME ~(file.cut > 0) PROVE FALSE
  OBVIOUS
<1>6. file.cut = 0
  <2>1. file.cut # 0 => file.cut > 0
    BY <1>0, FileIs
  <2> QED
    BY <1>5, <2>1
<1>7. u.decoded < N
  <2>1. u.decoded = N => WordsUpto[u.decoded] = FileWords
    <3>1. FileWords = WordsUpto[N] - 0 /\ WordsUpto[N] \in Nat
      BY <1>0, <1>6, WordsAt DEF FileWords, N
    <3> QED
      BY <3>1
  <2>2. WordsUpto[u.decoded] # FileWords
    BY <1>2, <1>3, <1>4
  <2> QED
    BY <1>0, <1>2, <2>1, <2>2
<1>8. WordsUpto[u.decoded + 1] <= u.read
  <2>1. CASE u.read = FileWords
    BY <1>4, <1>6, <1>7, <2>1
  <2>2. CASE u.read >= WordsUpto[u.decoded] + 4
    <3>1. u.decoded + 1 \in 1..N /\ (u.decoded + 1) - 1 = u.decoded
      BY <1>0, <1>2, <1>7
    <3>2. /\ WordsUpto[u.decoded + 1] = WordsUpto[u.decoded] + file.chars[u.decoded + 1].words
          /\ file.chars[u.decoded + 1].words \in 1..4
      BY <1>0, <3>1, WordsAt, FileIs
    <3> QED
      BY <1>2, <1>3, <2>2, <3>2
  <2> QED
    BY <1>2, <2>1, <2>2
<1>9. 1 \in Nat /\ 1 > 0
  OBVIOUS
<1> QED
  BY <1>0, <1>2, <1>7, <1>8, <1>9, DecodableIs

-----------------------------------------------------------------------------
(* -------- the invariant -------- *)

(* What depends on the file alone keeps its value.                         *)
LEMMA SameFile ==
  ASSUME file' = file
  PROVE  /\ WordsUpto' = WordsUpto /\ FileWords' = FileWords /\ N' = N
         /\ \A cs : Bytes(cs)' = Bytes(cs)
  BY DEF WordsUpto, FileWords, N, Bytes

LEMMA SameRaw ==
  ASSUME raw' = raw
  PROVE  Len0' = Len0 /\ (InPlace' <=> InPlace) /\ Wanted' = Wanted
  BY DEF Len0, InPlace, InPlaceAt, Wanted, Roundup

LEMMA Basics ==
  ASSUME IInv
  PROVE  /\ file \in Files /\ N \in Nat /\ inp.decoded \in 0..N /\ inp.decoded \in Nat
         /\ inp.read \in Nat /\ inp.wch_buffered \in Nat /\ inp.is_eof \in {0, 1}
         /\ WordsUpto[inp.decoded] \in Nat /\ FileWords \in Int
         /\ Len0 \in Nat /\ Len0 <= BufSiz /\ BufSiz \in Nat
         /\ call.len0 \in Nat /\ call.req \in Nat /\ call.want \in Nat
         /\ call.got \in Seq(Nat) /\ Len(call.got) \in Nat
<1>1. Typed /\ Words /\ Room
  BY DEF IInv
<1>2. file \in Files /\ inp \in [read : Nat, decoded : Nat, is_eof : {0, 1}, wch_buffered : Nat]
      /\ raw \in Seq(Nat)
      /\ call \in [req : Nat, at0 : Nat, len0 : Nat, want : Nat, got : Seq(Nat)]
  BY <1>1 DEF Typed
<1>3. N \in Nat /\ inp.decoded <= N /\ FileWords \in Int
  BY <1>1, <1>2, FileIs, FileWordsIs DEF Words, N
<1>4. inp.decoded \in 0..N
  BY <1>2, <1>3
<1>5. WordsUpto[inp.decoded] \in Nat
  BY <1>2, <1>4, WordsAt
<1>6. Len0 \in Nat /\ Len0 <= BufSiz /\ BufSiz \in Nat
  BY <1>1, <1>2, LenProperties, BufsOK DEF Len0, Room
<1>7. call.got \in Seq(Nat) /\ Len(call.got) \in Nat
  BY <1>2, LenProperties
<1> QED
  BY <1>2, <1>3, <1>4, <1>5, <1>6, <1>7

(* A step that decodes nothing keeps the invariant about the words.        *)
LEMMA WordsKept ==
  ASSUME Words, file' = file, inp'.read = inp.read, inp'.decoded = inp.decoded,
         inp'.is_eof = inp.is_eof, pc' = "encode" => call'.got # <<>>
  PROVE  Words'
  BY SameFile DEF Words, N

(* One that takes none and encodes none keeps the one about the text.      *)
LEMMA TextKept ==
  ASSUME Text, file' = file, taken' \o raw' = taken \o raw, inp'.decoded = inp.decoded,
         \A e \in 0..inp.decoded : (~isrc.err => Underway(e)) => (~isrc'.err => Underway(e)')
  PROVE  Text'
<1>1. PICK e \in 0..inp.decoded : taken \o raw = Bytes(Chars(0, e)) /\ (~isrc.err => Underway(e))
  BY DEF Text
<1>2. Bytes(Chars(0, e))' = Bytes(Chars(0, e))
  BY SameFile
<1>3. ~isrc'.err => Underway(e)'
  BY <1>1
<1> QED
  BY <1>1, <1>2, <1>3 DEF Text

LEMMA InitIInv == Init => IInv
<1> SUFFICES ASSUME Init PROVE IInv
  OBVIOUS
<1> USE DEF Init, NoCall
<1>0. file \in Files /\ N \in Nat /\ 0 \in 0..N
  BY FileIs
<1>1. WordsUpto[0] = 0 /\ FileWords \in Int /\ FileWords >= 0
  <2>1. WordsUpto[0] = 0
    BY <1>0, WordsAt
  <2>2. FileWords = WordsUpto[N] - file.cut /\ FileWords \in Int
    BY <1>0, FileWordsIs
  <2>3. CASE file.cut = 0
    BY <1>0, <2>2, <2>3, WordsAt
  <2>4. CASE file.cut # 0
    <3>1. N \in 1..N /\ N - 1 \in 0..N /\ file.cut \in 1..file.chars[N].words - 1
          /\ file.chars[N].words \in 1..4
      BY <1>0, <2>4, FileIs
    <3>2. WordsUpto[N] = WordsUpto[N - 1] + file.chars[N].words /\ WordsUpto[N - 1] \in Nat
      BY <1>0, <3>1, WordsAt
    <3> DEFINE v == WordsUpto[N]
               p == WordsUpto[N - 1]
               w == file.chars[N].words
               x == file.cut
    <3>3. v = p + w /\ p \in Nat /\ w \in 1..4 /\ x \in 1..w - 1 /\ FileWords = v - x
      BY <2>2, <3>1, <3>2
    <3> HIDE DEF v, p, w, x
    <3>4. FileWords >= 0
      BY <3>3
    <3> QED
      BY <2>1, <2>2, <3>4
  <2> QED
    BY <2>1, <2>2, <2>3, <2>4
<1>2. Typed
  BY DEF Typed, Flowing
<1>3. Words
  BY <1>0, <1>1, BufsOK DEF Words, N
<1>4. Text
  <2>1. Chars(0, 0) = <<>>
    BY CharsAre
  <2>2. taken \o raw = <<>>
    OBVIOUS
  <2>3. Bytes(Chars(0, 0)) = <<>>
    BY <1>0, <2>1, BytesNone
  <2>4. Underway(0) /\ 0 \in 0..inp.decoded
    BY DEF Underway, Flowing
  <2> QED
    BY <2>2, <2>3, <2>4 DEF Text
<1>5. Room
  BY BufsOK DEF Room, Len0, Flowing
<1>6. Ended
  BY DEF Ended
<1> QED
  BY <1>2, <1>3, <1>4, <1>5, <1>6 DEF IInv

(* A sequence is the front of one that goes on behind it.                  *)
LEMMA IsFront ==
  ASSUME NEW S, NEW x \in Seq(S), NEW y \in Seq(S)
  PROVE  IsPrefix(x, x \o y)
<1> DEFINE z == SubSeq(x \o y, 1, Len(x))
           v == SubSeq(x, 1, Len(x))
<1>1. /\ Len(x) \in Nat /\ Len(y) \in Nat /\ x \o y \in Seq(S) /\ Len(x \o y) = Len(x) + Len(y)
      /\ \A i \in 1..Len(x) : (x \o y)[i] = x[i]
  <2>1. /\ x \o y \in Seq(S) /\ Len(x \o y) = Len(x) + Len(y)
        /\ \A i \in 1..Len(x) + Len(y) : (x \o y)[i] = IF i <= Len(x) THEN x[i] ELSE y[i - Len(x)]
    BY ConcatProperties
  <2>2. Len(x) \in Nat /\ Len(y) \in Nat
    BY LenProperties
  <2> QED
    BY <2>1, <2>2
<1>2. Len(x) \in 0..Len(x \o y) /\ Len(x) \in 0..Len(x) /\ Len(x) <= Len(x \o y)
  BY <1>1
<1>3. z \in Seq(S) /\ Len(z) = Len(x) /\ \A i \in 1..Len(x) : z[i] = (x \o y)[i]
  <2> DEFINE w == x \o y
             n == Len(x)
  <2>1. w \in Seq(S) /\ n \in 0..Len(w)
    BY <1>1, <1>2
  <2> HIDE DEF w, n
  <2>2. /\ SubSeq(w, 1, n) \in Seq(S) /\ Len(SubSeq(w, 1, n)) = n
        /\ \A i \in 1..n : SubSeq(w, 1, n)[i] = w[i]
    BY <2>1, SubSeqProperties
  <2> QED
    BY <2>2 DEF w, n
<1>4. v \in Seq(S) /\ Len(v) = Len(x) /\ \A i \in 1..Len(x) : v[i] = x[i]
  BY <1>1, <1>2, SubSeqProperties
<1> HIDE DEF z, v
<1>5. \A i \in 1..Len(v) : v[i] = z[i]
  BY <1>1, <1>3, <1>4
<1>6. v = z
  BY <1>3, <1>4, <1>5, SeqEqual
<1> QED
  BY <1>2, <1>6 DEF IsPrefix, z, v

LEMMA BytesAssociative ==
  ASSUME NEW s \in Seq(Nat), NEW t \in Seq(Nat), NEW u \in Seq(Nat)
  PROVE  (s \o t) \o u = s \o (t \o u)
  BY Associative, SMTT(40)

(* A sequence in two parts.                                                *)
LEMMA Parted ==
  ASSUME NEW S, NEW s \in Seq(S), NEW n \in 0..Len(s)
  PROVE  /\ SubSeq(s, 1, n) \in Seq(S) /\ SubSeq(s, n + 1, Len(s)) \in Seq(S)
         /\ SubSeq(s, 1, n) \o SubSeq(s, n + 1, Len(s)) = s
         /\ Len(SubSeq(s, n + 1, Len(s))) \in Nat
         /\ Len(SubSeq(s, n + 1, Len(s))) <= Len(s)
<1> DEFINE x == SubSeq(s, 1, n)
           y == SubSeq(s, n + 1, Len(s))
           m == Len(s) - n
<1>0. Len(s) \in Nat /\ n \in Nat /\ m \in Nat /\ n + m = Len(s)
  BY LenProperties
<1>1. /\ x \in Seq(S) /\ Len(x) = n /\ \A i \in 1..n : x[i] = s[i]
  BY <1>0, SubSeqProperties
<1>2. y \in Seq(S) /\ Len(y) = m /\ \A i \in 1..m : y[i] = s[n + i]
  <2>1. y \in Seq(S) /\ Len(y) = m
    <3> DEFINE a == n + 1
               b == Len(s)
    <3>1. a \in 1..Len(s) + 1 /\ b \in a - 1..Len(s)
      BY <1>0
    <3> HIDE DEF m
    <3>2. m = b - a + 1 /\ (a <= b <=> m > 0)
      BY <1>0
    <3> HIDE DEF a, b
    <3>3. SubSeq(s, a, b) \in Seq(S) /\ Len(SubSeq(s, a, b)) = IF a <= b THEN b - a + 1 ELSE 0
      BY <3>1, SubSeqProperties
    <3>4. SubSeq(s, a, b) \in Seq(S) /\ Len(SubSeq(s, a, b)) = m
      BY <1>0, <3>2, <3>3
    <3> QED
      BY <3>4 DEF a, b
  <2>2. ASSUME NEW i \in 1..m PROVE y[i] = s[n + i]
    <3>1. y[i] = s[(n + 1) + i - 1] /\ (n + 1) + i - 1 = n + i
      BY <1>0, SubSeqProperties
    <3> QED
      BY <3>1
  <2> QED
    BY <2>1, <2>2
<1> HIDE DEF x, y, m
<1>3. x \in Seq(S) /\ y \in Seq(S)
  BY <1>1, <1>2
<1>4. /\ x \o y \in Seq(S) /\ Len(x \o y) = Len(x) + Len(y)
      /\ \A i \in 1..Len(x) + Len(y) : (x \o y)[i] = IF i <= Len(x) THEN x[i] ELSE y[i - Len(x)]
  BY <1>3, ConcatProperties
<1>5. ASSUME NEW i \in 1..Len(s) PROVE (x \o y)[i] = s[i]
  <2>1. CASE i <= n
    BY <1>0, <1>1, <1>2, <1>4, <2>1
  <2>2. CASE ~(i <= n)
    <3>1. i - n \in 1..m /\ n + (i - n) = i
      BY <1>0, <2>2
    <3> QED
      BY <1>0, <1>1, <1>2, <1>4, <2>2, <3>1
  <2> QED
    BY <2>1, <2>2
<1>6. Len(x \o y) = Len(s)
  BY <1>0, <1>1, <1>2, <1>4
<1>7. x \o y = s
  BY <1>4, <1>5, <1>6, SeqEqual
<1>8. Len(y) \in Nat /\ Len(y) <= Len(s)
  BY <1>0, <1>2
<1> QED
  BY <1>3, <1>7, <1>8 DEF x, y

LEMMA TakeIInv == IInv /\ Take => IInv'
<1> SUFFICES ASSUME IInv, Take PROVE IInv'
  OBVIOUS
<1>0. PICK n \in 1..Len0 : /\ taken' = taken \o SubSeq(raw, 1, n)
                           /\ raw' = SubSeq(raw, n + 1, Len0)
  BY DEF Take
<1>1. pc = "idle" /\ UNCHANGED <<file, inp, isrc, pc, call>>
  BY DEF Take
<1>2. taken \in Seq(Nat) /\ raw \in Seq(Nat) /\ Len(raw) = Len0 /\ Len0 \in Nat
  BY Basics DEF IInv, Typed, Len0
<1> DEFINE x == SubSeq(raw, 1, n)
           y == SubSeq(raw, n + 1, Len0)
<1>3. x \in Seq(Nat) /\ y \in Seq(Nat) /\ x \o y = raw /\ Len(y) <= Len0 /\ Len(y) \in Nat
  <2>1. n \in 0..Len(raw)
    BY <1>2
  <2> QED
    BY <1>2, <2>1, Parted
<1> HIDE DEF x, y
<1>4. taken \in Seq(Nat) /\ x \in Seq(Nat) /\ y \in Seq(Nat)
  BY <1>2, <1>3
<1>5. taken' \o raw' = taken \o raw
  <2>1. (taken \o x) \o y = taken \o (x \o y)
    BY <1>4, BytesAssociative
  <2> QED
    BY <1>0, <1>3, <2>1 DEF x, y
<1>6. taken' \in Seq(Nat) /\ raw' \in Seq(Nat) /\ Len0' \in Nat /\ Len0' <= Len0
  <2>1. taken \o x \in Seq(Nat)
    BY <1>4, ConcatProperties
  <2>2. taken' = taken \o x /\ raw' = y
    BY <1>0 DEF x, y
  <2> QED
    BY <1>2, <1>3, <2>1, <2>2 DEF Len0
<1>7. Typed'
  BY <1>1, <1>6 DEF IInv, Typed
<1>8. Words'
  BY <1>1, WordsKept DEF IInv
<1>9. Text'
  <2>1. \A e \in 0..inp.decoded : (~isrc.err => Underway(e)) => (~isrc'.err => Underway(e)')
    BY <1>1 DEF Underway
  <2> QED
    BY <1>1, <1>5, <2>1, TextKept DEF IInv
<1>10. Room'
  BY <1>1, <1>6, Basics DEF IInv, Room, Flowing
<1>11. Ended'
  BY <1>1, SameFile DEF IInv, Ended
<1> QED
  BY <1>7, <1>8, <1>9, <1>10, <1>11 DEF IInv

(* The steps that neither decode nor encode.                               *)
LEMMA CallIInv ==
  ASSUME IInv, Refill \/ RefillEnds \/ RefillAgain \/ Read
  PROVE  IInv'
<1>0. UNCHANGED <<file, inp, raw, isrc, taken>>
  BY DEF Refill, RefillEnds, RefillAgain, Read
<1>1. pc \notin Flowing /\ pc' \notin Flowing /\ pc' \in {"idle", "refill", "read", "fill"}
  BY DEF Refill, RefillEnds, RefillAgain, Read, Flowing
<1>2. Len0' = Len0 /\ Len0 \in Nat /\ BufSiz \in Nat /\ Len0 <= BufSiz
  BY <1>0, SameRaw, Basics
<1>3. Typed'
  <2>1. call' \in [req : Nat, at0 : Nat, len0 : Nat, want : Nat, got : Seq(Nat)]
    <3>0. call \in [req : Nat, at0 : Nat, len0 : Nat, want : Nat, got : Seq(Nat)]
      BY DEF IInv, Typed
    <3>1. CASE Refill
      <4>1. PICK n \in Requests : call' = [NoCall EXCEPT !.req = n, !.at0 = Len0]
        BY <3>1 DEF Refill
      <4>2. n \in Nat
        BY BufsOK
      <4>3. call' = [req |-> n, at0 |-> Len0, len0 |-> 0, want |-> 0, got |-> <<>>]
        BY <4>1 DEF NoCall
      <4> QED
        BY <1>2, <4>2, <4>3
    <3>2. CASE RefillEnds
      BY <3>2 DEF RefillEnds, NoCall
    <3>3. CASE RefillAgain
      BY <1>2, <3>0, <3>3 DEF RefillAgain
    <3>4. CASE Read
      BY <1>2, <3>0, <3>4 DEF Read
    <3> QED
      BY <3>1, <3>2, <3>3, <3>4
  <2> QED
    BY <1>0, <1>1, <2>1 DEF IInv, Typed
<1>4. Words'
  BY <1>0, <1>1, WordsKept DEF IInv, Flowing
<1>5. Text'
  <2>1. \A e \in 0..inp.decoded : (~isrc.err => Underway(e)) => (~isrc'.err => Underway(e)')
    BY <1>0, <1>1 DEF Underway
  <2> QED
    BY <1>0, <2>1, TextKept DEF IInv
<1>6. Room'
  <2>0. Room /\ call \in [req : Nat, at0 : Nat, len0 : Nat, want : Nat, got : Seq(Nat)]
    BY DEF IInv, Typed
  <2>1. CASE Refill
    <3>1. PICK n \in Requests : n > Len0 /\ call' = [NoCall EXCEPT !.req = n, !.at0 = Len0]
      BY <2>1 DEF Refill
    <3>2. n \in 1..(BufSiz - ChMax + 1) /\ ChMax \in Nat /\ ChMax >= 1
      BY BufsOK
    <3>3. n <= BufSiz /\ Len0 < BufSiz
      BY <1>2, <3>1, <3>2
    <3>4. call'.req = n
      BY <3>1 DEF NoCall
    <3>5. pc' = "read" /\ ~isrc.err
      BY <2>1 DEF Refill
    <3> QED
      BY <1>0, <1>2, <2>0, <3>3, <3>4, <3>5 DEF Room, Flowing
  <2>2. CASE RefillEnds
    BY <1>0, <1>2, <2>0, <2>2 DEF Room, Flowing, RefillEnds
  <2>3. CASE RefillAgain
    <3>1. call'.req = call.req /\ pc' = "read" /\ pc = "refill"
      BY <2>0, <2>3 DEF RefillAgain
    <3>2. Len0 < call.req
      BY <1>2, <2>0, <2>3 DEF RefillAgain, RefillDone
    <3>3. call.req <= BufSiz /\ ~isrc.err
      BY <2>0, <3>1 DEF Room
    <3> QED
      BY <1>0, <1>2, <2>0, <3>1, <3>2, <3>3 DEF Room, Flowing
  <2>4. CASE Read
    <3>1. call'.req = call.req /\ call'.len0 = Len0 /\ pc = "read"
      BY <2>0, <2>4 DEF Read
    <3>2. call.req <= BufSiz /\ ~isrc.err /\ Len0 < BufSiz
      BY <2>0, <3>1 DEF Room
    <3>3. pc' \in {"refill", "fill"}
      BY <2>4 DEF Read
    <3> QED
      BY <1>0, <1>2, <2>0, <3>1, <3>2, <3>3 DEF Room, Flowing
  <2> QED
    BY <2>1, <2>2, <2>3, <2>4
<1>7. Ended'
  <2>1. isrc.eof => pc' \in {"idle", "refill", "read"}
    BY DEF Refill, RefillEnds, RefillAgain, Read
  <2> QED
    BY <1>0, <2>1, SameFile DEF IInv, Ended
<1> QED
  BY <1>3, <1>4, <1>5, <1>6, <1>7 DEF IInv

LEMMA FillDrainIInv == IInv /\ FillDrain => IInv'
<1> SUFFICES ASSUME IInv, FillDrain PROVE IInv'
  OBVIOUS
<1> DEFINE got == IF inp.wch_buffered = 0 THEN <<>> ELSE <<inp.wch_buffered>>
<1>0. /\ pc = "fill" /\ (InPlace \/ Len0 < BufSiz) /\ pc' = "drain"
      /\ call' = [call EXCEPT !.want = Wanted, !.got = got]
      /\ inp' = [inp EXCEPT !.wch_buffered = 0]
      /\ UNCHANGED <<file, raw, isrc, taken>>
  BY DEF FillDrain
<1>1. inp \in [read : Nat, decoded : Nat, is_eof : {0, 1}, wch_buffered : Nat]
      /\ call \in [req : Nat, at0 : Nat, len0 : Nat, want : Nat, got : Seq(Nat)]
  BY DEF IInv, Typed
<1>2. Len0 \in Nat /\ Len0 <= BufSiz /\ BufSiz \in Nat /\ inp.wch_buffered \in Nat /\ inp.decoded \in Nat
  BY Basics
<1>3. Wanted \in Nat /\ Wanted > 0
  BY <1>2, RoomFor
<1>4. got \in Seq(Nat) /\ Len(got) <= 1 /\ Len(got) \in Nat
  BY <1>2
<1> HIDE DEF got
<1>5. /\ inp'.read = inp.read /\ inp'.decoded = inp.decoded /\ inp'.is_eof = inp.is_eof
      /\ inp'.wch_buffered = 0
      /\ inp' \in [read : Nat, decoded : Nat, is_eof : {0, 1}, wch_buffered : Nat]
  BY <1>0, <1>1
<1>6. /\ call'.req = call.req /\ call'.len0 = call.len0 /\ call'.want = Wanted /\ call'.got = got
      /\ call' \in [req : Nat, at0 : Nat, len0 : Nat, want : Nat, got : Seq(Nat)]
  BY <1>0, <1>1, <1>3, <1>4
<1>7. Typed'
  BY <1>0, <1>5, <1>6 DEF IInv, Typed, Flowing
<1>8. Words'
  BY <1>0, <1>5, WordsKept DEF IInv
<1>9. Text'
  <2>1. ASSUME NEW e \in 0..inp.decoded, ~isrc.err => Underway(e)
        PROVE  ~isrc'.err => Underway(e)'
    <3> SUFFICES ASSUME ~isrc.err PROVE Underway(e)'
      BY <1>0
    <3>1. IF inp.wch_buffered = 0 THEN e = inp.decoded
          ELSE inp.wch_buffered = inp.decoded /\ e + 1 = inp.decoded
      BY <1>0, <2>1 DEF Underway, Flowing
    <3>2. e + Len(got) = inp.decoded /\ got = Chars(e, Len(got))
      <4>1. CASE inp.wch_buffered = 0
        <5>1. got = <<>> /\ Len(got) = 0 /\ e = inp.decoded
          BY <3>1, <4>1 DEF got
        <5>2. Chars(e, 0) = <<>>
          BY <1>2, CharsAre
        <5> QED
          BY <1>2, <5>1, <5>2
      <4>2. CASE inp.wch_buffered # 0
        <5>1. got = <<inp.decoded>> /\ Len(got) = 1 /\ e + 1 = inp.decoded /\ e \in Nat
          BY <1>2, <3>1, <4>2 DEF got
        <5>2. Chars(e, 1) = <<e + 1>>
          BY <5>1 DEF Chars
        <5> QED
          BY <5>1, <5>2
      <4> QED
        BY <4>1, <4>2
    <3> QED
      BY <1>0, <1>5, <1>6, <3>2 DEF Underway, Flowing
  <2> QED
    BY <1>0, <1>5, <2>1, TextKept DEF IInv
<1>10. Room'
  <2>1. call.req <= BufSiz /\ ~isrc.err /\ call.len0 <= Len0
    BY <1>0 DEF IInv, Room
  <2>2. Len0' = Len0 /\ (InPlace' <=> InPlace) /\ Wanted' = Wanted
    BY <1>0, SameRaw
  <2> QED
    BY <1>0, <1>2, <1>3, <1>4, <1>6, <2>1, <2>2 DEF Room, Flowing
<1>11. Ended'
  <2>1. ~isrc.eof /\ ~isrc.err
    BY <1>0 DEF IInv, Ended, Room
  <2> QED
    BY <1>0, <2>1 DEF Ended
<1> QED
  BY <1>7, <1>8, <1>9, <1>10, <1>11 DEF IInv

LEMMA FillFullIInv == IInv /\ FillFull => IInv'
<1> SUFFICES ASSUME IInv, FillFull PROVE IInv'
  OBVIOUS
<1>1. /\ pc = "fill" /\ Len0 >= BufSiz /\ UNCHANGED <<inp, call, file, raw, taken>>
      /\ isrc' = [isrc EXCEPT !.eof = @ \/ (Len0 = call.len0 /\ AtEof(inp))]
      /\ pc' = IF Len0 > call.len0 /\ Len0 < BufSiz THEN "read" ELSE "refill"
  BY DEF FillFull, FillReturned
<1>2. Len0 \in Nat /\ BufSiz \in Nat /\ call.len0 \in Nat
  BY Basics
<1>3. Len0 > call.len0 /\ call.req <= BufSiz /\ ~isrc.err /\ Len0 <= BufSiz
  BY <1>1, <1>2 DEF IInv, Room
<1>4. pc' = "refill"
  BY <1>1, <1>2
<1>5. ~isrc.eof /\ isrc \in [eof : BOOLEAN, err : BOOLEAN]
  BY <1>1 DEF IInv, Ended, Typed
<1>6. isrc' = isrc
  <2>1. (isrc.eof \/ (Len0 = call.len0 /\ AtEof(inp))) = FALSE
    BY <1>2, <1>3, <1>5
  <2>2. isrc' = [isrc EXCEPT !.eof = FALSE]
    BY <1>1, <2>1
  <2> QED
    BY <1>5, <2>2
<1>7. Typed'
  BY <1>1, <1>4, <1>6 DEF IInv, Typed
<1>8. Words'
  BY <1>1, <1>4, WordsKept DEF IInv
<1>9. Text'
  <2>1. \A e \in 0..inp.decoded : (~isrc.err => Underway(e)) => (~isrc'.err => Underway(e)')
    BY <1>1, <1>4, <1>6 DEF Underway, Flowing
  <2> QED
    BY <1>1, <2>1, TextKept DEF IInv
<1>10. Room'
  <2>1. Len0' = Len0
    BY <1>1, SameRaw
  <2> QED
    BY <1>1, <1>3, <1>4, <1>6, <2>1 DEF Room, Flowing
<1>11. Ended'
  BY <1>1, <1>3, <1>5, <1>6 DEF Ended
<1> QED
  BY <1>7, <1>8, <1>9, <1>10, <1>11 DEF IInv

LEMMA DrainRoundIInv == IInv /\ DrainRound => IInv'
<1> SUFFICES ASSUME IInv, DrainRound PROVE IInv'
  OBVIOUS
<1> DEFINE left == call.want - Len(call.got)
<1>0. pc = "drain" /\ Len(call.got) < call.want /\ UNCHANGED <<file, raw, isrc, pc, taken>>
  BY DEF DrainRound
<1>1. PICK u \in RawFilled :
        /\ u.is_eof >= 0
        /\ inp' = [u EXCEPT !.decoded = @ + Decodable(u, left)]
        /\ call' = [call EXCEPT !.got = @ \o [k \in 1..Decodable(u, left) |-> u.decoded + k]]
  BY DEF DrainRound
<1>2. /\ file \in Files /\ N \in Nat /\ inp.decoded \in 0..N /\ inp.decoded \in Nat
      /\ call.got \in Seq(Nat) /\ Len(call.got) \in Nat /\ call.want \in Nat
      /\ WordsUpto[inp.decoded] \in Nat /\ FileWords \in Int /\ WrdBuf \in Nat
  BY Basics, BufsOK
<1>3. Read4(u) /\ u \in [read : Nat, decoded : Nat, is_eof : {-1, 0, 1}, wch_buffered : Nat]
  BY RawFilledIs DEF IInv
<1>4. /\ u.read \in Nat /\ u.decoded = inp.decoded /\ u.wch_buffered = inp.wch_buffered
      /\ WordsUpto[inp.decoded] <= u.read /\ u.read <= FileWords
      /\ u.read <= WordsUpto[inp.decoded] + WrdBuf /\ u.is_eof \in {0, 1}
      /\ u.is_eof = 1 => u.read = FileWords /\ u.read < WordsUpto[inp.decoded] + 4
  BY <1>1, <1>3 DEF Read4
<1>5. left \in Nat
  BY <1>0, <1>2
<1> DEFINE n == Decodable(u, left)
           d == inp.decoded
<1>6. n \in 0..left /\ d + n <= N /\ WordsUpto[d + n] <= u.read
  <2>1. u.decoded \in 0..N /\ WordsUpto[u.decoded] <= u.read
    BY <1>2, <1>4
  <2> HIDE DEF left
  <2> QED
    BY <1>2, <1>4, <1>5, <2>1, DecodableIs
<1>7. call' = [call EXCEPT !.got = @ \o Chars(d, n)]
  BY <1>1, <1>4 DEF Chars
<1> HIDE DEF n, left
<1>8. n \in Nat /\ d + n \in 0..N /\ d + n \in Nat /\ n <= left
  BY <1>2, <1>5, <1>6
<1>9. WordsUpto[d + n] \in Nat /\ WordsUpto[d] <= WordsUpto[d + n]
  <2>1. WordsUpto[d + n] \in Nat
    BY <1>2, <1>8, WordsAt
  <2>2. CASE n = 0
    BY <1>2, <2>1, <2>2
  <2>3. CASE n # 0
    <3>1. d < d + n
      BY <1>2, <1>8, <2>3
    <3>2. WordsUpto[d] < WordsUpto[d + n]
      BY <1>2, <1>8, <3>1, WordsGrow
    <3> QED
      BY <1>2, <2>1, <3>2
  <2> QED
    BY <2>2, <2>3
<1>10. /\ inp'.read = u.read /\ inp'.decoded = d + n /\ inp'.is_eof = u.is_eof
       /\ inp'.wch_buffered = inp.wch_buffered
       /\ inp' \in [read : Nat, decoded : Nat, is_eof : {0, 1}, wch_buffered : Nat]
  <2>1. inp' = [u EXCEPT !.decoded = d + n]
    BY <1>1, <1>4 DEF n
  <2>2. inp' = [read |-> u.read, decoded |-> d + n, is_eof |-> u.is_eof, wch_buffered |-> u.wch_buffered]
    BY <1>3, <2>1
  <2>3. u.wch_buffered \in Nat
    BY <1>3
  <2> HIDE DEF d
  <2> QED
    BY <1>4, <1>8, <2>2, <2>3
<1>11. Chars(d, n) \in Seq(Nat) /\ Len(Chars(d, n)) = n
  <2>1. d \in Nat /\ n \in Nat
    BY <1>2, <1>8
  <2> HIDE DEF d
  <2> QED
    BY <2>1, CharsType
<1> DEFINE g == call.got \o Chars(d, n)
<1>12. g \in Seq(Nat) /\ Len(g) = Len(call.got) + n
  <2> DEFINE x == call.got
             y == Chars(d, n)
  <2>1. x \in Seq(Nat) /\ y \in Seq(Nat) /\ Len(y) = n
    BY <1>2, <1>11
  <2> HIDE DEF x, y
  <2>2. x \o y \in Seq(Nat) /\ Len(x \o y) = Len(x) + Len(y)
    BY <2>1, ConcatProperties
  <2> QED
    BY <2>1, <2>2 DEF x, y
<1>13. /\ call'.req = call.req /\ call'.len0 = call.len0 /\ call'.want = call.want /\ call'.got = g
       /\ call' \in [req : Nat, at0 : Nat, len0 : Nat, want : Nat, got : Seq(Nat)]
  <2>1. call' = [call EXCEPT !.got = g] /\ call \in [req : Nat, at0 : Nat, len0 : Nat, want : Nat, got : Seq(Nat)]
    BY <1>7 DEF IInv, Typed
  <2> HIDE DEF g
  <2> QED
    BY <1>12, <2>1
<1> HIDE DEF g
<1>14. Typed'
  BY <1>0, <1>10, <1>13 DEF IInv, Typed
<1>15. Words'
  <2> HIDE DEF d
  <2>1. d + n <= N /\ WordsUpto[d + n] <= u.read /\ u.read <= FileWords
        /\ u.read <= WordsUpto[d + n] + WrdBuf
    <3> DEFINE v == WordsUpto[d]
               w == WordsUpto[d + n]
    <3>1. v \in Nat /\ w \in Nat /\ v <= w /\ u.read \in Nat /\ WrdBuf \in Nat
      BY <1>2, <1>4, <1>9 DEF d
    <3>2. u.read <= v + WrdBuf /\ w <= u.read /\ d + n <= N /\ u.read <= FileWords
      BY <1>4, <1>6 DEF d
    <3> HIDE DEF v, w
    <3>3. u.read <= w + WrdBuf
      BY <3>1, <3>2
    <3> QED
      BY <3>2, <3>3 DEF w
  <2>2. u.is_eof = 1 => u.read = FileWords /\ u.read < WordsUpto[d + n] + 4
    <3> DEFINE v == WordsUpto[d]
               w == WordsUpto[d + n]
    <3>1. v \in Nat /\ w \in Nat /\ v <= w /\ u.read \in Nat
      BY <1>2, <1>4, <1>9 DEF d
    <3>2. u.is_eof = 1 => u.read = FileWords /\ u.read < v + 4
      BY <1>4 DEF d
    <3> HIDE DEF v, w
    <3>3. u.is_eof = 1 => u.read = FileWords /\ u.read < w + 4
      BY <3>1, <3>2
    <3> QED
      BY <3>3 DEF w
  <2>3. pc' # "encode"
    BY <1>0
  <2> QED
    BY <1>0, <1>10, <2>1, <2>2, <2>3, SameFile DEF Words, N
<1>16. Text'
  <2>1. PICK e \in 0..inp.decoded : taken \o raw = Bytes(Chars(0, e)) /\ (~isrc.err => Underway(e))
    BY DEF IInv, Text
  <2>2. Bytes(Chars(0, e))' = Bytes(Chars(0, e))
    BY <1>0, SameFile
  <2>3. ~isrc.err
    BY <1>0 DEF IInv, Room
  <2>4. inp.wch_buffered = 0 /\ e + Len(call.got) = d /\ call.got = Chars(e, Len(call.got))
    BY <1>0, <2>1, <2>3 DEF Underway, Flowing
  <2>5. g = Chars(e, Len(call.got) + n)
    <3>1. Chars(e, Len(call.got)) \o Chars(e + Len(call.got), n) = Chars(e, Len(call.got) + n)
      <4> DEFINE l == Len(call.got)
      <4>1. e \in Nat /\ l \in Nat /\ n \in Nat
        BY <1>2, <1>8
      <4> HIDE DEF l
      <4>2. Chars(e, l) \o Chars(e + l, n) = Chars(e, l + n)
        BY <4>1, CharsJoin
      <4> QED
        BY <4>2 DEF l
    <3> QED
      BY <2>4, <3>1 DEF g
  <2>6. e + Len(g) = d + n /\ g = Chars(e, Len(g)) /\ e \in 0..d + n
    BY <1>2, <1>8, <1>12, <2>4, <2>5
  <2>7. Underway(e)'
    BY <1>0, <1>10, <1>13, <2>4, <2>6 DEF Underway, Flowing
  <2> QED
    BY <1>0, <1>10, <2>1, <2>2, <2>6, <2>7 DEF Text
<1>17. Room'
  <2>1. Len(g) <= call.want
    BY <1>2, <1>8, <1>12 DEF left
  <2>2. Len0' = Len0 /\ (InPlace' <=> InPlace) /\ Wanted' = Wanted
    BY <1>0, SameRaw
  <2> QED
    BY <1>0, <1>13, <2>1, <2>2 DEF IInv, Room, Flowing
<1>18. Ended'
  <2>1. ~isrc.eof /\ ~isrc.err
    BY <1>0 DEF IInv, Ended, Room
  <2> QED
    BY <1>0, <2>1 DEF Ended
<1> QED
  BY <1>14, <1>15, <1>16, <1>17, <1>18 DEF IInv

LEMMA DrainEndIInv == IInv /\ DrainEnd => IInv'
<1> SUFFICES ASSUME IInv, DrainEnd PROVE IInv'
  OBVIOUS
<1>0. pc = "drain" /\ pc' = "encode" /\ UNCHANGED <<file, raw, isrc, call, taken>>
  BY DEF DrainEnd
<1>1. ~isrc.eof /\ ~isrc.err /\ call.want > 0
  BY <1>0 DEF IInv, Ended, Room, Flowing
<1>2. /\ inp.decoded \in Nat /\ WordsUpto[inp.decoded] \in Nat /\ Len(call.got) \in Nat
      /\ inp \in [read : Nat, decoded : Nat, is_eof : {0, 1}, wch_buffered : Nat]
  BY Basics DEF IInv, Typed
<1>3. \/ inp' = inp /\ call.got # <<>>
      \/ \E u \in RawFilled : inp' = u /\ u.is_eof >= 0 /\ n_wrds(u) = 0
  <2>1. CASE Len(call.got) >= call.want
    <3>1. Len(call.got) # 0
      BY <1>1, <1>2, <2>1, Basics
    <3>2. call.got # <<>>
      BY <3>1
    <3> QED
      BY <2>1, <3>2 DEF DrainEnd
  <2>2. CASE ~(Len(call.got) >= call.want)
    BY <2>2 DEF DrainEnd
  <2> QED
    BY <2>1, <2>2
<1>4. /\ inp' \in [read : Nat, decoded : Nat, is_eof : {0, 1}, wch_buffered : Nat]
      /\ inp'.decoded = inp.decoded /\ inp'.wch_buffered = inp.wch_buffered /\ Words'
  <2>1. CASE inp' = inp /\ call.got # <<>>
    <3>1. Words'
      BY <1>0, <2>1, WordsKept DEF IInv
    <3> QED
      BY <1>2, <2>1, <3>1
  <2>2. ASSUME NEW u \in RawFilled, inp' = u, u.is_eof >= 0, n_wrds(u) = 0
        PROVE  /\ inp' \in [read : Nat, decoded : Nat, is_eof : {0, 1}, wch_buffered : Nat]
               /\ inp'.decoded = inp.decoded /\ inp'.wch_buffered = inp.wch_buffered /\ Words'
    <3>1. Read4(u) /\ u \in [read : Nat, decoded : Nat, is_eof : {-1, 0, 1}, wch_buffered : Nat]
      BY RawFilledIs DEF IInv
    <3>2. u \in [read : Nat, decoded : Nat, is_eof : {0, 1}, wch_buffered : Nat]
      <4>1. u.is_eof \in {0, 1}
        BY <2>2, <3>1
      <4>2. u = [read |-> u.read, decoded |-> u.decoded, is_eof |-> u.is_eof, wch_buffered |-> u.wch_buffered]
        BY <3>1
      <4> QED
        BY <3>1, <4>1, <4>2
    <3>3. u.read = WordsUpto[inp.decoded]
      BY <1>2, <2>2, <3>1 DEF Read4, n_wrds
    <3>4. Words'
      BY <1>0, <2>2, <3>1, <3>3, SameFile DEF IInv, Words, Read4, N
    <3> QED
      BY <2>2, <3>1, <3>2, <3>4 DEF Read4
  <2> QED
    BY <1>3, <2>1, <2>2
<1>5. Typed'
  BY <1>0, <1>4 DEF IInv, Typed, Flowing
<1>6. Text'
  <2>1. \A e \in 0..inp.decoded : (~isrc.err => Underway(e)) => (~isrc'.err => Underway(e)')
    BY <1>0, <1>4 DEF Underway, Flowing
  <2> QED
    BY <1>0, <1>4, <2>1, TextKept DEF IInv
<1>7. Room'
  <2>1. Len0' = Len0 /\ (InPlace' <=> InPlace) /\ Wanted' = Wanted
    BY <1>0, SameRaw
  <2> QED
    BY <1>0, <2>1 DEF IInv, Room, Flowing
<1>8. Ended'
  BY <1>0, <1>1 DEF Ended
<1> QED
  BY <1>4, <1>5, <1>6, <1>7, <1>8 DEF IInv

LEMMA DrainFailsIInv == IInv /\ DrainFails => IInv'
<1> SUFFICES ASSUME IInv, DrainFails PROVE IInv'
  OBVIOUS
<1>0. /\ pc = "drain" /\ pc' = "idle" /\ UNCHANGED <<file, inp, raw, taken>>
      /\ isrc' = [eof |-> TRUE, err |-> TRUE]
      /\ call' = [req |-> 0, at0 |-> 0, len0 |-> 0, want |-> 0, got |-> <<>>]
  BY DEF DrainFails, FillFailed, NoCall
<1>1. file.fails \/ file.cut > 0
  <2>1. PICK u \in RawFilled : u.is_eof < 0 \/ (n_wrds(u) > 0 /\ Decodable(u, 1) = 0)
    BY DEF DrainFails
  <2>2. Read4(u)
    BY RawFilledIs DEF IInv
  <2>3. CASE u.is_eof < 0
    BY <2>2, <2>3 DEF Read4
  <2>4. CASE ~(u.is_eof < 0)
    <3>1. u.is_eof >= 0
      BY <2>2, <2>4 DEF Read4
    <3> QED
      BY <2>1, <2>4, <3>1, CutOnly DEF IInv
  <2> QED
    BY <2>3, <2>4
<1>2. Typed'
  BY <1>0 DEF IInv, Typed
<1>3. Words'
  BY <1>0, WordsKept DEF IInv
<1>4. Text'
  BY <1>0, TextKept DEF IInv
<1>5. Room'
  BY <1>0, SameRaw DEF IInv, Room, Flowing
<1>6. Ended'
  BY <1>0, <1>1 DEF Ended
<1> QED
  BY <1>2, <1>3, <1>4, <1>5, <1>6 DEF IInv

LEMMA EncodeNoneIInv == IInv /\ EncodeNone => IInv'
<1> SUFFICES ASSUME IInv, EncodeNone PROVE IInv'
  OBVIOUS
<1> DEFINE eof == Len0 = call.len0 /\ AtEof(inp)
<1>0. /\ pc = "encode" /\ call.got = <<>> /\ UNCHANGED <<inp, call, file, raw, taken>>
      /\ isrc' = [isrc EXCEPT !.eof = @ \/ eof]
      /\ pc' = IF Len0 > call.len0 /\ Len0 < BufSiz THEN "read" ELSE "refill"
  BY DEF EncodeNone, FillReturned
<1>1. isrc \in [eof : BOOLEAN, err : BOOLEAN] /\ ~isrc.eof /\ ~isrc.err
  BY <1>0 DEF IInv, Ended, Room, Typed
<1>2. isrc' \in [eof : BOOLEAN, err : BOOLEAN] /\ ~isrc'.err /\ (isrc'.eof => AtEof(inp))
  <2>1. isrc' = [eof |-> (isrc.eof \/ eof), err |-> isrc.err]
    BY <1>0, <1>1
  <2>2. (isrc.eof \/ eof) \in BOOLEAN
    OBVIOUS
  <2>3. isrc'.eof = (isrc.eof \/ eof) /\ isrc'.err = isrc.err
    BY <2>1
  <2>4. isrc'.eof => eof
    BY <1>1, <2>3
  <2>5. isrc' \in [eof : BOOLEAN, err : BOOLEAN]
    BY <1>1, <2>1, <2>2
  <2> QED
    BY <1>1, <2>3, <2>4, <2>5
<1>3. inp.is_eof \in {0, 1} /\ (AtEof(inp) => inp.is_eof = 1)
  BY Basics DEF AtEof
<1>4. pc' \in {"read", "refill"} /\ (pc' = "read" => Len0 < BufSiz)
  BY <1>0
<1>5. Typed'
  BY <1>0, <1>2, <1>4 DEF IInv, Typed
<1>6. Words'
  BY <1>0, <1>4, WordsKept DEF IInv
<1>7. inp.wch_buffered = 0
  BY <1>0, <1>1 DEF IInv, Text, Underway, Flowing
<1>8. Text'
  <2>1. ASSUME NEW e \in 0..inp.decoded, ~isrc.err => Underway(e)
        PROVE  ~isrc'.err => Underway(e)'
    <3>1. e + Len(call.got) = inp.decoded /\ Len(call.got) = 0
      BY <1>0, <1>1, <2>1 DEF Underway, Flowing
    <3>2. e = inp.decoded
      BY <3>1
    <3> QED
      BY <1>0, <1>4, <1>7, <3>2 DEF Underway, Flowing
  <2> QED
    BY <1>0, <2>1, TextKept DEF IInv
<1>9. Room'
  <2>1. Len0' = Len0
    BY <1>0, SameRaw
  <2> QED
    BY <1>0, <1>2, <1>4, <2>1 DEF IInv, Room, Flowing
<1>10. Ended'
  <2>1. inp.read = WordsUpto[inp.decoded]
    BY <1>0 DEF IInv, Words
  <2>2. WordsUpto' = WordsUpto
    BY <1>0, SameFile
  <2> QED
    BY <1>0, <1>2, <1>3, <1>4, <1>7, <2>1, <2>2 DEF Ended
<1> QED
  BY <1>5, <1>6, <1>8, <1>9, <1>10 DEF IInv

(* What is on its way to be encoded: the characters behind the first e.    *)
LEMMA Waiting ==
  ASSUME IInv, pc = "encode", call.got # <<>>
  PROVE  \E e \in 0..inp.decoded :
           /\ taken \o raw = Bytes(Chars(0, e)) /\ Underway(e)
           /\ Len(call.got) \in Nat /\ Len(call.got) > 0
           /\ e + Len(call.got) = inp.decoded /\ e + Len(call.got) <= N
           /\ call.got = Chars(e, Len(call.got)) /\ inp.wch_buffered = 0
           /\ Len(Bytes(call.got)) \in Nat
           /\ Len(Bytes(call.got)) <= WchSiz * Len(call.got)
           /\ Len(Bytes(call.got)) > 0
<1>1. ~isrc.err
  BY DEF IInv, Room
<1>2. PICK e \in 0..inp.decoded : taken \o raw = Bytes(Chars(0, e)) /\ Underway(e)
  BY <1>1 DEF IInv, Text
<1>3. e + Len(call.got) = inp.decoded /\ call.got = Chars(e, Len(call.got)) /\ inp.wch_buffered = 0
  BY <1>2 DEF Underway, Flowing
<1>4. Len(call.got) \in Nat /\ inp.decoded \in 0..N /\ N \in Nat /\ file \in Files /\ call.got \in Seq(Nat)
  BY Basics
<1>5. Len(call.got) > 0
  BY <1>4, EmptySeq
<1> DEFINE n == Len(call.got)
<1>6. e \in Nat /\ n \in Nat /\ e + n <= N /\ n > 0
  BY <1>3, <1>4, <1>5
<1> HIDE DEF n
<1>7. /\ Len(Bytes(Chars(e, n))) \in Nat /\ Len(Bytes(Chars(e, n))) <= WchSiz * n
      /\ Len(Bytes(Chars(e, n))) > 0
  BY <1>4, <1>6, BytesBound
<1>8. call.got = Chars(e, n)
  BY <1>3 DEF n
<1>9. /\ Len(Bytes(call.got)) \in Nat /\ Len(Bytes(call.got)) <= WchSiz * n
      /\ Len(Bytes(call.got)) > 0
  BY <1>7, <1>8
<1> QED
  BY <1>2, <1>3, <1>5, <1>6, <1>9 DEF n

LEMMA EncodeIInv == IInv /\ Encode => IInv'
<1> SUFFICES ASSUME IInv, Encode PROVE IInv'
  OBVIOUS
<1>0. /\ pc = "encode" /\ call.got # <<>> /\ Fits
      /\ raw' = raw \o Bytes(call.got) /\ pc' = "fill"
      /\ call' = [call EXCEPT !.want = 0, !.got = <<>>]
      /\ UNCHANGED <<file, inp, isrc, taken>>
  BY DEF Encode
<1>1. PICK e \in 0..inp.decoded :
           /\ taken \o raw = Bytes(Chars(0, e)) /\ Underway(e)
           /\ Len(call.got) \in Nat /\ Len(call.got) > 0
           /\ e + Len(call.got) = inp.decoded /\ e + Len(call.got) <= N
           /\ call.got = Chars(e, Len(call.got)) /\ inp.wch_buffered = 0
           /\ Len(Bytes(call.got)) \in Nat
           /\ Len(Bytes(call.got)) <= WchSiz * Len(call.got)
           /\ Len(Bytes(call.got)) > 0
  BY <1>0, Waiting
<1>2. /\ file \in Files /\ N \in Nat /\ inp.decoded \in Nat /\ Len0 \in Nat /\ BufSiz \in Nat
      /\ call.len0 \in Nat
      /\ call \in [req : Nat, at0 : Nat, len0 : Nat, want : Nat, got : Seq(Nat)]
      /\ raw \in Seq(Nat) /\ taken \in Seq(Nat)
  BY Basics DEF IInv, Typed
<1> DEFINE n == Len(call.got)
           b == Bytes(call.got)
<1>3. e \in Nat /\ n \in Nat /\ e + n <= N /\ e + n = inp.decoded
  BY <1>1, <1>2
<1>4. b = Bytes(Chars(e, n))
  BY <1>1
<1>5. b \in Seq(Nat)
  <2> HIDE DEF n
  <2>1. Chars(e, n) \in Seq(1..N)
    BY <1>2, <1>3, CharsAre
  <2>2. Bytes(Chars(e, n)) \in Seq(1..N)
    BY <1>2, <2>1, BytesType
  <2>3. Bytes(Chars(e, n)) \in Seq(Nat)
    BY <1>2, <2>2, NumbersAreSeq
  <2> QED
    BY <1>4, <2>3
<1> HIDE DEF b
<1>6. raw' = raw \o b /\ raw' \in Seq(Nat) /\ Len0' = Len0 + Len(b) /\ Len(b) \in Nat /\ Len(b) > 0
  <2>1. raw \o b \in Seq(Nat) /\ Len(raw \o b) = Len(raw) + Len(b)
    BY <1>2, <1>5, ConcatProperties
  <2>2. raw' = raw \o b
    BY <1>0 DEF b
  <2>3. Len(b) \in Nat /\ Len(b) > 0
    BY <1>1 DEF b
  <2> QED
    BY <2>1, <2>2, <2>3 DEF Len0
<1>7. call' = [req |-> call.req, at0 |-> call.at0, len0 |-> call.len0, want |-> 0, got |-> <<>>]
  BY <1>0, <1>2
<1>8. Typed'
  <2>1. call' \in [req : Nat, at0 : Nat, len0 : Nat, want : Nat, got : Seq(Nat)]
    <3>1. call.req \in Nat /\ call.at0 \in Nat /\ call.len0 \in Nat /\ <<>> \in Seq(Nat)
      BY <1>2
    <3> QED
      BY <1>7, <3>1
  <2>2. pc' = "fill" /\ UNCHANGED <<file, inp, isrc, taken>>
    BY <1>0
  <2> QED
    BY <1>6, <2>1, <2>2 DEF IInv, Typed
<1>9. Words'
  BY <1>0, WordsKept DEF IInv
<1>10. Text'
  <2>1. taken' \o raw' = (taken \o raw) \o b
    <3>1. (taken \o raw) \o b = taken \o (raw \o b)
      <4>1. taken \in Seq(Nat) /\ raw \in Seq(Nat) /\ b \in Seq(Nat)
        BY <1>2, <1>5
      <4> QED
        BY <4>1, BytesAssociative
    <3> QED
      BY <1>0, <1>6, <3>1
  <2>2. Bytes(Chars(0, e)) \o Bytes(Chars(e, n)) = Bytes(Chars(0, e + n))
    <3> HIDE DEF n
    <3> QED
      BY <1>2, <1>3, BytesSplit
  <2>3. taken' \o raw' = Bytes(Chars(0, inp.decoded))
    BY <1>1, <1>3, <1>4, <2>1, <2>2
  <2>5. PICK c \in 0..inp.decoded : c = inp.decoded
    BY <1>2
  <2>6. Bytes(Chars(0, c))' = Bytes(Chars(0, c))
    BY <1>0, SameFile
  <2>7. Underway(c)'
    BY <1>0, <1>1, <2>5 DEF Underway, Flowing
  <2>8. taken' \o raw' = Bytes(Chars(0, c))' /\ c \in 0..inp'.decoded
    BY <1>0, <2>3, <2>5, <2>6
  <2> QED
    BY <2>7, <2>8 DEF Text
<1>11. Room'
  <2>1. Len0' <= BufSiz
    BY <1>0, <1>6 DEF Fits, b
  <2>2. call.len0 <= Len0 /\ call.req <= BufSiz /\ ~isrc.err
    BY <1>0 DEF IInv, Room, Flowing
  <2>3. Len0' > call.len0 /\ call.len0 <= Len0'
    <3> DEFINE l == Len(b)
               m == call.len0
    <3>1. Len0' = Len0 + l /\ l \in Nat /\ l > 0 /\ m \in Nat /\ m <= Len0 /\ Len0 \in Nat
      BY <1>2, <1>6, <2>2
    <3> HIDE DEF l, m
    <3>2. Len0' > m /\ m <= Len0'
      BY <3>1
    <3> QED
      BY <3>2 DEF m
  <2> QED
    BY <1>0, <1>7, <2>1, <2>2, <2>3 DEF Room, Flowing
<1>12. Ended'
  <2>1. ~isrc.eof /\ ~isrc.err
    BY <1>0 DEF IInv, Ended, Room
  <2> QED
    BY <1>0, <2>1 DEF Ended
<1> QED
  BY <1>8, <1>9, <1>10, <1>11, <1>12 DEF IInv

(* Bytes that do not fit were not asked for by a round that had room for   *)
(* the decoded words: it was for the one character.                        *)
LEMMA EncodeKeepsIInv == IInv /\ EncodeKeeps => IInv'
<1> SUFFICES ASSUME IInv, EncodeKeeps PROVE IInv'
  OBVIOUS
<1> DEFINE eof == Len0 = call.len0 /\ AtEof(inp)
<1>0. /\ pc = "encode" /\ call.got # <<>> /\ ~Fits /\ UNCHANGED <<file, raw, taken>>
      /\ isrc' = [isrc EXCEPT !.eof = @ \/ eof]
      /\ pc' = IF Len0 > call.len0 /\ Len0 < BufSiz THEN "read" ELSE "refill"
      /\ call' = [call EXCEPT !.want = 0, !.got = <<>>]
      /\ inp' = [inp EXCEPT !.wch_buffered = call.got[1]]
  BY DEF EncodeKeeps, FillReturned
<1>1. PICK e \in 0..inp.decoded :
           /\ taken \o raw = Bytes(Chars(0, e)) /\ Underway(e)
           /\ Len(call.got) \in Nat /\ Len(call.got) > 0
           /\ e + Len(call.got) = inp.decoded /\ e + Len(call.got) <= N
           /\ call.got = Chars(e, Len(call.got)) /\ inp.wch_buffered = 0
           /\ Len(Bytes(call.got)) \in Nat
           /\ Len(Bytes(call.got)) <= WchSiz * Len(call.got)
           /\ Len(Bytes(call.got)) > 0
  BY <1>0, Waiting
<1>2. /\ file \in Files /\ N \in Nat /\ inp.decoded \in Nat /\ Len0 \in Nat /\ BufSiz \in Nat
      /\ call.len0 \in Nat /\ Len0 <= BufSiz /\ WchSiz \in Nat /\ inp.is_eof \in {0, 1}
      /\ call \in [req : Nat, at0 : Nat, len0 : Nat, want : Nat, got : Seq(Nat)]
      /\ inp \in [read : Nat, decoded : Nat, is_eof : {0, 1}, wch_buffered : Nat]
  BY Basics, BufsOK DEF IInv, Typed
<1>3. call.want = Wanted /\ Len(call.got) <= call.want /\ (InPlace \/ Len0 < BufSiz)
  BY <1>0 DEF IInv, Room, Flowing
<1>4. /\ InPlaceAt \in Nat /\ Len0 <= InPlaceAt /\ Wanted \in Nat
      /\ InPlace => WchSiz * Wanted <= BufSiz - InPlaceAt
      /\ ~InPlace => Wanted = 1
  BY <1>2, RoomFor
<1>5. ~InPlace
  <2> SUFFICES ASSUME InPlace PROVE FALSE
    OBVIOUS
  <2>1. WchSiz * Len(call.got) <= WchSiz * Wanted
    <3> DEFINE a == Len(call.got)
               c == Wanted
    <3>1. a \in Nat /\ c \in Nat /\ a <= c
      BY <1>1, <1>3, <1>4
    <3> HIDE DEF a, c
    <3>2. WchSiz * a <= WchSiz * c
      BY <1>2, <3>1
    <3> QED
      BY <3>2 DEF a, c
  <2> DEFINE x == WchSiz * Len(call.got)
             y == WchSiz * Wanted
             l == Len(Bytes(call.got))
  <2>2. x <= y /\ y <= BufSiz - InPlaceAt /\ l <= x /\ l \in Nat /\ x \in Int /\ y \in Int
    BY <1>1, <1>2, <1>4, <2>1
  <2>3. ~(Len0 + l <= BufSiz)
    BY <1>0 DEF Fits
  <2> HIDE DEF x, y, l
  <2> QED
    BY <1>2, <1>4, <2>2, <2>3
<1>6. Len(call.got) = 1 /\ e + 1 = inp.decoded /\ Len0 < BufSiz /\ e \in Nat
  <2> DEFINE n == Len(call.got)
  <2>1. n \in Nat /\ n > 0 /\ n <= call.want /\ e + n = inp.decoded
    BY <1>1, <1>3
  <2>2. call.want = 1 /\ Len0 < BufSiz
    BY <1>3, <1>4, <1>5
  <2>3. e \in Nat
    BY <1>2
  <2> HIDE DEF n
  <2>4. n = 1 /\ e + 1 = inp.decoded
    BY <2>1, <2>2
  <2> QED
    BY <2>2, <2>3, <2>4 DEF n
<1>7. call.got[1] = inp.decoded /\ Len(Bytes(call.got)) = file.chars[inp.decoded].width
  <2>1. Chars(e, 1)[1] = e + 1
    BY DEF Chars
  <2>2. 1 \in Nat /\ e + 1 <= N
    BY <1>1, <1>6
  <2>3. Len(Bytes(Chars(e, 1))) = file.chars[e + 1].width
    BY <1>2, <1>6, <2>2, BytesBound
  <2>4. call.got = Chars(e, 1)
    BY <1>1, <1>6
  <2> QED
    BY <1>6, <2>1, <2>3, <2>4
<1>8. file.chars[inp.decoded].width > 1
  <2>1. file.chars[inp.decoded].width \in Nat
    BY <1>1, <1>7
  <2>2. ~(Len0 + file.chars[inp.decoded].width <= BufSiz)
    BY <1>0, <1>7 DEF Fits
  <2> DEFINE w == file.chars[inp.decoded].width
  <2>3. w \in Nat /\ ~(Len0 + w <= BufSiz) /\ Len0 < BufSiz /\ Len0 \in Nat /\ BufSiz \in Nat
    BY <1>2, <1>6, <2>1, <2>2
  <2> HIDE DEF w
  <2>4. w > 1
    BY <2>3
  <2> QED
    BY <2>4 DEF w
<1>9. /\ inp' = [read |-> inp.read, decoded |-> inp.decoded, is_eof |-> inp.is_eof,
                 wch_buffered |-> inp.decoded]
      /\ call' = [req |-> call.req, at0 |-> call.at0, len0 |-> call.len0, want |-> 0, got |-> <<>>]
  BY <1>0, <1>2, <1>7
<1>10. isrc \in [eof : BOOLEAN, err : BOOLEAN] /\ ~isrc.eof /\ ~isrc.err
  BY <1>0 DEF IInv, Ended, Room, Typed
<1>11. isrc' \in [eof : BOOLEAN, err : BOOLEAN] /\ ~isrc'.err /\ (isrc'.eof => AtEof(inp))
  <2>1. isrc' = [eof |-> (isrc.eof \/ eof), err |-> isrc.err]
    BY <1>0, <1>10
  <2>2. (isrc.eof \/ eof) \in BOOLEAN
    OBVIOUS
  <2>3. isrc'.eof = (isrc.eof \/ eof) /\ isrc'.err = isrc.err
    BY <2>1
  <2>4. isrc'.eof => eof
    BY <1>10, <2>3
  <2>5. isrc' \in [eof : BOOLEAN, err : BOOLEAN]
    BY <1>10, <2>1, <2>2
  <2> QED
    BY <1>10, <2>3, <2>4, <2>5
<1>12. AtEof(inp) => inp.is_eof = 1
  BY <1>2 DEF AtEof
<1>13. pc' \in {"read", "refill"}
  BY <1>0
<1>14. Typed'
  <2>1. call' \in [req : Nat, at0 : Nat, len0 : Nat, want : Nat, got : Seq(Nat)]
    <3>1. call.req \in Nat /\ call.at0 \in Nat /\ call.len0 \in Nat /\ <<>> \in Seq(Nat)
      BY <1>2
    <3> QED
      BY <1>9, <3>1
  <2>2. inp' \in [read : Nat, decoded : Nat, is_eof : {0, 1}, wch_buffered : Nat]
    <3>1. inp.read \in Nat
      BY <1>2
    <3> QED
      BY <1>2, <1>9, <3>1
  <2> QED
    BY <1>0, <1>11, <1>13, <2>1, <2>2 DEF IInv, Typed
<1>15. Words'
  <2>1. inp'.read = inp.read /\ inp'.decoded = inp.decoded /\ inp'.is_eof = inp.is_eof
    BY <1>9
  <2> QED
    BY <1>0, <1>13, <2>1, WordsKept DEF IInv
<1>16. Text'
  <2>1. Bytes(Chars(0, e))' = Bytes(Chars(0, e))
    BY <1>0, SameFile
  <2>2. inp'.decoded = inp.decoded /\ inp'.wch_buffered = inp.decoded /\ inp.decoded # 0
    BY <1>6, <1>9
  <2>3. Underway(e)'
    BY <1>6, <1>13, <2>2 DEF Underway, Flowing
  <2> QED
    BY <1>0, <1>1, <2>1, <2>2, <2>3 DEF Text
<1>17. Room'
  <2>1. Len0' = Len0
    BY <1>0, SameRaw
  <2>2. call'.req = call.req /\ call.req <= BufSiz
    BY <1>0, <1>9 DEF IInv, Room
  <2> QED
    BY <1>2, <1>6, <1>11, <1>13, <2>1, <2>2 DEF Room, Flowing
<1>18. Ended'
  <2>1. inp'.is_eof = inp.is_eof /\ inp'.wch_buffered = inp.decoded /\ inp.decoded # 0
    BY <1>6, <1>9
  <2> QED
    BY <1>0, <1>8, <1>11, <1>12, <1>13, <2>1 DEF Ended
<1> QED
  BY <1>14, <1>15, <1>16, <1>17, <1>18 DEF IInv

LEMMA StutterIInv == IInv /\ UNCHANGED vars => IInv'
<1> SUFFICES ASSUME IInv, UNCHANGED vars PROVE IInv'
  OBVIOUS
<1>0. UNCHANGED <<file, inp, raw, isrc, pc, call, taken>>
  BY DEF vars
<1>1. Typed'
  BY <1>0 DEF IInv, Typed
<1>2. Words'
  BY <1>0, SameFile DEF IInv, Words, N
<1>3. Text'
  <2>1. \A e \in 0..inp.decoded : (~isrc.err => Underway(e)) => (~isrc'.err => Underway(e)')
    BY <1>0 DEF Underway
  <2> QED
    BY <1>0, <2>1, TextKept DEF IInv
<1>4. Room'
  BY <1>0, SameRaw DEF IInv, Room
<1>5. Ended'
  BY <1>0, SameFile DEF IInv, Ended
<1> QED
  BY <1>1, <1>2, <1>3, <1>4, <1>5 DEF IInv

(* The decoder keeps its invariant: what has been taken and what lies in   *)
(* the raw buffer are the bytes of the first characters of the file, the   *)
(* next ones are on their way, and there is room for them.                 *)
THEOREM SpecIInv == Spec => []IInv
<1>1. IInv /\ [Next]_vars => IInv'
  BY TakeIInv, CallIInv, FillDrainIInv, FillFullIInv, DrainRoundIInv, DrainEndIInv,
     DrainFailsIInv, EncodeNoneIInv, EncodeIInv, EncodeKeepsIInv, StutterIInv
     DEF Next, InCall
<1> QED
  BY <1>1, InitIInv, PTL DEF Spec

-----------------------------------------------------------------------------
(* -------- what follows from it -------- *)

(* The whole characters, and their number.                                 *)
LEMMA WholeIs ==
  ASSUME file \in Files
  PROVE  LET c == IF file.cut = 0 THEN N ELSE N - 1
         IN c \in 0..N /\ Encoded = Bytes(Chars(0, c))
<1> DEFINE c == IF file.cut = 0 THEN N ELSE N - 1
<1>1. N \in Nat /\ DOMAIN file.chars = 1..N /\ c \in 0..N
  BY FileIs
<1>2. Whole = 1..c
  BY <1>1 DEF Whole, N
<1> HIDE DEF c
<1>3. Cardinality(Whole) = c
  BY <1>1, <1>2, FS_Interval
<1>4. [k \in 1..c |-> k] = Chars(0, c)
  BY <1>1 DEF Chars
<1> QED
  BY <1>1, <1>3, <1>4 DEF Encoded, c

LEMMA InvInOrder == IInv => InOrder
<1> SUFFICES ASSUME IInv PROVE InOrder
  OBVIOUS
<1>1. PICK e \in 0..inp.decoded : taken \o raw = Bytes(Chars(0, e))
  BY DEF IInv, Text
<1>2. file \in Files /\ inp.decoded \in 0..N /\ N \in Nat /\ inp.read \in Nat
      /\ WordsUpto[inp.decoded] \in Nat /\ FileWords \in Int
  BY Basics
<1> DEFINE c == IF file.cut = 0 THEN N ELSE N - 1
<1>3. c \in 0..N /\ Encoded = Bytes(Chars(0, c))
  BY <1>2, WholeIs
<1>4. WordsUpto[inp.decoded] <= FileWords
  BY <1>2 DEF IInv, Words
<1>5. inp.decoded <= c
  <2>1. file.cut # 0 => inp.decoded < N
    BY <1>2, <1>4, AllWords
  <2> QED
    BY <1>2, <2>1
<1> HIDE DEF c
<1>6. e \in Nat /\ c - e \in Nat /\ e + (c - e) = c /\ e + (c - e) <= N
  BY <1>2, <1>3, <1>5
<1>7. Bytes(Chars(0, e)) \o Bytes(Chars(e, c - e)) = Bytes(Chars(0, c))
  <2> DEFINE m == c - e
  <2>1. m \in Nat /\ e + m <= N /\ e + m = c
    BY <1>6
  <2> HIDE DEF m
  <2>2. Bytes(Chars(0, e)) \o Bytes(Chars(e, m)) = Bytes(Chars(0, e + m))
    BY <1>2, <1>6, <2>1, BytesSplit
  <2> QED
    BY <2>1, <2>2 DEF m
<1>8. Bytes(Chars(0, e)) \in Seq(1..N) /\ Bytes(Chars(e, c - e)) \in Seq(1..N)
  <2> DEFINE m == c - e
  <2>1. m \in Nat /\ e + m <= N /\ 0 + e <= N /\ 0 \in Nat /\ e \in Nat
    BY <1>2, <1>6
  <2> HIDE DEF m
  <2>2. Chars(0, e) \in Seq(1..N) /\ Chars(e, m) \in Seq(1..N)
    BY <1>2, <2>1, CharsAre
  <2>3. Bytes(Chars(0, e)) \in Seq(1..N) /\ Bytes(Chars(e, m)) \in Seq(1..N)
    BY <1>2, <2>2, BytesType
  <2> QED
    BY <2>3 DEF m
<1> DEFINE x == Bytes(Chars(0, e))
           y == Bytes(Chars(e, c - e))
<1>9. IsPrefix(x, x \o y)
  <2>0. x \in Seq(1..N) /\ y \in Seq(1..N)
    BY <1>8
  <2> HIDE DEF x, y
  <2> QED
    BY <2>0, IsFront
<1> QED
  BY <1>1, <1>3, <1>7, <1>9 DEF InOrder

LEMMA InvInPlaceSafe == IInv => InPlaceSafe
<1> SUFFICES ASSUME IInv PROVE InPlaceSafe
  OBVIOUS
<1>1. /\ Len0 \in Nat /\ BufSiz \in Nat /\ Len0 <= BufSiz /\ inp.read \in Nat
      /\ WordsUpto[inp.decoded] \in Nat /\ WrdBuf \in Nat /\ WchSiz \in Nat
  BY Basics, BufsOK
<1>2. n_wrds(inp) \in 0..WrdBuf
  BY <1>1 DEF IInv, Words, n_wrds
<1>3. ASSUME pc = "encode", InPlace
      PROVE  /\ InPlaceAt + WchSiz * Len(call.got) <= BufSiz
             /\ \A j \in DOMAIN call.got :
                  Len0 + Len(Bytes(SubSeq(call.got, 1, j))) <= InPlaceAt + WchSiz * j
  <2>1. /\ InPlaceAt \in Nat /\ Len0 <= InPlaceAt /\ Wanted \in Nat
        /\ WchSiz * Wanted <= BufSiz - InPlaceAt
    BY <1>1, <1>3, RoomFor
  <2>2. call.want = Wanted /\ Len(call.got) <= call.want /\ Len(call.got) \in Nat /\ call.got \in Seq(Nat)
    BY <1>3, Basics DEF IInv, Room, Flowing
  <2>3. WchSiz * Len(call.got) <= WchSiz * Wanted
    <3> DEFINE a == Len(call.got)
               c == Wanted
    <3>1. a \in Nat /\ c \in Nat /\ a <= c
      BY <2>1, <2>2
    <3> HIDE DEF a, c
    <3>2. WchSiz * a <= WchSiz * c
      BY <1>1, <3>1
    <3> QED
      BY <3>2 DEF a, c
  <2>4. InPlaceAt + WchSiz * Len(call.got) <= BufSiz
    <3> DEFINE x == WchSiz * Len(call.got)
               y == WchSiz * Wanted
    <3>1. x \in Int /\ y \in Int /\ x <= y /\ y <= BufSiz - InPlaceAt
      BY <1>1, <2>1, <2>2, <2>3
    <3> HIDE DEF x, y
    <3>2. InPlaceAt + x <= BufSiz
      BY <1>1, <2>1, <3>1
    <3> QED
      BY <3>2 DEF x
  <2>5. ASSUME NEW j \in DOMAIN call.got
        PROVE  Len0 + Len(Bytes(SubSeq(call.got, 1, j))) <= InPlaceAt + WchSiz * j
    <3>1. ~isrc.err
      BY <1>3 DEF IInv, Room
    <3>2. PICK e \in 0..inp.decoded : Underway(e)
      BY <3>1 DEF IInv, Text
    <3>3. e + Len(call.got) = inp.decoded /\ call.got = Chars(e, Len(call.got))
      BY <1>3, <3>2 DEF Underway, Flowing
    <3>4. inp.decoded \in 0..N /\ N \in Nat /\ file \in Files
      BY Basics
    <3> DEFINE n == Len(call.got)
    <3>5. e \in Nat /\ n \in Nat /\ e + n <= N /\ j \in 1..n /\ j \in 0..n /\ j \in Nat /\ e + j <= N
      <4>1. j \in 1..n /\ n \in Nat
        BY <2>2, LenProperties
      <4>2. e \in Nat /\ e + n <= N
        BY <3>3, <3>4
      <4> HIDE DEF n
      <4> QED
        BY <3>4, <4>1, <4>2
    <3> HIDE DEF n
    <3>6. SubSeq(Chars(e, n), 1, j) = Chars(e, j)
      <4>1. \A i \in 0..n : SubSeq(Chars(e, n), 1, i) = Chars(e, i)
        BY <3>4, <3>5, CharsAre, ZenonT(30)
      <4> QED
        BY <3>5, <4>1
    <3>7. Len(Bytes(Chars(e, j))) \in Nat /\ Len(Bytes(Chars(e, j))) <= WchSiz * j
      BY <3>4, <3>5, BytesBound
    <3>8. SubSeq(call.got, 1, j) = Chars(e, j)
      BY <3>3, <3>6 DEF n
    <3> DEFINE x == WchSiz * j
               l == Len(Bytes(Chars(e, j)))
    <3>9. x \in Int /\ l \in Nat /\ l <= x
      BY <1>1, <3>5, <3>7
    <3> HIDE DEF x, l
    <3>10. Len0 + l <= InPlaceAt + x
      BY <1>1, <2>1, <3>9
    <3> QED
      BY <3>8, <3>10 DEF x, l
  <2> QED
    BY <2>4, <2>5
<1> QED
  BY <1>1, <1>2, <1>3 DEF InPlaceSafe

LEMMA InvEndsTruly == IInv => EndsTruly
<1> SUFFICES ASSUME IInv PROVE EndsTruly
  OBVIOUS
<1>1. isrc.err => file.fails \/ file.cut > 0
  BY DEF IInv, Ended
<1>2. ASSUME isrc.eof, ~isrc.err, taken \o raw # Encoded
      PROVE  /\ inp.wch_buffered # 0 /\ file.chars[inp.wch_buffered].width > 1
             /\ inp.is_eof = 1 /\ n_wrds(inp) < 4
             /\ taken \o raw = Bytes([k \in 1..(inp.wch_buffered - 1) |-> k])
  <2>1. /\ file \in Files /\ N \in Nat /\ inp.decoded \in 0..N /\ inp.read \in Nat
        /\ WordsUpto[inp.decoded] \in Nat /\ FileWords \in Int
    BY Basics
  <2>2. pc \notin Flowing /\ inp.is_eof = 1
    BY <1>2 DEF IInv, Ended, Flowing
  <2>3. PICK e \in 0..inp.decoded : taken \o raw = Bytes(Chars(0, e)) /\ Underway(e)
    BY <1>2 DEF IInv, Text
  <2>4. inp.read = FileWords /\ inp.read < WordsUpto[inp.decoded] + 4
    BY <2>2 DEF IInv, Words
  <2>5. IF inp.wch_buffered = 0 THEN e = inp.decoded
        ELSE inp.wch_buffered = inp.decoded /\ e + 1 = inp.decoded
    BY <2>2, <2>3 DEF Underway
  <2>6. ~(inp.read = WordsUpto[inp.decoded] /\ inp.wch_buffered = 0)
    <3> SUFFICES ASSUME inp.read = WordsUpto[inp.decoded], inp.wch_buffered = 0 PROVE FALSE
      OBVIOUS
    <3>1. WordsUpto[inp.decoded] = FileWords /\ WordsUpto[inp.decoded] <= FileWords
      BY <2>1, <2>4
    <3>2. inp.decoded = N /\ file.cut = 0
      BY <2>1, <3>1, AllWords
    <3>3. Encoded = Bytes(Chars(0, N))
      BY <2>1, <3>2, WholeIs
    <3> QED
      BY <1>2, <2>3, <2>5, <3>2, <3>3
  <2>7. inp.wch_buffered # 0 /\ file.chars[inp.wch_buffered].width > 1
    BY <1>2, <2>6 DEF IInv, Ended
  <2>8. n_wrds(inp) < 4
    BY <2>1, <2>4 DEF n_wrds
  <2>9. inp.wch_buffered - 1 = e
    BY <2>1, <2>5, <2>7
  <2>10. [k \in 1..e |-> k] = Chars(0, e)
    BY DEF Chars
  <2> QED
    BY <2>2, <2>3, <2>7, <2>8, <2>9, <2>10
<1> QED
  BY <1>1, <1>2 DEF EndsTruly

(* Whatever the file and the buffers, it is decoded in place and in order: *)
(* uls_fill_utf8buf() never writes over a word that it has still to encode *)
(* and the reader takes the characters whole, none twice, none left out.   *)
THEOREM DecodedInPlaceHolds == Spec => []DecodedInPlace
<1>1. IInv => DecodedInPlace
  BY InvInOrder, InvInPlaceSafe DEF DecodedInPlace
<1> QED
  BY <1>1, SpecIInv, PTL

(* And what it leaves out at the end of the file is one character kept in  *)
(* wch_buffered and fewer than four words, never more.                     *)
THEOREM EndsTrulyHolds == Spec => []EndsTruly
  BY InvEndsTruly, SpecIInv, PTL

=============================================================================
