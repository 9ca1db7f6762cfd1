--------------------------- MODULE PushBack_proofs ---------------------------
(***************************************************************************)
(* The line buffers text is put back into, for buffers, gaps and stacks of *)
(* any size, any number of push-backs and whatever memory holds: a caller  *)
(* that keeps to what the gap holds never meets a segment without a token, *)
(* and every context points into its buffer (NoCrashHolds); and when it    *)
(* puts back no literal, it gets what it put back before what was to come, *)
(* as the queue of TextQueue says (PutBackDelivered).                      *)
(***************************************************************************)
EXTENDS PushBack, Flattening

(* What holds of a context.  The line at hand ends with a NUL; so does the *)
(* segment of every slot still to come, outside of the line (where text is *)
(* put) and below the end of the buffer (where room is made); and every    *)
(* slot but the last holds a literal.                                      *)
EndsAt(c, k, e) ==
  /\ e \in c.slot[k].off + 1..Len(c.mem) /\ c.mem[e] = NUL
  /\ e < c.line \/ c.lend <= e
  /\ c.n > 0 => e <= c.zlen
Segments(c) == \A k \in c.i..c.n : \E e \in Nat : EndsAt(c, k, e)
Places(c) ==
  /\ c.line <= c.lptr /\ c.lptr <= c.lend /\ c.lend <= Len(c.mem) /\ c.zlen <= Len(c.mem)
  /\ c.line = 0 => c.lend = 0
  /\ c.lend > 0 => c.mem[c.lend] = NUL
  /\ \A k \in 0..SegMax : c.slot[k].off <= Len(c.mem)
HasLiterals(c) == \A k \in c.i..c.n - 1 : c.slot[k].q \in Literals
Sound(c) == Places(c) /\ Segments(c) /\ HasLiterals(c) /\ (c.tok = EOF => c.want)

(* ... and of a stack of them: the lowest one delivers no EOF.             *)
Good(st) ==
  /\ st \in Seq(Context) /\ st # <<>> /\ ~st[Len(st)].want
  /\ \A k \in 1..Len(st) : Sound(st[k])

IInv == Good(stack) /\ ~crashed
-----------------------------------------------------------------------------
(* -------- Contexts and what they hold -------- *)

(* The fields of a context.                                                *)
LEMMA Fields ==
  ASSUME NEW c \in Context
  PROVE  /\ c.mem \in Seq(Item) /\ c.zlen \in Nat /\ c.line \in Nat /\ c.lptr \in Nat /\ c.lend \in Nat
         /\ c.i \in 0..SegMax /\ c.n \in 0..SegMax /\ c.i \in Nat /\ c.n \in Nat /\ SegMax \in Nat /\ SegMax >= 2
         /\ c.tok \in Seq(Item) /\ c.want \in BOOLEAN /\ c.ungot \in BOOLEAN
         /\ Len(c.mem) \in Nat /\ DOMAIN c.mem = 1..Len(c.mem) /\ Gap \in Nat \ {0}
         /\ c.slot \in [0..SegMax -> [off : Nat, q : Literals \cup {NoLit, NilTok}]]
         /\ \A k \in 0..SegMax : c.slot[k].off \in Nat /\ c.slot[k].q \in Literals \cup {NoLit, NilTok}
<1>1. SegMax \in Nat /\ SegMax >= 2 /\ Gap \in Nat \ {0}
  BY PushBackConstants
<1>2. /\ c.mem \in Seq(Item) /\ c.zlen \in Nat /\ c.line \in Nat /\ c.lptr \in Nat /\ c.lend \in Nat
      /\ c.i \in 0..SegMax /\ c.n \in 0..SegMax /\ c.tok \in Seq(Item) /\ c.want \in BOOLEAN /\ c.ungot \in BOOLEAN
      /\ c.slot \in [0..SegMax -> [off : Nat, q : Literals \cup {NoLit, NilTok}]]
  BY DEF Context
<1>3. \A k \in 0..SegMax : c.slot[k] \in [off : Nat, q : Literals \cup {NoLit, NilTok}]
  BY <1>2
<1>4. \A k \in 0..SegMax : c.slot[k].off \in Nat /\ c.slot[k].q \in Literals \cup {NoLit, NilTok}
  BY <1>3
<1>5. Len(c.mem) \in Nat /\ DOMAIN c.mem = 1..Len(c.mem)
  BY <1>2
<1>6. c.i \in Nat /\ c.n \in Nat
  BY <1>1, <1>2
<1> QED
  BY <1>1, <1>2, <1>4, <1>5, <1>6

(* What is an item of a buffer.                                            *)
LEMMA Items ==
  /\ SP \in Item /\ NUL \in Item /\ Fresh \in Item /\ SP # NUL
  /\ NONE \in Seq(Item) /\ EOF \in Seq(Item) /\ EOI \in Seq(Item)
  /\ EOF # NONE /\ EOI # EOF
  /\ \A q \in Literals : q \in Item /\ q # NoLit /\ q # NilTok /\ <<q>> # NONE /\ <<q>> # EOF
  /\ NoLit # NilTok /\ EOF[1] \notin WordChars /\ NONE[1] \notin Literals
<1>1. \A t \in {EOF, EOI, NONE} : t = <<t[1]>> /\ t[1] \notin WordChars \cup Literals
  BY TokensDiffer
<1>2. EOF[1] \in Item /\ EOI[1] \in Item /\ NONE[1] \in Item
  BY DEF Item
<1>3. EOF = <<EOF[1]>> /\ EOI = <<EOI[1]>> /\ NONE = <<NONE[1]>>
  BY <1>1
<1>4. EOF \in Seq(Item) /\ EOI \in Seq(Item) /\ NONE \in Seq(Item)
  <2>1. \A x \in Item : <<x>> \in Seq(Item)
    OBVIOUS
  <2> QED
    BY <1>2, <1>3, <2>1
<1>5. ASSUME NEW q \in Literals PROVE q \in Item /\ q # NoLit /\ q # NilTok /\ <<q>> # NONE /\ <<q>> # EOF
  <2>1. <<q>>[1] = q
    OBVIOUS
  <2>2. NONE[1] # q /\ EOF[1] # q
    BY <1>1
  <2>3. q # NoLit /\ q # NilTok
    BY TokensDiffer
  <2>4. q \in Item
    BY DEF Item
  <2> QED
    BY <2>1, <2>2, <2>3, <2>4
<1>6. SP # NUL /\ Fresh \in Item
  BY PushBackConstants DEF Item
<1>7. EOF # NONE /\ EOI # EOF
  BY TokensDiffer
<1> QED
  BY <1>1, <1>4, <1>5, <1>6, <1>7 DEF Item, NoLit, NilTok

(* The text at p ends at the first NUL.                                    *)
LEMMA EndFound ==
  ASSUME NEW c \in Context, NEW p \in 1..Len(c.mem), NEW e \in p..Len(c.mem), c.mem[e] = NUL
  PROVE  /\ EndOfText(c, p) \in p..e /\ c.mem[EndOfText(c, p)] = NUL
         /\ \A i \in p..EndOfText(c, p) - 1 : c.mem[i] # NUL
<1> DEFINE nuls == {i \in p..Len(c.mem) : c.mem[i] = NUL}
           First(x) == c.mem[x] = NUL /\ \A i \in p..x - 1 : c.mem[i] # NUL
<1>1. Len(c.mem) \in Nat
  BY Fields
<1>2. PICK x \in nuls : \A y \in nuls : x <= y
  <2>1. nuls \subseteq Nat /\ e \in nuls
    BY <1>1
  <2> HIDE DEF nuls
  <2> QED
    BY <2>1, Least
<1>3. x \in p..Len(c.mem) /\ First(x)
  <2>1. \A i \in p..x - 1 : i \in p..Len(c.mem) /\ i < x
    BY <1>1, <1>2
  <2> QED
    BY <1>2, <2>1
<1>4. p # 0
  OBVIOUS
<1>5. EndOfText(c, p) = CHOOSE y \in p..Len(c.mem) : First(y)
  BY <1>4 DEF EndOfText
<1> DEFINE end == CHOOSE y \in p..Len(c.mem) : First(y)
<1>6. end \in p..Len(c.mem) /\ First(end)
  BY <1>3
<1>7. end <= e
  <2>1. SUFFICES ASSUME e < end PROVE FALSE
    BY <1>1, <1>6
  <2>2. e \in p..end - 1
    BY <1>1, <1>6, <2>1
  <2> QED
    BY <1>6, <2>2
<1>8. EndOfText(c, p) = end
  BY <1>5
<1>9. c.mem[end] = NUL /\ \A i \in p..end - 1 : c.mem[i] # NUL
  BY <1>6
<1> HIDE DEF end
<1>10. end \in p..e
  BY <1>1, <1>6, <1>7
<1> QED
  BY <1>8, <1>9, <1>10

(* Writing changes items only where it writes.                             *)
LEMMA WrittenIs ==
  ASSUME NEW mem \in Seq(Item), NEW p \in Nat, NEW txt \in Seq(Item)
  PROVE  /\ Written(mem, p, txt) \in Seq(Item) /\ Len(Written(mem, p, txt)) = Len(mem)
         /\ \A i \in 1..Len(mem) : i < p \/ p + Len(txt) <= i => Written(mem, p, txt)[i] = mem[i]
         /\ \A i \in 1..Len(mem) : i \in p..p + Len(txt) - 1 => Written(mem, p, txt)[i] = txt[i - p + 1]
<1>1. /\ DOMAIN mem = 1..Len(mem) /\ Len(mem) \in Nat /\ Len(txt) \in Nat
      /\ \A i \in 1..Len(mem) : mem[i] \in Item /\ \A j \in 1..Len(txt) : txt[j] \in Item
  OBVIOUS
<1> DEFINE w == Written(mem, p, txt)
<1>2. w = [i \in 1..Len(mem) |-> IF i \in p..p + Len(txt) - 1 THEN txt[i - p + 1] ELSE mem[i]]
  BY <1>1 DEF Written
<1>3. \A i \in 1..Len(mem) : w[i] = IF i \in p..p + Len(txt) - 1 THEN txt[i - p + 1] ELSE mem[i]
  BY <1>2
<1>4. \A i \in 1..Len(mem) : i \in p..p + Len(txt) - 1 => i - p + 1 \in 1..Len(txt)
  BY <1>1
<1>5. \A i \in 1..Len(mem) : w[i] \in Item
  BY <1>1, <1>3, <1>4
<1>6. w \in [1..Len(mem) -> Item]
  BY <1>2, <1>5
<1> HIDE DEF w
<1>7. w \in Seq(Item) /\ Len(w) = Len(mem)
  BY <1>1, <1>6
<1>8. \A i \in 1..Len(mem) : i < p \/ p + Len(txt) <= i => i \notin p..p + Len(txt) - 1
  BY <1>1
<1> QED
  BY <1>3, <1>7, <1>8 DEF w

(* Growing keeps what was there.                                           *)
LEMMA GrownIs ==
  ASSUME NEW mem \in Seq(Item), NEW k \in Nat, NEW len \in Nat
  PROVE  LET g == Grown(mem, k, len)
         IN /\ g \in Seq(Item) /\ Len(g) >= Len(mem) /\ Len(g) >= k + len
            /\ \A i \in 1..Len(mem) : g[i] = mem[i]
<1> DEFINE g == Grown(mem, k, len)
           m == IF Len(mem) > k + len THEN Len(mem) ELSE k + len
<1>1. DOMAIN mem = 1..Len(mem) /\ Len(mem) \in Nat /\ \A i \in 1..Len(mem) : mem[i] \in Item
  OBVIOUS
<1>2. g = [p \in 1..m |-> IF p <= Len(mem) THEN mem[p] ELSE Fresh]
  BY DEF Grown
<1>3. m \in Nat /\ m >= Len(mem) /\ m >= k + len
  BY <1>1
<1> HIDE DEF m
<1>4. \A p \in 1..m : g[p] = IF p <= Len(mem) THEN mem[p] ELSE Fresh
  BY <1>2
<1>5. \A p \in 1..m : p <= Len(mem) => p \in 1..Len(mem)
  BY <1>1, <1>3
<1>6. \A p \in 1..m : g[p] \in Item
  BY <1>1, <1>4, <1>5, Items
<1>7. g \in [1..m -> Item]
  BY <1>2, <1>6
<1> HIDE DEF g
<1>8. g \in Seq(Item) /\ Len(g) = m
  BY <1>3, <1>7
<1>9. \A i \in 1..Len(mem) : i \in 1..m /\ i <= Len(mem)
  BY <1>1, <1>3
<1>10. \A i \in 1..Len(mem) : g[i] = mem[i]
  BY <1>4, <1>9
<1> QED
  BY <1>3, <1>8, <1>10 DEF g
-----------------------------------------------------------------------------
(* -------- Calls on one context -------- *)

(* Moving on within the line.                                              *)
LEMMA MoveKeeps ==
  ASSUME NEW c \in Context, Sound(c), NEW p \in Nat, c.line <= p, p <= c.lend
  PROVE  [c EXCEPT !.lptr = p] \in Context /\ Sound([c EXCEPT !.lptr = p])
<1> DEFINE d == [c EXCEPT !.lptr = p]
<1>1. d \in Context
  BY DEF Context
<1>2. /\ d.lptr = p /\ d.line = c.line /\ d.lend = c.lend /\ d.mem = c.mem /\ d.zlen = c.zlen
      /\ d.slot = c.slot /\ d.i = c.i /\ d.n = c.n /\ d.tok = c.tok /\ d.want = c.want
  BY DEF Context
<1> HIDE DEF d
<1>3. Places(d)
  BY <1>2 DEF Sound, Places
<1>4. Segments(d) /\ HasLiterals(d)
  BY <1>2 DEF Sound, Segments, EndsAt, HasLiterals
<1>5. d.tok = EOF => d.want
  BY <1>2 DEF Sound
<1> QED
  BY <1>1, <1>3, <1>4, <1>5 DEF d, Sound

(* Remembering a token.                                                    *)
LEMMA TokenKeeps ==
  ASSUME NEW c \in Context, Sound(c), NEW t \in Seq(Item), t = EOF => c.want, NEW u \in BOOLEAN
  PROVE  [c EXCEPT !.tok = t, !.ungot = u] \in Context /\ Sound([c EXCEPT !.tok = t, !.ungot = u])
<1> DEFINE d == [c EXCEPT !.tok = t, !.ungot = u]
<1>1. d \in Context
  BY DEF Context
<1>2. /\ d.lptr = c.lptr /\ d.line = c.line /\ d.lend = c.lend /\ d.mem = c.mem /\ d.zlen = c.zlen
      /\ d.slot = c.slot /\ d.i = c.i /\ d.n = c.n /\ d.tok = t /\ d.want = c.want
  BY DEF Context
<1> HIDE DEF d
<1>3. Places(d)
  BY <1>2 DEF Sound, Places
<1>4. Segments(d) /\ HasLiterals(d)
  BY <1>2 DEF Sound, Segments, EndsAt, HasLiterals
<1> QED
  BY <1>1, <1>2, <1>3, <1>4 DEF d, Sound

(* Writing text within the line, in front of its NUL.                      *)
LEMMA PutKeeps ==
  ASSUME NEW c \in Context, Sound(c), NEW t \in Seq(Item), c.lptr + Len(t) <= c.lend
  PROVE  /\ [c EXCEPT !.mem = Written(@, c.lptr, t)] \in Context
         /\ Sound([c EXCEPT !.mem = Written(@, c.lptr, t)])
<1> DEFINE d == [c EXCEPT !.mem = Written(@, c.lptr, t)]
           w == Written(c.mem, c.lptr, t)
<1>0. /\ c.mem \in Seq(Item) /\ c.lptr \in Nat /\ c.line \in Nat /\ c.lend \in Nat /\ c.zlen \in Nat
      /\ Len(c.mem) \in Nat /\ Len(t) \in Nat
      /\ c.i \in Nat /\ c.n \in Nat
      /\ \A k \in 0..SegMax : c.slot[k].off \in Nat
  BY Fields, LenProperties
<1>1. /\ w \in Seq(Item) /\ Len(w) = Len(c.mem)
      /\ \A i \in 1..Len(c.mem) : i < c.lptr \/ c.lptr + Len(t) <= i => w[i] = c.mem[i]
  BY SMTT(30), <1>0, WrittenIs
<1> HIDE DEF w
<1>2. d = [c EXCEPT !.mem = w]
  BY DEF w
<1>3. d \in Context
  BY <1>1, <1>2 DEF Context
<1>4. /\ d.lptr = c.lptr /\ d.line = c.line /\ d.lend = c.lend /\ d.mem = w /\ d.zlen = c.zlen
      /\ d.slot = c.slot /\ d.i = c.i /\ d.n = c.n /\ d.tok = c.tok /\ d.want = c.want
  BY <1>2 DEF Context
<1> HIDE DEF d
<1>5. Places(c)
  BY DEF Sound
<1>6. Places(d)
  <2>1. c.lend > 0 => c.lend \in 1..Len(c.mem)
    BY <1>0, <1>5 DEF Places
  <2>2. c.lend > 0 => w[c.lend] = c.mem[c.lend]
    BY <1>0, <1>1, <2>1
  <2> QED
    BY <1>1, <1>4, <1>5, <2>2 DEF Places
<1>7. ASSUME NEW k \in c.i..c.n, NEW e \in Nat, EndsAt(c, k, e) PROVE EndsAt(d, k, e)
  <2>0. k \in 0..SegMax
    BY <1>0, Fields
  <2>1. e \in 1..Len(c.mem) /\ (e < c.lptr \/ c.lptr + Len(t) <= e)
    <3>1. /\ e \in c.slot[k].off + 1..Len(c.mem) /\ (e < c.line \/ e >= c.lend)
          /\ c.slot[k].off \in Nat /\ c.line <= c.lptr
      BY <1>0, <1>5, <1>7, <2>0 DEF EndsAt, Places
    <3>2. e \in 1..Len(c.mem)
      BY ONLY SMTT(30), <3>1, <1>0
    <3>3. CASE e < c.line
      BY ONLY <3>1, <3>2, <3>3, <1>0, <1>7
    <3>4. CASE e >= c.lend
      <4>1. c.lptr + Len(t) <= c.lend
        OBVIOUS
      <4> QED
        BY ONLY <4>1, <3>2, <3>4, <1>0
    <3>5. e < c.line \/ e >= c.lend
      BY <3>1
    <3> QED
      BY ONLY <3>2, <3>3, <3>4, <3>5
  <2>2. w[e] = c.mem[e]
    BY <1>1, <2>1
  <2> QED
    BY <1>1, <1>4, <1>7, <2>2 DEF EndsAt
<1>8. Segments(d)
  BY <1>4, <1>7 DEF Sound, Segments
<1>9. HasLiterals(d) /\ (d.tok = EOF => d.want)
  BY <1>4 DEF Sound, HasLiterals
<1> QED
  BY <1>3, <1>6, <1>8, <1>9 DEF d, Sound

(* A context which room is made in: the segments still to come begin below *)
(* the end of its buffer; slot i need not be about anything yet.           *)
Ready(c) ==
  /\ c.zlen <= Len(c.mem)
  /\ \A k \in 0..SegMax : c.slot[k].off <= Len(c.mem)
  /\ \A k \in c.i + 1..c.n : c.slot[k].off <= c.zlen
  /\ \A k \in c.i + 1..c.n - 1 : c.slot[k].q \in Literals
  /\ c.tok # EOF

LEMMA AllocKeeps ==
  ASSUME NEW c \in Context, Ready(c), NEW len \in Nat, NEW q \in Literals \cup {NoLit, NilTok},
         c.i < c.n => q \in Literals
  PROVE  LET d == Alloc(c, len, q)
         IN /\ d \in Context /\ Sound(d) /\ d.lptr + len = d.lend /\ d.want = c.want
            /\ d.tok # EOF
<1> DEFINE k1 == c.zlen
           line == k1 + 1
           lend == line + Gap + len
           g == Grown(c.mem, k1, Gap + len + 1)
           w == Written(g, lend, <<NUL>>)
           s == [c.slot EXCEPT ![c.i] = Slot(k1, q)]
           d == Alloc(c, len, q)
<1>0. /\ c.mem \in Seq(Item) /\ c.zlen \in Nat /\ Len(c.mem) \in Nat /\ c.i \in Nat /\ c.n \in Nat
      /\ c.i \in 0..SegMax /\ c.n \in 0..SegMax /\ SegMax \in Nat /\ Gap \in Nat /\ Gap > 0
      /\ c.slot \in [0..SegMax -> [off : Nat, q : Literals \cup {NoLit, NilTok}]]
      /\ \A k \in 0..SegMax : c.slot[k].off \in Nat
  BY Fields
<1>1. line \in Nat /\ lend \in Nat /\ line > 0 /\ line + Gap <= lend /\ k1 + (Gap + len + 1) = lend /\ line = k1 + 1
      /\ (line + Gap) + len = lend /\ line + Gap \in Nat /\ k1 \in Nat /\ lend > 0 /\ Gap + len + 1 \in Nat
  <2>1. k1 \in Nat /\ Gap \in Nat /\ Gap > 0
    BY <1>0
  <2> HIDE DEF k1
  <2> QED
    BY <2>1
<1>2. /\ g \in Seq(Item) /\ Len(g) >= Len(c.mem) /\ Len(g) >= lend
      /\ \A i \in 1..Len(c.mem) : g[i] = c.mem[i]
  <2>1. Gap + len + 1 \in Nat /\ k1 \in Nat /\ c.mem \in Seq(Item) /\ k1 + (Gap + len + 1) = lend
    BY <1>0, <1>1
  <2> HIDE DEF k1, lend
  <2> QED
    BY <2>1, GrownIs
<1>3. /\ w \in Seq(Item) /\ Len(w) = Len(g)
      /\ \A i \in 1..Len(g) : i < lend => w[i] = g[i]
      /\ w[lend] = NUL
  <2> DEFINE one == <<NUL>>
  <2>1. one \in Seq(Item) /\ Len(one) = 1 /\ one[1] = NUL
    BY Items
  <2>0. lend \in Nat /\ lend > 0 /\ g \in Seq(Item) /\ Len(g) >= lend /\ Len(g) \in Nat
    BY <1>1, <1>2, LenProperties
  <2>4. w = Written(g, lend, one)
    OBVIOUS
  <2> HIDE DEF g, lend, one, w
  <2>2. /\ w \in Seq(Item) /\ Len(w) = Len(g)
        /\ \A i \in 1..Len(g) : i < lend \/ lend + Len(one) <= i => w[i] = g[i]
        /\ \A i \in 1..Len(g) : i \in lend..lend + Len(one) - 1 => w[i] = one[i - lend + 1]
    <3>1. lend \in Nat /\ g \in Seq(Item) /\ one \in Seq(Item)
      BY <2>0, <2>1
    <3> QED
      BY <3>1, <2>4, WrittenIs
  <2>3. lend \in 1..Len(g) /\ lend \in lend..lend + 1 - 1 /\ lend - lend + 1 = 1
    BY <2>0
  <2> QED
    BY <2>1, <2>2, <2>3
<1>4. s \in [0..SegMax -> [off : Nat, q : Literals \cup {NoLit, NilTok}]]
      /\ s[c.i].off = k1 /\ s[c.i].q = q /\ \A k \in 0..SegMax : k # c.i => s[k] = c.slot[k]
  BY <1>0 DEF Slot
<1>5. d = [c EXCEPT !.mem = w, !.zlen = lend, !.line = line, !.lptr = line + Gap, !.lend = lend, !.slot = s]
  <2>1. k1 + Gap + len + 1 = lend
    BY <1>0
  <2>2. d = [c EXCEPT !.mem = w, !.zlen = k1 + Gap + len + 1, !.line = line, !.lptr = line + Gap,
                      !.lend = lend, !.slot[c.i] = Slot(k1, q)]
    BY DEF Alloc
  <2> HIDE DEF w, lend, line, d, k1
  <2> QED
    BY <2>1, <2>2 DEF Context
<1> HIDE DEF w, lend, line, d, k1, g, s
<1>6. d \in Context
  BY <1>1, <1>3, <1>4, <1>5 DEF Context
<1>7. /\ d.mem = w /\ d.zlen = lend /\ d.line = line /\ d.lptr = line + Gap /\ d.lend = lend /\ d.slot = s
      /\ d.i = c.i /\ d.n = c.n /\ d.tok = c.tok /\ d.want = c.want /\ d.kind = c.kind
  BY <1>5 DEF Context
<1>8. k1 = c.zlen /\ k1 <= Len(c.mem) /\ k1 < lend /\ Len(w) \in Nat /\ k1 \in Nat
  <2>1. k1 = c.zlen /\ k1 <= Len(c.mem)
    BY DEF Ready, k1
  <2>2. k1 < lend
    <3>1. Gap + len + 1 > 0
      BY ONLY <1>0, len \in Nat
    <3> QED
      BY ONLY <1>1, <3>1
  <2>3. Len(w) \in Nat
    BY <1>3, LenProperties
  <2> QED
    BY <1>1, <2>1, <2>2, <2>3
<1>20. Len(c.mem) <= Len(w) /\ lend <= Len(w) /\ Len(g) = Len(w) /\ Len(g) \in Nat
  BY <1>2, <1>3, <1>8
<1>9. Places(d)
  <2>1. ASSUME NEW k \in 0..SegMax PROVE s[k].off <= Len(w)
    <3>1. CASE k = c.i
      <4>1. s[k].off = k1
        BY <3>1, <1>4
      <4> QED
        BY <4>1, <1>0, <1>8, <1>20
    <3>2. CASE k # c.i
      <4>1. s[k].off = c.slot[k].off
        BY <3>2, <1>4
      <4>2. c.slot[k].off <= Len(c.mem) /\ c.slot[k].off \in Nat
        BY <1>0 DEF Ready
      <4> QED
        BY ONLY SMTT(30), <4>1, <4>2, <1>0, <1>8, <1>20
    <3> QED
      BY <3>1, <3>2
  <2>2. /\ d.line <= d.lptr /\ d.lptr <= d.lend /\ d.lend <= Len(d.mem) /\ d.zlen <= Len(d.mem)
        /\ d.line # 0
    <3>1. line <= line + Gap
      BY <1>0, <1>1
    <3> QED
      BY <1>1, <1>7, <1>20, <3>1
  <2> QED
    BY <1>3, <1>7, <2>1, <2>2 DEF Places
<1>10. ASSUME NEW k \in c.i..c.n PROVE EndsAt(d, k, lend)
  <2>1. k \in 0..SegMax
    BY <1>0
  <2>2. s[k].off <= k1 /\ s[k].off \in Nat
    <3>1. CASE k = c.i
      BY <3>1, <1>4, <1>8
    <3>2. CASE k # c.i
      <4>1. k \in c.i + 1..c.n
        BY <3>2, <1>0
      <4> QED
        BY <4>1, <3>2, <2>1, <1>0, <1>4, <1>8 DEF Ready
    <3> QED
      BY <3>1, <3>2
  <2>3. lend \in s[k].off + 1..Len(w)
    <3>1. PICK o \in Nat : o = s[k].off
      BY <2>2
    <3>2. PICK m \in Nat : m = Len(w)
      BY <1>8
    <3>3. o <= k1 /\ k1 < lend /\ lend <= m
      BY <1>8, <1>20, <2>2, <3>1, <3>2
    <3>4. lend \in o + 1..m
      BY <1>1, <3>3
    <3> QED
      BY <3>1, <3>2, <3>4
  <2> QED
    BY <1>3, <1>7, <2>3 DEF EndsAt
<1>11. HasLiterals(d)
  <2>1. ASSUME NEW k \in c.i..c.n - 1 PROVE s[k].q \in Literals
    <3>1. CASE k = c.i
      BY <3>1, <1>0, <1>4
    <3>2. CASE k # c.i
      <4>1. k \in c.i + 1..c.n - 1 /\ k \in 0..SegMax
        <5>1. PICK i0 \in Nat, n0 \in Nat : i0 = c.i /\ n0 = c.n /\ n0 <= SegMax
          BY <1>0
        <5>2. k \in i0..n0 - 1 /\ k # i0
          BY <5>1, <3>2
        <5>3. k \in i0 + 1..n0 - 1 /\ k \in 0..SegMax
          BY ONLY <5>1, <5>2, <1>0
        <5> QED
          BY <5>1, <5>3
      <4> QED
        BY <4>1, <3>2, <1>4 DEF Ready
    <3> QED
      BY <3>1, <3>2
  <2> QED
    BY <1>7, <2>1 DEF HasLiterals
<1>12. Sound(d)
  BY <1>1, <1>7, <1>9, <1>10, <1>11 DEF Sound, Segments, Ready
<1> QED
  BY <1>1, <1>6, <1>7, <1>12 DEF d, Ready

(* The next segment is where its slot says, up to its NUL.                 *)
LEMMA NextSegmentKeeps ==
  ASSUME NEW c \in Context, Sound(c), c.i < c.n
  PROVE  /\ NextSegment(c) \in Context /\ Sound(NextSegment(c))
         /\ NextSegment(c).want = c.want /\ NextSegment(c).ungot = c.ungot
<1> DEFINE p == c.slot[c.i + 1].off + 1
           lend == EndOfText(c, p)
           d == NextSegment(c)
<1>0. /\ c.i \in Nat /\ c.n \in 0..SegMax /\ c.n \in Nat /\ SegMax \in Nat /\ Len(c.mem) \in Nat /\ c.zlen \in Nat
      /\ \A k \in 0..SegMax : c.slot[k].off \in Nat
  BY Fields
<1>1. c.i + 1 \in 0..SegMax /\ c.i + 1 \in c.i..c.n
  BY <1>0
<1>2. PICK e \in Nat : EndsAt(c, c.i + 1, e)
  BY <1>1 DEF Sound, Segments
<1>3. p \in Nat /\ p > 0 /\ e \in p..Len(c.mem) /\ p \in 1..Len(c.mem) /\ c.mem[e] = NUL
  <2>1. PICK o \in Nat : o = c.slot[c.i + 1].off
    BY <1>0, <1>1
  <2>2. PICK m \in Nat : m = Len(c.mem)
    BY <1>0
  <2>3. e \in o + 1..m /\ c.mem[e] = NUL
    BY <1>2, <2>1, <2>2 DEF EndsAt
  <2>4. o + 1 \in Nat /\ o + 1 > 0 /\ o + 1 \in 1..m
    BY <2>3
  <2> QED
    BY <2>1, <2>2, <2>3, <2>4
<1>4. d = [c EXCEPT !.i = c.i + 1, !.line = p, !.lptr = p, !.lend = lend]
  BY DEF NextSegment
<1> HIDE DEF p
<1>5. lend \in p..e /\ c.mem[lend] = NUL /\ \A i \in p..lend - 1 : c.mem[i] # NUL
  BY <1>3, EndFound
<1> HIDE DEF lend, d
<1>6. lend \in Nat /\ p <= lend /\ lend > 0 /\ lend <= Len(c.mem)
  BY <1>0, <1>3, <1>5
<1>7. d \in Context
  <2>1. PICK j \in 0..SegMax : j = c.i + 1
    BY <1>1
  <2>2. d = [c EXCEPT !.i = j, !.line = p, !.lptr = p, !.lend = lend]
    BY <1>4, <2>1
  <2> QED
    BY <1>3, <1>6, <2>2 DEF Context
<1>8. /\ d.mem = c.mem /\ d.zlen = c.zlen /\ d.line = p /\ d.lptr = p /\ d.lend = lend /\ d.slot = c.slot
      /\ d.i = c.i + 1 /\ d.n = c.n /\ d.tok = c.tok /\ d.want = c.want /\ d.ungot = c.ungot
  BY <1>4 DEF Context
<1>9. Places(d)
  BY <1>3, <1>5, <1>6, <1>8 DEF Sound, Places
<1>10. ASSUME NEW k \in c.i + 1..c.n, NEW f \in Nat, EndsAt(c, k, f) PROVE EndsAt(d, k, f)
  <2>1. f < p \/ lend <= f
    <3>1. SUFFICES ASSUME p <= f, f < lend PROVE FALSE
      BY <1>3, <1>6
    <3>2. f \in p..lend - 1
      BY <1>3, <1>6, <3>1
    <3> QED
      BY <1>5, <1>10, <3>2 DEF EndsAt
  <2> QED
    BY <1>8, <1>10, <2>1 DEF EndsAt
<1>11. Segments(d)
  <2>1. \A k \in c.i + 1..c.n : k \in c.i..c.n
    BY <1>0
  <2> QED
    BY <1>8, <1>10, <2>1 DEF Sound, Segments
<1>12. HasLiterals(d)
  <2>1. \A k \in c.i + 1..c.n - 1 : k \in c.i..c.n - 1
    BY <1>0
  <2> QED
    BY <1>8, <2>1 DEF Sound, HasLiterals
<1> QED
  BY <1>7, <1>8, <1>9, <1>11, <1>12 DEF d, Sound

(* The buffer of a context whose input has nothing more.                   *)
LEMMA ClearKeeps ==
  ASSUME NEW c \in Context, Sound(c)
  PROVE  /\ ClearAndFill(c) \in Context /\ Sound(ClearAndFill(c))
         /\ ClearAndFill(c).want = c.want /\ ClearAndFill(c).tok = c.tok
         /\ ClearAndFill(c).lptr = 0
<1> DEFINE d == ClearAndFill(c)
           g == Grown(c.mem, 0, 1)
           one == <<NUL>>
           w == Written(g, 1, one)
           s == [c.slot EXCEPT ![0] = Slot(0, NoLit)]
<1>0. /\ c.mem \in Seq(Item) /\ Len(c.mem) \in Nat /\ c.i \in Nat /\ SegMax \in Nat
      /\ c.slot \in [0..SegMax -> [off : Nat, q : Literals \cup {NoLit, NilTok}]]
      /\ \A k \in 0..SegMax : c.slot[k].off \in Nat
  BY Fields
<1>1. g \in Seq(Item) /\ Len(g) >= Len(c.mem) /\ Len(g) >= 1
  <2>1. 0 \in Nat /\ 1 \in Nat /\ 0 + 1 = 1
    OBVIOUS
  <2> HIDE DEF g
  <2>2. g \in Seq(Item) /\ Len(g) >= Len(c.mem) /\ Len(g) >= 0 + 1
    BY <1>0, <2>1, GrownIs DEF g
  <2> QED
    BY <2>1, <2>2
<1>2. one \in Seq(Item) /\ Len(one) = 1 /\ one[1] = NUL
  BY Items
<1> HIDE DEF g, one
<1>3. /\ w \in Seq(Item) /\ Len(w) = Len(g)
      /\ \A i \in 1..Len(g) : i \in 1..1 + Len(one) - 1 => w[i] = one[i - 1 + 1]
  <2>1. 1 \in Nat
    OBVIOUS
  <2> QED
    BY <1>1, <1>2, <2>1, WrittenIs
<1>4. w[1] = NUL /\ Len(w) \in Nat /\ Len(w) >= 1 /\ Len(w) >= Len(c.mem)
  <2>1. Len(g) \in Nat
    BY <1>1, LenProperties
  <2>2. 1 \in 1..Len(g) /\ 1 \in 1..1 + Len(one) - 1 /\ 1 - 1 + 1 = 1
    BY <1>1, <1>2, <2>1
  <2> HIDE DEF w
  <2> QED
    BY <1>1, <1>2, <1>3, <2>1, <2>2
<1>5. s \in [0..SegMax -> [off : Nat, q : Literals \cup {NoLit, NilTok}]]
      /\ s[0].off = 0 /\ \A k \in 0..SegMax : k # 0 => s[k] = c.slot[k]
  BY <1>0 DEF Slot
<1>6. d = [c EXCEPT !.zlen = 0, !.n = 0, !.line = 0, !.lptr = 0, !.lend = 0, !.mem = w, !.slot = s]
  BY DEF ClearAndFill, g, one, Context
<1> HIDE DEF w, s, d
<1>7. d \in Context
  <2>1. PICK z \in 0..SegMax : z = 0
    BY <1>0
  <2>2. d = [c EXCEPT !.zlen = z, !.n = z, !.line = z, !.lptr = z, !.lend = z, !.mem = w, !.slot = s]
    BY <1>6, <2>1
  <2>3. z \in Nat /\ w \in Seq(Item) /\ s \in [0..SegMax -> [off : Nat, q : Literals \cup {NoLit, NilTok}]]
    BY <1>3, <1>5, <2>1
  <2> QED
    BY <2>2, <2>3 DEF Context
<1>8. /\ d.mem = w /\ d.zlen = 0 /\ d.line = 0 /\ d.lptr = 0 /\ d.lend = 0 /\ d.slot = s
      /\ d.i = c.i /\ d.n = 0 /\ d.tok = c.tok /\ d.want = c.want
  BY <1>6 DEF Context
<1>9. Places(d)
  <2>1. ASSUME NEW k \in 0..SegMax PROVE s[k].off <= Len(w)
    <3>1. CASE k = 0
      BY <3>1, <1>4, <1>5
    <3>2. CASE k # 0
      <4>1. s[k].off = c.slot[k].off /\ c.slot[k].off <= Len(c.mem) /\ c.slot[k].off \in Nat
        BY <3>2, <1>0, <1>5 DEF Sound, Places
      <4> QED
        BY <4>1, <1>0, <1>4
    <3> QED
      BY <3>1, <3>2
  <2> QED
    BY <1>4, <1>8, <2>1 DEF Places
<1>10. ASSUME NEW k \in c.i..0 PROVE EndsAt(d, k, 1)
  <2>1. k = 0
    BY <1>0
  <2>2. 1 \in s[k].off + 1..Len(w)
    BY <1>4, <1>5, <2>1
  <2> QED
    BY <1>4, <1>8, <2>2 DEF EndsAt
<1>11. Segments(d)
  BY <1>8, <1>10 DEF Segments
<1>12. HasLiterals(d)
  <2>1. \A k \in c.i..0 - 1 : FALSE
    BY <1>0
  <2> QED
    BY <1>8, <2>1 DEF HasLiterals
<1> QED
  BY <1>7, <1>8, <1>9, <1>11, <1>12 DEF d, Sound

(* Where blanks end: at the NUL of the line at the latest.                 *)
LEMMA BlanksEnd ==
  ASSUME NEW c \in Context, Sound(c)
  PROVE  /\ c.lptr = 0 => AtNul(c)
         /\ c.lptr > 0 => /\ EndOfText(c, c.lptr) \in c.lptr..c.lend
                          /\ NonBlank(c) \in c.lptr..EndOfText(c, c.lptr)
<1>0. /\ c.lptr \in Nat /\ c.lend \in Nat /\ Len(c.mem) \in Nat /\ c.lptr <= c.lend /\ c.lend <= Len(c.mem)
      /\ c.lend > 0 => c.mem[c.lend] = NUL
  BY Fields DEF Sound, Places
<1> DEFINE Ends(x) == At(c, x) # SP /\ \A i \in c.lptr..x - 1 : At(c, i) = SP
<1>1. ASSUME c.lptr = 0 PROVE AtNul(c)
  <2>1. EndOfText(c, 0) = 0 /\ At(c, 0) = NUL
    BY DEF EndOfText, At
  <2>2. NonBlank(c) = CHOOSE x \in 0..0 : Ends(x)
    BY <1>1, <2>1 DEF NonBlank
  <2>3. Ends(0) /\ 0 \in 0..0
    BY <1>1, <2>1, Items
  <2>4. NonBlank(c) \in 0..0
    BY <2>2, <2>3
  <2>5. NonBlank(c) = 0
    BY <2>4
  <2> QED
    BY <2>1, <2>5 DEF AtNul
<1>2. ASSUME c.lptr > 0
      PROVE  EndOfText(c, c.lptr) \in c.lptr..c.lend /\ NonBlank(c) \in c.lptr..EndOfText(c, c.lptr)
  <2> DEFINE end == EndOfText(c, c.lptr)
  <2>1. c.lptr \in 1..Len(c.mem) /\ c.lend \in c.lptr..Len(c.mem) /\ c.mem[c.lend] = NUL
    BY <1>0, <1>2
  <2>2. end \in c.lptr..c.lend /\ c.mem[end] = NUL
    BY <2>1, EndFound
  <2>3. NonBlank(c) = CHOOSE x \in c.lptr..end : Ends(x)
    BY DEF NonBlank
  <2> HIDE DEF end
  <2>4. end \in Nat /\ end # 0 /\ At(c, end) = NUL /\ end \in c.lptr..end
    BY <1>0, <1>2, <2>2 DEF At
  <2> DEFINE nb == {x \in c.lptr..end : At(c, x) # SP}
  <2>5. PICK x \in nb : \A y \in nb : x <= y
    <3>1. nb \subseteq Nat /\ end \in nb
      BY <1>0, <2>4, Items
    <3> HIDE DEF nb
    <3> QED
      BY <3>1, Least
  <2>6. x \in c.lptr..end /\ Ends(x)
    <3>1. \A i \in c.lptr..x - 1 : i \in c.lptr..end /\ i < x
      BY <1>0, <2>4, <2>5
    <3> QED
      BY <2>5, <3>1
  <2>7. NonBlank(c) \in c.lptr..end
    BY <2>3, <2>6
  <2> QED
    BY <2>2, <2>7 DEF end
<1> QED
  BY <1>1, <1>2

(* The rest of a word lies within the line.                                *)
LEMMA RestWithin ==
  ASSUME NEW c \in Context, Sound(c), c.lptr > 0
  PROVE  /\ WordRest(c) \in c.lptr..c.lend
         /\ SubSeq(c.mem, c.lptr, WordRest(c) - 1) \in Seq(Item)
<1>0. c.lptr \in Nat /\ c.lend \in Nat /\ Len(c.mem) \in Nat /\ c.lptr <= c.lend /\ c.lend <= Len(c.mem) /\ c.mem \in Seq(Item)
  BY Fields DEF Sound, Places
<1> DEFINE stop == {p \in c.lptr..c.lend : p = c.lend \/ At(c, p) = SP}
<1>1. PICK x \in stop : \A y \in stop : x <= y
  <2>1. stop \subseteq Nat /\ c.lend \in stop
    BY <1>0
  <2> HIDE DEF stop
  <2> QED
    BY <2>1, Least
<1>2. WordRest(c) = CHOOSE p \in stop : \A r \in stop : p <= r
  BY DEF WordRest
<1>3. WordRest(c) \in stop
  BY <1>1, <1>2
<1>4. WordRest(c) \in c.lptr..c.lend
  BY <1>3
<1>5. \A i \in c.lptr..WordRest(c) - 1 : i \in 1..Len(c.mem)
  BY <1>0, <1>4
<1>6. SubSeq(c.mem, c.lptr, WordRest(c) - 1) \in Seq(Item)
  BY <1>0, <1>4, <1>5, SubSeqProperties
<1> QED
  BY <1>4, <1>6
-----------------------------------------------------------------------------
(* -------- Stacks of contexts -------- *)

(* The current context of a stack.                                         *)
LEMMA OnTop ==
  ASSUME NEW st, Good(st)
  PROVE  /\ Head(st) \in Context /\ Sound(Head(st)) /\ Head(st) = st[1]
         /\ Len(st) \in Nat /\ Len(st) > 0 /\ st \in Seq(Context) /\ Tail(st) \in Seq(Context)
         /\ Len(Tail(st)) = Len(st) - 1
         /\ \A i \in 1..Len(Tail(st)) : Tail(st)[i] = st[i + 1] /\ i + 1 \in 1..Len(st)
         /\ Len(st) = 1 => ~Head(st).want
<1>1. st \in Seq(Context) /\ st # <<>>
  BY DEF Good
<1>2. /\ Head(st) \in Context /\ Tail(st) \in Seq(Context) /\ Head(st) = st[1]
      /\ Len(st) \in Nat \ {0} /\ Len(Tail(st)) = Len(st) - 1
      /\ \A i \in 1..Len(Tail(st)) : Tail(st)[i] = st[i + 1]
  BY <1>1, HeadAndTail
<1>3. 1 \in 1..Len(st) /\ \A i \in 1..Len(Tail(st)) : i + 1 \in 1..Len(st)
  BY <1>2
<1>4. Sound(st[1]) /\ ~st[Len(st)].want
  BY <1>3 DEF Good
<1> QED
  BY <1>1, <1>2, <1>3, <1>4

(* A context on top of others, the lowest of which delivers no EOF.        *)
LEMMA PutOn ==
  ASSUME NEW c \in Context, Sound(c), NEW st \in Seq(Context),
         \A k \in 1..Len(st) : Sound(st[k]),
         st = <<>> => ~c.want, st # <<>> => ~st[Len(st)].want
  PROVE  Good(<<c>> \o st) /\ Head(<<c>> \o st) = c /\ Tail(<<c>> \o st) = st
<1> DEFINE t == <<c>> \o st
<1>1. /\ t \in Seq(Context) /\ t # <<>> /\ Len(t) = Len(st) + 1 /\ t[1] = c
      /\ Head(t) = c /\ Tail(t) = st /\ \A i \in 1..Len(st) : t[i + 1] = st[i]
  BY InFront
<1>2. Len(st) \in Nat /\ (st = <<>> <=> Len(st) = 0)
  BY EmptySeq, LenProperties
<1> HIDE DEF t
<1>3. ~t[Len(t)].want
  <2>1. CASE st = <<>>
    BY <2>1, <1>1, <1>2
  <2>2. CASE st # <<>>
    <3>1. Len(st) \in 1..Len(st)
      BY <2>2, <1>2
    <3> QED
      BY <2>2, <3>1, <1>1
  <2> QED
    BY <2>1, <2>2
<1>4. ASSUME NEW k \in 1..Len(t) PROVE Sound(t[k])
  <2>1. CASE k = 1
    BY <2>1, <1>1
  <2>2. CASE k # 1
    <3>1. PICK i \in 1..Len(st) : k = i + 1
      <4>1. k - 1 \in 1..Len(st) /\ k = (k - 1) + 1
        BY <2>2, <1>1, <1>2
      <4> QED
        BY <4>1
    <3> QED
      BY <3>1, <1>1
  <2> QED
    BY <2>1, <2>2
<1>5. Good(t)
  BY <1>1, <1>3, <1>4 DEF Good
<1> QED
  BY <1>1, <1>5 DEF t

(* What lies below the current context.                                    *)
LEMMA Below ==
  ASSUME NEW st, Good(st)
  PROVE  /\ Tail(st) \in Seq(Context) /\ \A k \in 1..Len(Tail(st)) : Sound(Tail(st)[k])
         /\ Tail(st) # <<>> => ~Tail(st)[Len(Tail(st))].want
         /\ Tail(st) = <<>> => ~Head(st).want
         /\ Tail(st) = <<>> <=> Len(st) = 1
         /\ Tail(st) # <<>> => Good(Tail(st))
<1> DEFINE t == Tail(st)
<1>1. /\ Len(st) \in Nat /\ Len(st) > 0 /\ st \in Seq(Context) /\ t \in Seq(Context)
      /\ Len(t) = Len(st) - 1
      /\ \A i \in 1..Len(t) : t[i] = st[i + 1] /\ i + 1 \in 1..Len(st)
      /\ Len(st) = 1 => ~Head(st).want
  BY OnTop
<1>2. t = <<>> <=> Len(t) = 0
  BY <1>1, EmptySeq
<1> HIDE DEF t
<1>3. ASSUME NEW k \in 1..Len(t) PROVE Sound(t[k])
  BY <1>1 DEF Good
<1>4. t # <<>> => ~t[Len(t)].want
  <2>1. ASSUME t # <<>> PROVE ~t[Len(t)].want
    <3>1. Len(t) \in 1..Len(t) /\ Len(t) + 1 = Len(st)
      BY <1>1, <1>2, <2>1
    <3>2. t[Len(t)] = st[Len(st)]
      BY <1>1, <3>1
    <3> QED
      BY <3>2 DEF Good
  <2> QED
    BY <2>1
<1>5. t # <<>> => Good(t)
  BY <1>1, <1>3, <1>4 DEF Good
<1>6. t = <<>> <=> Len(st) = 1
  BY <1>1, <1>2
<1> QED
  BY <1>1, <1>3, <1>4, <1>5, <1>6 DEF t

(* Another context in place of the current one.                            *)
LEMMA Replace ==
  ASSUME NEW st, Good(st), NEW c \in Context, Sound(c), c.want = Head(st).want
  PROVE  Good(<<c>> \o Tail(st)) /\ Head(<<c>> \o Tail(st)) = c /\ Tail(<<c>> \o Tail(st)) = Tail(st)
  BY Below, PutOn

(* ... or one for put-back text on top of it.                              *)
LEMMA PushOn ==
  ASSUME NEW st, Good(st), NEW c \in Context, Sound(c), ~c.want
  PROVE  Good(<<c>> \o st) /\ Head(<<c>> \o st) = c
<1>1. st \in Seq(Context) /\ st # <<>> /\ ~st[Len(st)].want /\ \A k \in 1..Len(st) : Sound(st[k])
  BY DEF Good
<1> QED
  BY <1>1, PutOn

(* The new context is ready for its text.                                  *)
LEMMA UngetContextIs ==
  ASSUME NEW i \in {SegMax - 1, SegMax}
  PROVE  LET c == UngetContext(i)
         IN /\ c \in Context /\ Ready(c) /\ c.i = i /\ c.n = SegMax /\ ~c.want
            /\ \A k \in 0..SegMax : c.slot[k] = Slot(0, NoLit)
<1> DEFINE c == UngetContext(i)
           s == [k \in 0..SegMax |-> Slot(0, NoLit)]
<1>1. SegMax \in Nat /\ SegMax >= 2
  BY PushBackConstants
<1>2. i \in 0..SegMax /\ SegMax \in 0..SegMax /\ 0 \in Nat
  BY <1>1
<1>3. s \in [0..SegMax -> [off : Nat, q : Literals \cup {NoLit, NilTok}]]
      /\ \A k \in 0..SegMax : s[k] = Slot(0, NoLit) /\ s[k].off = 0
  BY DEF Slot
<1>4. <<>> \in Seq(Item) /\ Len(<<>>) = 0 /\ NONE \in Seq(Item) /\ NONE # EOF
  BY Items
<1>5. c = [kind |-> "unget", mem |-> <<>>, zlen |-> 0, line |-> 0, lptr |-> 0, lend |-> 0,
           slot |-> s, i |-> i, n |-> SegMax, want |-> FALSE, tok |-> NONE, ungot |-> FALSE]
  BY DEF UngetContext
<1> HIDE DEF s, c
<1>6. c \in Context
  BY <1>2, <1>3, <1>4, <1>5 DEF Context
<1>7. /\ c.mem = <<>> /\ c.zlen = 0 /\ c.slot = s /\ c.i = i /\ c.n = SegMax /\ c.want = FALSE /\ c.tok = NONE
  BY <1>5
<1>8. \A k \in i + 1..SegMax - 1 : FALSE
  BY <1>1
<1>9. \A k \in i + 1..SegMax : k \in 0..SegMax
  BY <1>1
<1>10. Ready(c)
  BY <1>3, <1>4, <1>7, <1>8, <1>9 DEF Ready
<1> QED
  BY <1>3, <1>6, <1>7, <1>10 DEF c

(* Text put back, where the gap has room for it or nothing is left to read *)
(* behind it.                                                              *)
LEMMA WithTextKeeps ==
  ASSUME NEW st, Good(st), NEW txt \in Seq(Item), Head(st).tok # EOF,
         IsUnget(Head(st)) /\ ~Fits(Head(st), Len(txt)) => Head(st).i = 0 \/ Head(st).i > Head(st).n
  PROVE  Good(WithText(st, txt)) /\ Head(WithText(st, txt)).tok # EOF
<1> DEFINE c == Head(st)
           moved == IF c.lptr = 0 THEN <<>> ELSE SubSeq(c.mem, c.lptr, WordRest(c) - 1)
           rest == IF c.lptr = 0 THEN 0 ELSE WordRest(c)
           left == [c EXCEPT !.lptr = rest]
           new == txt \o moved
<1>1. /\ c \in Context /\ Sound(c) /\ Len(txt) \in Nat
      /\ c.lptr \in Nat /\ c.line \in Nat /\ c.lend \in Nat /\ c.i \in 0..SegMax /\ c.n \in 0..SegMax
      /\ c.i \in Nat /\ c.n \in Nat /\ SegMax \in Nat
  BY OnTop, Fields, LenProperties
<1>2. c.line <= c.lptr /\ c.lptr <= c.lend /\ (c.line = 0 => c.lend = 0)
  BY <1>1 DEF Sound, Places
<1>3. moved \in Seq(Item) /\ rest \in Nat /\ c.line <= rest /\ rest <= c.lend
  <2> HIDE DEF c
  <2>1. CASE c.lptr = 0
    BY <2>1, <1>1, <1>2
  <2>2. CASE c.lptr # 0
    <3>1. WordRest(c) \in c.lptr..c.lend /\ SubSeq(c.mem, c.lptr, WordRest(c) - 1) \in Seq(Item)
      BY <2>2, <1>1, RestWithin
    <3> QED
      BY <2>2, <3>1, <1>1, <1>2
  <2> QED
    BY <2>1, <2>2
<1>4. new \in Seq(Item) /\ Len(new) = Len(txt) + Len(moved) /\ Len(moved) \in Nat /\ Len(new) \in Nat
  <2> HIDE DEF moved
  <2>1. new \in Seq(Item) /\ Len(new) = Len(txt) + Len(moved)
    BY <1>3, ConcatProperties
  <2> HIDE DEF new
  <2> QED
    BY <1>3, <2>1, LenProperties
<1> HIDE DEF c, moved, rest
<1>5. /\ left \in Context /\ Sound(left) /\ left.want = c.want /\ left.i = c.i /\ left.n = c.n
      /\ left.tok = c.tok /\ left.kind = c.kind
  <2>1. left \in Context /\ Sound(left)
    BY <1>1, <1>3, MoveKeeps
  <2> QED
    BY <1>1, <2>1 DEF Context
<1> HIDE DEF left, new
<1>6. CASE Fits(c, Len(txt))
  <2> DEFINE p == c.lptr - Len(txt)
             d == [c EXCEPT !.lptr = p]
             f == [d EXCEPT !.mem = Written(@, d.lptr, txt)]
  <2>1. WithText(st, txt) = <<f>> \o Tail(st)
    <3>1. d = [c EXCEPT !.lptr = @ - Len(txt)]
      BY <1>1 DEF Context
    <3> QED
      BY <1>6, <3>1 DEF WithText, c
  <2>2. p \in Nat /\ c.line <= p /\ p <= c.lend /\ p + Len(txt) <= c.lend
    BY <1>1, <1>2, <1>6 DEF Fits
  <2> HIDE DEF p
  <2>3. d \in Context /\ Sound(d)
    BY <1>1, <2>2, MoveKeeps
  <2>4. d.lptr = p /\ d.lend = c.lend /\ d.want = c.want
    BY <1>1, <2>2 DEF Context
  <2> HIDE DEF d
  <2>5. f \in Context /\ Sound(f)
    BY <2>2, <2>3, <2>4, PutKeeps
  <2>6. f.want = Head(st).want /\ f.tok # EOF
    <3>1. d.tok = c.tok
      BY <1>1, <2>2 DEF Context, d
    <3> QED
      BY <2>3, <2>4, <3>1 DEF Context, c
  <2> HIDE DEF f
  <2> QED
    BY <2>1, <2>5, <2>6, Replace
<1>7. CASE ~Fits(c, Len(txt)) /\ IsUnget(c) /\ c.i > 0
  <2> DEFINE b == [left EXCEPT !.i = c.i - 1]
             d == Alloc(b, Len(new), NilTok)
             f == [d EXCEPT !.mem = Written(@, d.lptr, new)]
  <2>1. WithText(st, txt) = <<f>> \o Tail(st)
    <3>1. b = [left EXCEPT !.i = @ - 1]
      BY <1>5 DEF Context
    <3>2. left = [c EXCEPT !.lptr = IF c.lptr = 0 THEN 0 ELSE WordRest(c)] /\ Len(new) = Len(txt) + Len(moved)
      BY SMTT(30), <1>4 DEF left, rest
    <3>3. WithText(st, txt) = <<[Alloc([left EXCEPT !.i = @ - 1], Len(txt) + Len(moved), NilTok)
                                   EXCEPT !.mem = Written(@, Alloc([left EXCEPT !.i = @ - 1], Len(txt) + Len(moved), NilTok).lptr,
                                                          txt \o moved)]>> \o Tail(st)
      BY Zenon, <1>7, <3>2 DEF WithText, c, moved
    <3> QED
      BY <3>1, <3>2, <3>3 DEF new
  <2>2. c.i > c.n
    BY <1>1, <1>7 DEF c
  <2>3. /\ b \in Context /\ b.i = c.i - 1 /\ b.n = c.n /\ b.want = c.want /\ b.tok = c.tok
        /\ b.mem = left.mem /\ b.zlen = left.zlen /\ b.slot = left.slot
    <3>1. PICK j \in 0..SegMax : j = c.i - 1
      <4>1. c.i - 1 \in 0..SegMax
        BY <1>1, <1>7
      <4> QED
        BY <4>1
    <3> QED
      BY <1>5, <3>1 DEF Context
  <2> HIDE DEF b
  <2>4. Ready(b)
    <3>1. \A k \in b.i + 1..b.n : FALSE
      BY <1>1, <2>2, <2>3
    <3>2. \A k \in b.i + 1..b.n - 1 : FALSE
      BY <1>1, <2>2, <2>3
    <3>3. b.tok # EOF
      BY <2>3 DEF c
    <3> QED
      BY <1>5, <2>3, <3>1, <3>2, <3>3 DEF Ready, Sound, Places
  <2>5. ~(b.i < b.n)
    BY <1>1, <2>2, <2>3
  <2>6. d \in Context /\ Sound(d) /\ d.lptr + Len(new) = d.lend /\ d.want = c.want /\ d.tok # EOF
    BY <1>4, <2>3, <2>4, <2>5, AllocKeeps
  <2> HIDE DEF d
  <2>7. d.lptr + Len(new) <= d.lend
    BY <2>6, Fields
  <2>8. f \in Context /\ Sound(f)
    BY <1>4, <2>6, <2>7, PutKeeps
  <2>9. f.want = Head(st).want /\ f.tok # EOF
    BY <2>6 DEF Context, c
  <2> HIDE DEF f
  <2> QED
    BY <2>1, <2>8, <2>9, Replace
<1>8. CASE ~Fits(c, Len(txt)) /\ ~(IsUnget(c) /\ c.i > 0)
  <2> DEFINE b == UngetContext(SegMax)
             d == Alloc(b, Len(new), NilTok)
             f == [d EXCEPT !.mem = Written(@, d.lptr, new)]
  <2>1. WithText(st, txt) = <<f, left>> \o Tail(st)
    BY Zenon, <1>4, <1>8 DEF WithText, c, moved, left, rest, new
  <2>2. b \in Context /\ Ready(b) /\ b.i = SegMax /\ b.n = SegMax /\ ~b.want
    BY UngetContextIs
  <2> HIDE DEF b
  <2>3. ~(b.i < b.n)
    BY <1>1, <2>2
  <2>4. d \in Context /\ Sound(d) /\ d.lptr + Len(new) = d.lend /\ d.want = b.want /\ d.tok # EOF
    BY <1>4, <2>2, <2>3, AllocKeeps
  <2> HIDE DEF d
  <2>5. d.lptr + Len(new) <= d.lend
    BY <2>4, Fields
  <2>6. f \in Context /\ Sound(f)
    BY <1>4, <2>4, <2>5, PutKeeps
  <2>7. ~f.want /\ f.tok # EOF
    BY <2>2, <2>4 DEF Context
  <2> HIDE DEF f
  <2>8. Good(<<left>> \o Tail(st))
    BY <1>5, Replace DEF c
  <2>9. Good(<<f>> \o (<<left>> \o Tail(st))) /\ Head(<<f>> \o (<<left>> \o Tail(st))) = f
    BY <2>6, <2>7, <2>8, PushOn
  <2>10. <<f, left>> \o Tail(st) = <<f>> \o (<<left>> \o Tail(st))
    <3>1. <<f>> \in Seq(Context) /\ <<left>> \in Seq(Context) /\ Tail(st) \in Seq(Context)
      BY <1>5, <2>6, Below
    <3>2. (<<f>> \o <<left>>) \o Tail(st) = <<f>> \o (<<left>> \o Tail(st))
      BY <3>1, Associative
    <3>3. <<f>> \o <<left>> = <<f, left>>
      <4>1. /\ <<f>> \o <<left>> \in Seq(Context) /\ Len(<<f>> \o <<left>>) = 2
            /\ (<<f>> \o <<left>>)[1] = f /\ (<<f>> \o <<left>>)[2] = left
        <5>1. <<left>> \in Seq(Context) /\ Len(<<left>>) = 1 /\ <<left>>[1] = left
          BY <1>5
        <5> DEFINE l == <<left>>
        <5> HIDE DEF l
        <5>2. l \in Seq(Context) /\ Len(l) = 1 /\ l[1] = left /\ 1 \in 1..Len(l)
          BY <5>1 DEF l
        <5>3. <<f>> \o l \in Seq(Context) /\ Len(<<f>> \o l) = 2 /\ (<<f>> \o l)[1] = f /\ (<<f>> \o l)[1 + 1] = left
          <6>1. /\ <<f>> \o l \in Seq(Context) /\ Len(<<f>> \o l) = Len(l) + 1 /\ (<<f>> \o l)[1] = f
                /\ \A i \in 1..Len(l) : (<<f>> \o l)[i + 1] = l[i]
            <7>1. f \in Context /\ l \in Seq(Context)
              BY <2>6, <5>2
            <7> QED
              BY <7>1, InFront
          <6> DEFINE fl == <<f>> \o l
          <6> HIDE DEF fl
          <6>2. /\ fl \in Seq(Context) /\ Len(fl) = Len(l) + 1 /\ fl[1] = f
                /\ \A i \in 1..Len(l) : fl[i + 1] = l[i]
            BY <6>1 DEF fl
          <6>3. Len(fl) = 2 /\ fl[1 + 1] = left
            BY <5>2, <6>2
          <6> QED
            BY <6>2, <6>3 DEF fl
        <5> QED
          BY <5>3 DEF l
      <4>2. <<f, left>> \in Seq(Context) /\ Len(<<f, left>>) = 2 /\ <<f, left>>[1] = f /\ <<f, left>>[2] = left
        BY <1>5, <2>6
      <4>3. \A i \in 1..2 : i = 1 \/ i = 2
        OBVIOUS
      <4>4. \A i \in 1..2 : (<<f>> \o <<left>>)[i] = <<f, left>>[i]
        BY <4>1, <4>2, <4>3
      <4> QED
        BY <4>1, <4>2, <4>4, SeqEqual
    <3> QED
      BY <3>2, <3>3
  <2> QED
    BY Zenon, <2>1, <2>7, <2>9, <2>10
<1> QED
  BY <1>6, <1>7, <1>8

(* A literal put back.                                                     *)
LEMMA WithQuoteKeeps ==
  ASSUME NEW st, Good(st), NEW q \in Literals, Head(st).tok # EOF
  PROVE  Good(WithQuote(st, q)) /\ Head(WithQuote(st, q)).tok # EOF
<1> DEFINE c == Head(st)
<1>1. /\ c \in Context /\ Sound(c)
      /\ c.i \in 0..SegMax /\ c.n \in 0..SegMax /\ c.i \in Nat /\ c.n \in Nat /\ SegMax \in Nat /\ SegMax >= 2
      /\ c.zlen \in Nat /\ \A k \in 0..SegMax : c.slot[k].off \in Nat
  BY OnTop, Fields
<1>2. q \in Literals \cup {NoLit, NilTok} /\ 0 \in Nat
  OBVIOUS
<1> HIDE DEF c
<1>3. CASE IsUnget(c) /\ c.i > 0
  <2> DEFINE b == [c EXCEPT !.i = c.i - 1]
             d == Alloc(b, 0, q)
  <2>1. WithQuote(st, q) = <<d>> \o Tail(st)
    <3>1. b = [c EXCEPT !.i = @ - 1]
      BY <1>1 DEF Context
    <3> QED
      BY <1>3, <3>1 DEF WithQuote, c
  <2>3. /\ b \in Context /\ b.i = c.i - 1 /\ b.n = c.n /\ b.want = c.want /\ b.tok = c.tok
        /\ b.mem = c.mem /\ b.zlen = c.zlen /\ b.slot = c.slot
    <3>1. PICK j \in 0..SegMax : j = c.i - 1
      <4>1. c.i - 1 \in 0..SegMax
        BY <1>1, <1>3
      <4> QED
        BY <4>1
    <3> QED
      BY <1>1, <3>1 DEF Context
  <2> HIDE DEF b
  <2>4. ASSUME NEW k \in b.i + 1..b.n PROVE b.slot[k].off <= b.zlen
    <3>1. k \in c.i..c.n /\ k \in 0..SegMax /\ c.n > 0
      BY <1>1, <1>3, <2>3
    <3>2. PICK e \in Nat : EndsAt(c, k, e)
      BY <1>1, <3>1 DEF Sound, Segments
    <3>3. PICK o \in Nat : o = c.slot[k].off
      BY <1>1, <3>1
    <3>4. o + 1 <= e /\ e <= c.zlen
      BY <3>1, <3>2, <3>3 DEF EndsAt
    <3>5. o <= c.zlen
      BY <1>1, <3>4
    <3> QED
      BY <2>3, <3>3, <3>5
  <2>5. ASSUME NEW k \in b.i + 1..b.n - 1 PROVE b.slot[k].q \in Literals
    <3>1. k \in c.i..c.n - 1
      BY <1>1, <2>3
    <3> QED
      BY <1>1, <2>3, <3>1 DEF Sound, HasLiterals
  <2>6. Ready(b)
    <3>1. b.tok # EOF
      BY <2>3 DEF c
    <3> QED
      BY <1>1, <2>3, <2>4, <2>5, <3>1 DEF Ready, Sound, Places
  <2>7. d \in Context /\ Sound(d) /\ d.want = b.want /\ d.tok # EOF
    BY <1>2, <2>3, <2>6, AllocKeeps
  <2>8. d.want = Head(st).want
    BY <2>3, <2>7 DEF c
  <2> HIDE DEF d
  <2> QED
    BY <2>1, <2>7, <2>8, Replace
<1>4. CASE ~(IsUnget(c) /\ c.i > 0)
  <2> DEFINE b == UngetContext(SegMax - 1)
             d == Alloc(b, 0, q)
             f == [d EXCEPT !.slot[SegMax] = Slot(0, NoLit)]
  <2>1. WithQuote(st, q) = <<f>> \o st
    BY <1>4 DEF WithQuote, c
  <2>2. b \in Context /\ Ready(b) /\ b.i = SegMax - 1 /\ b.n = SegMax /\ ~b.want
        /\ \A k \in 0..SegMax : b.slot[k] = Slot(0, NoLit)
    BY UngetContextIs
  <2> HIDE DEF b
  <2>3. d \in Context /\ Sound(d) /\ d.want = b.want /\ d.tok # EOF
    BY <1>2, <2>2, AllocKeeps
  <2>4. SegMax \in 0..SegMax /\ SegMax # SegMax - 1
    BY <1>1
  <2>5. d.slot[SegMax] = Slot(0, NoLit)
    <3>1. d.slot = [b.slot EXCEPT ![b.i] = Slot(b.zlen, q)]
      BY <2>2 DEF Alloc, Context
    <3>2. b.slot \in [0..SegMax -> [off : Nat, q : Literals \cup {NoLit, NilTok}]]
      BY <2>2, Fields
    <3> HIDE DEF d
    <3> QED
      BY <2>2, <2>4, <3>1, <3>2
  <2> HIDE DEF d
  <2>6. f = d
    <3>1. [d.slot EXCEPT ![SegMax] = Slot(0, NoLit)] = d.slot
      <4>1. d.slot \in [0..SegMax -> [off : Nat, q : Literals \cup {NoLit, NilTok}]]
        BY <2>3, Fields
      <4> QED
        BY <2>5, <4>1
    <3>2. f = [d EXCEPT !.slot = [d.slot EXCEPT ![SegMax] = Slot(0, NoLit)]]
      BY <2>3 DEF Context
    <3>3. f = [d EXCEPT !.slot = d.slot]
      BY <3>1, <3>2
    <3> QED
      BY <2>3, <3>3 DEF Context
  <2> HIDE DEF f
  <2> QED
    BY <2>1, <2>2, <2>3, <2>6, PushOn
<1> QED
  BY <1>3, <1>4

(* What a caller that fills no gap keeps to, said of the current context.  *)
LEMMA CallerCareful ==
  ASSUME "overfill" \notin CallerMay, NEW st, NEW q, NEW len, CallerKeeps(st, q, len)
  PROVE  q = NONE /\ IsUnget(Head(st)) /\ ~Fits(Head(st), len) => Head(st).i = 0 \/ Head(st).i > Head(st).n
  BY DEF CallerKeeps, SafeText

(* The token that was put back, turned into text or a literal.             *)
LEMMA MeltKeeps ==
  ASSUME "overfill" \notin CallerMay, Good(stack), MeltKept
  PROVE  Good(Melt(stack)) /\ Head(Melt(stack)).tok # EOF
<1> DEFINE t == ctx.tok
           q == IF Len(t) = 1 /\ t[1] \in Literals THEN t ELSE NONE
           c == [ctx EXCEPT !.ungot = FALSE]
           s == <<c>> \o Tail(stack)
           len == Len(IF t = EOI THEN <<>> ELSE t) + 1
<1>1. ctx \in Context /\ Sound(ctx) /\ t \in Seq(Item) /\ t # EOF /\ Len(t) \in Nat
  BY OnTop, Fields, LenProperties DEF ctx, MeltKept
<1>2. CASE ~ctx.ungot
  BY <1>1, <1>2 DEF Melt, ctx
<1>3. CASE ctx.ungot
  <2>1. c \in Context /\ Sound(c)
    <3>1. [ctx EXCEPT !.tok = t, !.ungot = FALSE] = c
      BY <1>1 DEF Context
    <3> QED
      BY <1>1, <3>1, TokenKeeps
  <2>2. /\ c.tok = t /\ c.want = ctx.want /\ c.i = ctx.i /\ c.n = ctx.n /\ c.kind = ctx.kind
        /\ c.line = ctx.line /\ c.lptr = ctx.lptr
    BY <1>1 DEF Context
  <2>3. Good(s) /\ Head(s) = c
    BY <2>1, <2>2, Replace DEF ctx
  <2>4. CallerKeeps(stack, q, len)
    BY <1>3 DEF MeltKept
  <2>5. Melt(stack) = IF Len(t) = 1 /\ t[1] \in Literals THEN WithQuote(s, t[1])
                      ELSE WithText(s, IF t = EOI THEN <<SP>> ELSE Append(t, SP))
    BY <1>3, <2>2 DEF Melt, ctx
  <2> HIDE DEF s, c, t
  <2>6. CASE Len(t) = 1 /\ t[1] \in Literals
    <3> QED
      BY <1>1, <2>2, <2>3, <2>5, <2>6, WithQuoteKeeps
  <2>7. CASE ~(Len(t) = 1 /\ t[1] \in Literals)
    <3> DEFINE txt == IF t = EOI THEN <<SP>> ELSE Append(t, SP)
    <3>1. txt \in Seq(Item) /\ Len(txt) = len
      <4>1. CASE t = EOI
        <5>1. <<SP>> \in Seq(Item) /\ Len(<<SP>>) = 1 /\ Len(<<>>) = 0
          BY Items
        <5> QED
          BY <4>1, <5>1
      <4>2. CASE t # EOI
        <5>1. Append(t, SP) \in Seq(Item) /\ Len(Append(t, SP)) = Len(t) + 1
          BY <1>1, Items, AppendProperties
        <5> QED
          BY <4>2, <5>1
      <4> QED
        BY <4>1, <4>2
    <3>2. IsUnget(c) /\ ~Fits(c, len) => c.i = 0 \/ c.i > c.n
      <4>1. q = NONE
        BY <2>7
      <4>2. IsUnget(ctx) /\ ~Fits(ctx, len) => ctx.i = 0 \/ ctx.i > ctx.n
        BY <2>4, <4>1, CallerCareful DEF ctx
      <4> QED
        BY <2>2, <4>2 DEF IsUnget, Fits
    <3>3. Melt(stack) = WithText(s, txt)
      BY <2>5, <2>7
    <3> HIDE DEF txt
    <3> QED
      BY <1>1, <2>2, <2>3, <3>1, <3>2, <3>3, WithTextKeeps
  <2> QED
    BY <2>6, <2>7
<1> QED
  BY <1>2, <1>3

(* Filling the buffer before a character is looked at, ...                 *)
LEMMA PeekedKeeps ==
  ASSUME NEW st, Good(st)
  PROVE  Good(Peeked(st))
<1> DEFINE c == Head(st)
<1>1. c \in Context /\ Sound(c)
  BY OnTop
<1>2. CASE At(c, c.lptr) = NUL /\ c.i >= c.n
  <2>1. Peeked(st) = <<ClearAndFill(c)>> \o Tail(st)
    BY <1>2 DEF Peeked
  <2>2. ClearAndFill(c) \in Context /\ Sound(ClearAndFill(c)) /\ ClearAndFill(c).want = Head(st).want
    BY <1>1, ClearKeeps
  <2> QED
    BY <2>1, <2>2, Replace
<1>3. CASE ~(At(c, c.lptr) = NUL /\ c.i >= c.n)
  BY <1>3 DEF Peeked
<1> QED
  BY <1>2, <1>3

(* ... and going on by it: the NUL of the line is not passed.              *)
LEMMA AfterKeeps ==
  ASSUME NEW st, Good(st)
  PROVE  Good(After(st))
<1> DEFINE c == Head(st)
           p == IF At(c, c.lptr) = NUL THEN c.lptr ELSE c.lptr + 1
           d == [c EXCEPT !.lptr = p]
           f == [d EXCEPT !.tok = NONE, !.ungot = c.ungot]
<1>1. /\ c \in Context /\ Sound(c) /\ c.lptr \in Nat /\ c.line \in Nat /\ c.lend \in Nat
      /\ c.ungot \in BOOLEAN /\ NONE \in Seq(Item) /\ NONE # EOF
  BY OnTop, Fields, Items
<1>2. c.line <= c.lptr /\ c.lptr <= c.lend /\ (c.lend > 0 => c.mem[c.lend] = NUL)
  BY <1>1 DEF Sound, Places
<1>3. After(st) = <<f>> \o Tail(st)
  <2>1. [c EXCEPT !.lptr = IF At(c, @) = NUL THEN @ ELSE @ + 1, !.tok = NONE] = f
    BY <1>1 DEF Context
  <2> QED
    BY <2>1 DEF After
<1> HIDE DEF c
<1>4. p \in Nat /\ c.line <= p /\ p <= c.lend
  <2>1. CASE At(c, c.lptr) = NUL
    BY <2>1, <1>1, <1>2
  <2>2. CASE At(c, c.lptr) # NUL
    <3>1. c.lptr # 0 /\ c.lptr # c.lend
      BY <2>2, <1>1, <1>2 DEF At
    <3> QED
      BY <2>2, <3>1, <1>1, <1>2
  <2> QED
    BY <2>1, <2>2
<1> HIDE DEF p
<1>5. d \in Context /\ Sound(d)
  BY <1>1, <1>4, MoveKeeps
<1>6. d.want = c.want
  BY <1>1 DEF Context
<1> HIDE DEF d
<1>7. f \in Context /\ Sound(f)
  BY <1>1, <1>5, TokenKeeps
<1>8. f.want = Head(st).want
  BY <1>5, <1>6 DEF Context, c
<1> HIDE DEF f
<1> QED
  BY <1>3, <1>7, <1>8, Replace
-----------------------------------------------------------------------------
(* -------- The calls -------- *)

(* The sources the raw filler left.                                        *)
LEMMA InitKeeps == Init => IInv
<1> SUFFICES ASSUME Init PROVE IInv
  OBVIOUS
<1>1. /\ stack \in Seq({c \in Context : Filled(c)}) /\ stack # <<>> /\ ~stack[Len(stack)].want
      /\ ~crashed
  BY SourcesFilled DEF Init
<1>2. ASSUME NEW c \in Context, Filled(c) PROVE Sound(c)
  <2>1. /\ c.line = 1 /\ c.lptr = 1 /\ c.i = 0 /\ c.zlen = Len(c.mem) /\ c.tok = NONE
        /\ c.lend \in 1..c.zlen /\ c.mem[c.lend] = NUL /\ c.zlen \in Nat /\ c.n \in Nat
        /\ \A k \in 0..SegMax : c.slot[k].off < c.zlen /\ c.slot[k].off \in Nat
        /\ \A k \in 0..c.n - 1 : c.slot[k].q \in Literals
    BY <1>2, Fields DEF Filled
  <2>2. Places(c)
    BY <2>1 DEF Places
  <2>3. Segments(c)
    <3>1. ASSUME NEW k \in 0..c.n PROVE \E e \in Nat : EndsAt(c, k, e)
      <4>1. PICK e \in c.slot[k].off + 1..c.zlen : e >= c.lend /\ c.mem[e] = NUL
        BY <1>2 DEF Filled
      <4>2. k \in 0..SegMax
        BY Fields
      <4>3. PICK o \in Nat : o = c.slot[k].off
        BY <2>1, <4>2
      <4>4. e \in Nat /\ e <= c.zlen
        BY <2>1, <4>1, <4>3
      <4> QED
        BY <2>1, <4>1, <4>4 DEF EndsAt
    <3> QED
      BY <2>1, <3>1 DEF Segments
  <2>4. HasLiterals(c)
    BY <2>1 DEF HasLiterals
  <2>5. c.tok # EOF
    BY <2>1, Items
  <2> QED
    BY <2>2, <2>3, <2>4, <2>5 DEF Sound
<1>3. stack \in Seq(Context) /\ \A k \in 1..Len(stack) : stack[k] \in Context /\ Filled(stack[k])
  <2>1. \A k \in 1..Len(stack) : stack[k] \in {c \in Context : Filled(c)}
    BY <1>1
  <2>2. \A k \in 1..Len(stack) : stack[k] \in Context /\ Filled(stack[k])
    BY <2>1
  <2>3. Len(stack) \in Nat /\ stack \in [1..Len(stack) -> {c \in Context : Filled(c)}]
    BY <1>1
  <2>4. stack \in [1..Len(stack) -> Context]
    BY <2>2, <2>3
  <2> QED
    BY <2>2, <2>3, <2>4
<1>4. Good(stack)
  BY <1>1, <1>2, <1>3 DEF Good
<1> QED
  BY <1>1, <1>4 DEF IInv

(* The token of a segment's end is there.                                  *)
LEMMA SlotHolds ==
  ASSUME NEW c \in Context, Sound(c), c.i < c.n
  PROVE  c.slot[c.i].q \in Literals /\ c.slot[c.i].q \notin {NoLit, NilTok}
<1>1. c.i \in c.i..c.n - 1
  BY Fields
<1> QED
  BY <1>1, Items DEF Sound, HasLiterals

LEMMA GetTokKeeps == ASSUME IInv, GetTok PROVE IInv'
<1>1. crashed' = crashed /\ stack' = IF ctx.tok = EOF THEN Tail(stack) ELSE stack
  BY DEF GetTok
<1>2. CASE ctx.tok = EOF
  <2>1. ctx.want
    BY <1>2, OnTop DEF IInv, Sound, ctx
  <2>2. Tail(stack) # <<>>
    BY <2>1, Below DEF IInv, ctx
  <2>3. Good(Tail(stack))
    BY <2>2, Below DEF IInv
  <2> QED
    BY <1>1, <1>2, <2>3 DEF IInv
<1>3. CASE ctx.tok # EOF
  BY <1>1, <1>3 DEF IInv
<1> QED
  BY <1>2, <1>3

(* uls_get_tok() and uls_unget_current() change what is put back only.     *)
LEMMA UngotKeeps ==
  ASSUME IInv, NEW u \in BOOLEAN, Set([ctx EXCEPT !.ungot = u])
  PROVE  Good(stack')
<1>1. ctx \in Context /\ Sound(ctx)
  BY OnTop DEF IInv, ctx
<1>2. [ctx EXCEPT !.ungot = u] = [ctx EXCEPT !.tok = ctx.tok, !.ungot = u]
  BY <1>1 DEF Context
<1>3. ctx.tok \in Seq(Item) /\ (ctx.tok = EOF => ctx.want)
  BY <1>1, Fields DEF Sound
<1> DEFINE d == [ctx EXCEPT !.tok = ctx.tok, !.ungot = u]
<1>4. d \in Context /\ Sound(d)
  BY <1>1, <1>3, TokenKeeps
<1>5. d.want = Head(stack).want
  BY <1>1 DEF Context, ctx
<1>6. stack' = <<d>> \o Tail(stack)
  BY <1>2 DEF Set
<1> HIDE DEF d
<1> QED
  BY <1>4, <1>5, <1>6, Replace DEF IInv

LEMMA ScanWordKeeps == ASSUME IInv, ScanWord PROVE IInv'
<1>1. ctx \in Context /\ Sound(ctx) /\ ctx.lptr \in Nat /\ ctx.line \in Nat /\ ctx.lend \in Nat
      /\ Len(ctx.mem) \in Nat /\ ctx.mem \in Seq(Item) /\ ctx.ungot \in BOOLEAN
  BY OnTop, Fields DEF IInv, ctx
<1>2. PICK e \in NonBlank(ctx) + 1..EndOfText(ctx, ctx.lptr) :
        LET w == SubSeq(ctx.mem, NonBlank(ctx), e - 1)
        IN ToSet(w) \subseteq WordChars /\ Set([ctx EXCEPT !.lptr = e, !.tok = w])
  BY DEF ScanWord
<1> DEFINE w == SubSeq(ctx.mem, NonBlank(ctx), e - 1)
           d == [ctx EXCEPT !.lptr = e]
           f == [d EXCEPT !.tok = w, !.ungot = ctx.ungot]
<1>3. /\ ctx.lptr > 0 /\ EndOfText(ctx, ctx.lptr) \in ctx.lptr..ctx.lend
      /\ NonBlank(ctx) \in ctx.lptr..EndOfText(ctx, ctx.lptr)
  BY <1>1, BlanksEnd DEF ScanWord
<1>4. ctx.line <= ctx.lptr /\ ctx.lend <= Len(ctx.mem)
  BY <1>1 DEF Sound, Places
<1>5. e \in Nat /\ ctx.line <= e /\ e <= ctx.lend /\ e <= Len(ctx.mem) /\ NonBlank(ctx) \in Nat /\ NonBlank(ctx) > 0
  BY <1>1, <1>2, <1>3, <1>4
<1>6. w \in Seq(Item)
  <2>1. \A i \in NonBlank(ctx)..e - 1 : i \in 1..Len(ctx.mem)
    BY <1>1, <1>5
  <2>2. \A i \in NonBlank(ctx)..e - 1 : ctx.mem[i] \in Item
    BY <1>1, <2>1
  <2> QED
    BY <1>5, <2>2, SubSeqProperties
<1>7. w # EOF
  <2>1. ASSUME w = EOF PROVE FALSE
    <3>1. EOF = <<EOF[1]>>
      BY TokensDiffer
    <3>2. 1 \in DOMAIN EOF
      <4> DEFINE x == EOF[1]
      <4>1. 1 \in DOMAIN <<x>>
        OBVIOUS
      <4> QED
        BY <3>1, <4>1
    <3>3. EOF[1] \in ToSet(EOF)
      BY <3>2 DEF ToSet
    <3>4. EOF[1] \in WordChars
      BY <1>2, <2>1, <3>3
    <3> QED
      BY <3>4, Items
  <2> QED
    BY <2>1
<1>8. d \in Context /\ Sound(d)
  BY <1>1, <1>5, MoveKeeps
<1>9. stack' = <<f>> \o Tail(stack) /\ d.want = ctx.want
  <2>1. [ctx EXCEPT !.lptr = e, !.tok = w] = f /\ d.want = ctx.want
    BY <1>1 DEF Context
  <2> QED
    BY <1>2, <2>1 DEF Set
<1> HIDE DEF w, d
<1>10. f \in Context /\ Sound(f)
  BY <1>1, <1>6, <1>7, <1>8, TokenKeeps
<1>11. f.want = Head(stack).want
  BY <1>8, <1>9 DEF Context, ctx
<1> HIDE DEF f
<1>12. Good(stack')
  BY <1>9, <1>10, <1>11, Replace DEF IInv
<1> QED
  BY <1>12 DEF IInv, ScanWord

LEMMA ScanSegmentEndKeeps == ASSUME IInv, ScanSegmentEnd PROVE IInv'
<1> DEFINE d == NextSegment(ctx)
           q == ctx.slot[ctx.i].q
           f == [d EXCEPT !.tok = <<q>>, !.ungot = d.ungot]
<1>1. ctx \in Context /\ Sound(ctx) /\ ctx.i < ctx.n
  BY OnTop DEF IInv, ctx, ScanSegmentEnd
<1>2. q \in Literals /\ q \notin {NoLit, NilTok}
  BY <1>1, SlotHolds
<1>3. d \in Context /\ Sound(d) /\ d.want = ctx.want
  BY <1>1, NextSegmentKeeps
<1>4. Set([d EXCEPT !.tok = <<q>>]) /\ UNCHANGED crashed
  BY <1>2 DEF ScanSegmentEnd
<1> HIDE DEF d, q
<1>5. <<q>> \in Seq(Item) /\ <<q>> # EOF /\ d.ungot \in BOOLEAN
  BY <1>2, <1>3, Items, Fields
<1>6. [d EXCEPT !.tok = <<q>>] = f
  BY <1>3 DEF Context
<1>7. f \in Context /\ Sound(f)
  BY <1>3, <1>5, TokenKeeps
<1>8. f.want = Head(stack).want
  BY <1>3 DEF Context, ctx
<1>9. stack' = <<f>> \o Tail(stack)
  BY <1>4, <1>6 DEF Set
<1> HIDE DEF f
<1>10. Good(stack')
  BY <1>7, <1>8, <1>9, Replace DEF IInv
<1> QED
  BY <1>4, <1>10 DEF IInv

(* An emptied context with the token that tells so.                        *)
LEMMA EndKeeps ==
  ASSUME IInv, NEW t \in Seq(Item), t = EOF => ctx.want, Set([ClearAndFill(ctx) EXCEPT !.tok = t])
  PROVE  Good(stack')
<1> DEFINE d == ClearAndFill(ctx)
           f == [d EXCEPT !.tok = t, !.ungot = d.ungot]
<1>1. ctx \in Context /\ Sound(ctx)
  BY OnTop DEF IInv, ctx
<1>2. d \in Context /\ Sound(d) /\ d.want = ctx.want
  BY <1>1, ClearKeeps
<1>3. Set([d EXCEPT !.tok = t])
  OBVIOUS
<1> HIDE DEF d
<1>4. d.ungot \in BOOLEAN
  BY <1>2, Fields
<1>5. [d EXCEPT !.tok = t] = f
  BY <1>2 DEF Context
<1>6. f \in Context /\ Sound(f)
  BY <1>2, <1>4, TokenKeeps
<1>7. f.want = Head(stack).want
  BY <1>2 DEF Context, ctx
<1>8. stack' = <<f>> \o Tail(stack)
  BY <1>3, <1>5 DEF Set
<1> HIDE DEF f
<1> QED
  BY <1>6, <1>7, <1>8, Replace DEF IInv

LEMMA ScanFillKeeps == ASSUME IInv, ScanFill PROVE IInv'
<1>1. crashed' = crashed
  BY DEF ScanFill
<1>2. CASE ctx.want
  <2>1. Set([ClearAndFill(ctx) EXCEPT !.tok = EOF])
    BY <1>2 DEF ScanFill
  <2> QED
    BY <1>1, <1>2, <2>1, EndKeeps, Items DEF IInv
<1>3. CASE ~ctx.want /\ Len(stack) = 1
  <2>1. Set([ClearAndFill(ctx) EXCEPT !.tok = EOI])
    BY <1>3 DEF ScanFill
  <2> QED
    BY <1>1, <1>3, <2>1, EndKeeps, Items DEF IInv
<1>4. CASE ~ctx.want /\ Len(stack) # 1
  <2>1. stack' = Tail(stack)
    BY <1>4 DEF ScanFill
  <2>2. Good(Tail(stack))
    BY <1>4, Below DEF IInv
  <2> QED
    BY <1>1, <2>1, <2>2 DEF IInv
<1> QED
  BY <1>2, <1>3, <1>4

(* What callers put back is text.                                          *)
LEMMA TextKeeps ==
  ASSUME "overfill" \notin CallerMay, IInv, NEW call, NEW txt \in Seq(Item), UngetText(call, txt)
  PROVE  IInv'
<1> DEFINE st == Melt(stack)
<1>1. MeltKept /\ CallerKeeps(st, NONE, Len(txt)) /\ stack' = WithText(st, txt) /\ crashed' = crashed
  BY DEF UngetText, MayPut
<1>2. Good(st) /\ Head(st).tok # EOF
  BY <1>1, MeltKeeps DEF IInv
<1> HIDE DEF st
<1>3. IsUnget(Head(st)) /\ ~Fits(Head(st), Len(txt)) => Head(st).i = 0 \/ Head(st).i > Head(st).n
  BY <1>1, CallerCareful
<1>4. Good(WithText(st, txt))
  BY <1>2, <1>3, WithTextKeeps
<1> QED
  BY <1>1, <1>4 DEF IInv

LEMMA TextIsItems ==
  /\ \A t \in Texts : t \in Seq(Item) /\ Append(t, SP) \in Seq(Item)
  /\ \A ch \in WordChars \cup {SP} : <<ch>> \in Seq(Item)
<1>1. WordChars \cup {SP} \subseteq Item
  BY DEF Item
<1>2. ASSUME NEW t \in Texts PROVE t \in Seq(Item) /\ Append(t, SP) \in Seq(Item)
  <2>1. t \in Seq(WordChars \cup {SP})
    BY PushBackConstants
  <2>2. Len(t) \in Nat /\ t \in [1..Len(t) -> WordChars \cup {SP}]
    BY <2>1
  <2>3. t \in [1..Len(t) -> Item]
    BY <1>1, <2>2
  <2>4. t \in Seq(Item)
    BY <2>2, <2>3
  <2> QED
    BY <2>4, Items, AppendProperties
<1>3. ASSUME NEW ch \in WordChars \cup {SP} PROVE <<ch>> \in Seq(Item)
  BY <1>1
<1> QED
  BY <1>2, <1>3

LEMMA UngetTokKeeps == ASSUME "overfill" \notin CallerMay, IInv, UngetTok PROVE IInv'
<1> DEFINE st == Melt(stack)
<1>1. PICK q \in Literals :
        MeltKept /\ CallerKeeps(st, <<q>>, 0) /\ stack' = WithQuote(st, q) /\ crashed' = crashed
  BY DEF UngetTok, MayPut
<1>2. Good(st) /\ Head(st).tok # EOF
  BY <1>1, MeltKeeps DEF IInv
<1> HIDE DEF st
<1>6. Good(WithQuote(st, q))
  BY <1>2, WithQuoteKeeps
<1> QED
  BY <1>1, <1>6 DEF IInv

(* Looking at a character: a slot before a literal has one.                *)
LEMMA PeekKeeps ==
  ASSUME "overfill" \notin CallerMay, IInv, NEW call, NEW after, PeekOrGet(call, after), Good(Melt(stack)) => Good(after)
  PROVE  IInv'
<1> DEFINE st == Melt(stack)
<1>1. MeltKept
  BY DEF PeekOrGet
<1>2. Good(st)
  BY <1>1, MeltKeeps DEF IInv
<1>3. Head(st) \in Context /\ Sound(Head(st))
  BY <1>2, OnTop
<1>4. ~PeekFails(st)
  <2> HIDE DEF st
  <2> QED
    BY <1>3, SlotHolds DEF PeekFails
<1>5. stack' = after /\ crashed' = crashed
  BY <1>4 DEF PeekOrGet
<1> QED
  BY <1>2, <1>5 DEF IInv

LEMMA NextKeeps == ASSUME "overfill" \notin CallerMay, IInv, [Next]_vars PROVE IInv'
<1>1. CASE GetTokSticky
  BY <1>1 DEF GetTokSticky, IInv
<1>2. CASE GetTokUngot
  BY <1>2, UngotKeeps DEF GetTokUngot, IInv
<1>3. CASE GetTok
  BY <1>3, GetTokKeeps
<1>4. CASE ScanWord
  BY <1>4, ScanWordKeeps
<1>5. CASE ScanSegmentEnd
  BY <1>5, ScanSegmentEndKeeps
<1>6. CASE ScanFill
  BY <1>6, ScanFillKeeps
<1>7. CASE UngetCurrent
  BY <1>7, UngotKeeps DEF UngetCurrent, IInv
<1>8. CASE UngetStr
  BY <1>8, TextIsItems, TextKeeps DEF UngetStr
<1>9. CASE UngetCh
  BY <1>9, TextIsItems, TextKeeps DEF UngetCh
<1>10. CASE UngetTokText
  BY <1>10, TextIsItems, TextKeeps DEF UngetTokText
<1>11. CASE UngetTok
  BY <1>11, UngetTokKeeps
<1>12. CASE PeekCh
  BY <1>12, PeekKeeps, PeekedKeeps DEF PeekCh
<1>13. CASE GetCh
  BY <1>13, PeekKeeps, PeekedKeeps, AfterKeeps DEF GetCh
<1>14. CASE UNCHANGED vars
  BY <1>14 DEF vars, IInv
<1> QED
  BY <1>1, <1>2, <1>3, <1>4, <1>5, <1>6, <1>7, <1>8, <1>9, <1>10, <1>11, <1>12, <1>13, <1>14 DEF Next
-----------------------------------------------------------------------------
(* -------- The theorem -------- *)

(* A caller that fills no gap over text still to read, whatever texts and  *)
(* literals it puts back, never makes uls_gettok_raw() or uls_peek_ch()    *)
(* look at a token that is not there, and every context points into its    *)
(* buffer.                                                                 *)
THEOREM NoCrashHolds == "overfill" \notin CallerMay => (Spec => []NoCrash)
<1> SUFFICES ASSUME "overfill" \notin CallerMay PROVE Spec => []NoCrash
  OBVIOUS
<1>1. Init => IInv
  BY InitKeeps
<1>2. IInv /\ [Next]_vars => IInv'
  BY NextKeeps
<1>3. IInv => NoCrash
  <2> SUFFICES ASSUME IInv PROVE NoCrash
    OBVIOUS
  <2>1. ASSUME NEW k \in DOMAIN stack
        PROVE  LET c == stack[k]
               IN /\ c.line \in 0..c.lptr /\ c.lptr <= c.lend
                  /\ c.lend <= Len(c.mem) /\ c.zlen <= Len(c.mem)
                  /\ \A s \in 0..SegMax : c.slot[s].off <= Len(c.mem)
    <3>1. stack \in Seq(Context) /\ k \in 1..Len(stack)
      BY DEF IInv, Good
    <3>2. PICK c \in Context : c = stack[k] /\ Sound(c)
      BY <3>1 DEF IInv, Good
    <3>3. c.line \in Nat /\ c.lptr \in Nat
      BY Fields
    <3> QED
      BY <3>2, <3>3 DEF Sound, Places
  <2> QED
    BY <2>1 DEF IInv, NoCrash
<1> QED
  BY <1>1, <1>2, <1>3, PTL DEF Spec
-----------------------------------------------------------------------------
(* -------- The order of delivery: text in memory -------- *)

Chars == WordChars \cup {SP}
Tokens == {NONE, EOF, EOI} \cup (Seq(WordChars) \ {<<>>}) \cup {<<q>> : q \in Literals}

LEMMA CharsAre ==
  /\ Chars \subseteq Item /\ NUL \in Item /\ NUL \notin Chars /\ SP \in Chars /\ SP \notin WordChars
  /\ WordChars \subseteq Chars /\ Chars \cup {NUL} \subseteq Item
  BY PushBackConstants DEF Chars, Item

(* Items in a row, however they are grouped.                               *)
LEMMA ItemsAssociate ==
  \A x, y, z \in Seq(Item) : (x \o y) \o z = x \o (y \o z)
  BY Associative

LEMMA SeqIs ==
  ASSUME NEW S, NEW n \in Nat, NEW w \in [1..n -> S]
  PROVE  w \in Seq(S)
  OBVIOUS

(* The text at p, when its end is known.                                   *)
LEMMA TextIs ==
  ASSUME NEW c \in Context, NEW p \in 1..Len(c.mem), NEW e \in p..Len(c.mem), c.mem[e] = NUL,
         \A i \in p..e - 1 : c.mem[i] # NUL
  PROVE  /\ EndOfText(c, p) = e
         /\ TextAt(c, p) = SubSeq(c.mem, p, e - 1)
         /\ TextAt(c, p) \in Seq(Item) /\ Len(TextAt(c, p)) = e - p
         /\ \A i \in 1..e - p : TextAt(c, p)[i] = c.mem[p + i - 1]
<1>1. Len(c.mem) \in Nat /\ c.mem \in Seq(Item)
  BY Fields
<1>2. p \in Nat /\ e \in Nat /\ p > 0 /\ p <= e /\ e <= Len(c.mem)
  BY <1>1
<1>3. /\ EndOfText(c, p) \in p..e /\ c.mem[EndOfText(c, p)] = NUL
  BY EndFound
<1>4. EndOfText(c, p) = e
  <2>1. SUFFICES ASSUME EndOfText(c, p) # e PROVE FALSE
    OBVIOUS
  <2>2. EndOfText(c, p) \in p..e - 1
    BY <1>2, <1>3, <2>1
  <2> QED
    BY <1>3, <2>2
<1>5. TextAt(c, p) = SubSeq(c.mem, p, e - 1)
  BY <1>2, <1>4 DEF TextAt
<1> DEFINE t == SubSeq(c.mem, p, e - 1)
<1>6. \A i \in p..e - 1 : i \in 1..Len(c.mem) /\ c.mem[i] \in Item
  BY <1>1, <1>2
<1>7. t \in Seq(Item) /\ Len(t) = e - p /\ \A i \in 1..e - p : t[i] = c.mem[p + i - 1]
  <2>1. p \in Int /\ e - 1 \in Int
    BY <1>2
  <2>2. /\ t \in Seq(Item) /\ Len(t) = IF p <= e - 1 THEN e - 1 - p + 1 ELSE 0
        /\ \A i \in 1..e - 1 - p + 1 : t[i] = c.mem[p + i - 1]
    BY <1>6, <2>1, SubSeqProperties
  <2>3. e - 1 - p + 1 = e - p
    BY <1>2
  <2> HIDE DEF t
  <2> QED
    BY <1>2, <2>2, <2>3
<1> QED
  BY <1>4, <1>5, <1>7

(* It is the same wherever the memory is the same up to a NUL.             *)
LEMMA TextStays ==
  ASSUME NEW c \in Context, NEW d \in Context, NEW p \in Nat, NEW e \in Nat,
         p > 0, p <= e, e <= Len(c.mem), e <= Len(d.mem), c.mem[e] = NUL,
         \A i \in p..e : d.mem[i] = c.mem[i]
  PROVE  TextAt(d, p) = TextAt(c, p)
<1>0. Len(c.mem) \in Nat /\ Len(d.mem) \in Nat
  BY Fields
<1>1. p \in 1..Len(c.mem) /\ e \in p..Len(c.mem)
  BY <1>0
<1> DEFINE f == EndOfText(c, p)
<1>2. f \in p..e /\ c.mem[f] = NUL /\ \A i \in p..f - 1 : c.mem[i] # NUL
  BY <1>1, EndFound
<1> HIDE DEF f
<1>3. f \in Nat /\ p <= f /\ f <= e
  BY <1>2
<1>4. p \in 1..Len(d.mem) /\ f \in p..Len(d.mem) /\ f \in p..Len(c.mem)
  BY <1>0, <1>3
<1>5. \A i \in p..f : i \in p..e
  BY <1>3
<1>6. d.mem[f] = NUL /\ \A i \in p..f - 1 : d.mem[i] # NUL
  <2>1. f \in p..f /\ \A i \in p..f - 1 : i \in p..f
    BY <1>3
  <2> QED
    BY <1>2, <1>5, <2>1
<1>7. /\ TextAt(c, p) \in Seq(Item) /\ Len(TextAt(c, p)) = f - p
      /\ \A i \in 1..f - p : TextAt(c, p)[i] = c.mem[p + i - 1]
  BY <1>1, <1>2, <1>4, TextIs
<1>8. /\ TextAt(d, p) \in Seq(Item) /\ Len(TextAt(d, p)) = f - p
      /\ \A i \in 1..f - p : TextAt(d, p)[i] = d.mem[p + i - 1]
  BY <1>4, <1>6, TextIs
<1>9. \A i \in 1..f - p : p + i - 1 \in p..e
  BY <1>3
<1>10. \A i \in 1..f - p : TextAt(d, p)[i] = TextAt(c, p)[i]
  BY <1>7, <1>8, <1>9
<1> QED
  BY <1>7, <1>8, <1>10, SeqEqual

(* No text is at a NUL.                                                    *)
LEMMA NoTextAtNul ==
  ASSUME NEW c \in Context, NEW p \in Nat, p <= Len(c.mem), At(c, p) = NUL
  PROVE  TextAt(c, p) = <<>>
<1>0. Len(c.mem) \in Nat
  BY Fields
<1>1. CASE p = 0
  BY <1>1 DEF TextAt
<1>2. CASE p # 0
  <2>1. p \in 1..Len(c.mem) /\ p \in p..Len(c.mem) /\ c.mem[p] = NUL /\ p - p = 0
        /\ \A i \in p..p - 1 : FALSE
    BY <1>0, <1>2 DEF At
  <2>2. TextAt(c, p) \in Seq(Item) /\ Len(TextAt(c, p)) = p - p
    BY <2>1, TextIs
  <2> QED
    BY <2>1, <2>2, EmptySeq
<1> QED
  BY <1>1, <1>2

-----------------------------------------------------------------------------
(* -------- What a context delivers -------- *)

(* A context whose text is told apart from what is around it.  A token of  *)
(* the end is kept only where nothing is left; what is put back is put     *)
(* above the segments that are read later, each of which ends at the first *)
(* character of any segment read before it, at the latest.                 *)
Spent(c) == ~IsUnget(c) /\ c.i >= c.n /\ At(c, c.lptr) = NUL
EndsBy(c, k, p) == \E e \in Nat : c.slot[k].off + 1 <= e /\ e <= p /\ c.mem[e] = NUL
Buffer(c) ==
  /\ ~c.want /\ c.n \in {0, SegMax}
  /\ c.n > 0 => c.line = c.slot[c.i].off + 1 /\ c.line <= c.zlen /\ c.zlen = Len(c.mem)
  /\ \A j, k \in c.i..c.n : j < k => EndsBy(c, k, c.slot[j].off + 1)
Shaped(c) ==
  /\ c.mem \in Seq(Chars \cup {NUL})
  /\ \A p \in c.lptr..c.lend - 1 : c.mem[p] # NUL
  /\ c.tok \in Tokens
  /\ c.tok \in {EOF, EOI} => Spent(c)
  /\ IsUnget(c) => Buffer(c)
Neat(c) == Sound(c) /\ Shaped(c)

(* The text at hand reaches up to the end of the line.                     *)
LEMMA LineIs ==
  ASSUME NEW c \in Context, Neat(c)
  PROVE  /\ c.lptr > 0 => EndOfText(c, c.lptr) = c.lend
         /\ TextAt(c, c.lptr) \in Seq(Chars) /\ TextAt(c, c.lptr) \in Seq(Item)
         /\ Len(TextAt(c, c.lptr)) = c.lend - c.lptr
         /\ \A i \in 1..c.lend - c.lptr : TextAt(c, c.lptr)[i] = c.mem[c.lptr + i - 1]
         /\ At(c, c.lptr) = NUL <=> c.lptr = c.lend
         /\ At(c, c.lptr) = NUL => TextAt(c, c.lptr) = <<>>
         /\ c.lptr \in Nat /\ c.lend \in Nat /\ c.lptr <= c.lend /\ c.line \in Nat /\ c.line <= c.lptr
         /\ Len(c.mem) \in Nat /\ c.lend <= Len(c.mem)
         /\ c.lptr = 0 => c.lend = 0
<1>1. /\ c.lptr \in Nat /\ c.lend \in Nat /\ c.lptr <= c.lend /\ c.lend <= Len(c.mem) /\ Len(c.mem) \in Nat
      /\ (c.line = 0 => c.lend = 0) /\ c.line \in Nat /\ c.line <= c.lptr
      /\ (c.lend > 0 => c.mem[c.lend] = NUL)
  BY Fields DEF Neat, Sound, Places
<1>2. /\ c.mem \in Seq(Chars \cup {NUL}) /\ \A p \in c.lptr..c.lend - 1 : c.mem[p] # NUL
  BY DEF Neat, Shaped
<1>3. c.lptr = 0 => c.lend = 0
  BY <1>1
<1> DEFINE t == TextAt(c, c.lptr)
<1>4. CASE c.lptr = 0
  <2>1. t = <<>> /\ c.lend = 0 /\ At(c, c.lptr) = NUL
    BY <1>3, <1>4 DEF TextAt, At
  <2>2. <<>> \in Seq(Chars) /\ <<>> \in Seq(Item) /\ Len(<<>>) = 0
    BY EmptySeq
  <2> HIDE DEF t
  <2>3. c.lend - c.lptr = 0
    BY <1>4, <2>1
  <2>4. t \in Seq(Chars) /\ t \in Seq(Item) /\ Len(t) = c.lend - c.lptr
        /\ \A i \in 1..c.lend - c.lptr : t[i] = c.mem[c.lptr + i - 1]
    BY <2>1, <2>2, <2>3
  <2> QED
    BY <1>1, <1>4, <2>1, <2>4 DEF t
<1>5. CASE c.lptr # 0
  <2>1. c.lptr \in 1..Len(c.mem) /\ c.lend \in c.lptr..Len(c.mem) /\ c.mem[c.lend] = NUL
    BY <1>1, <1>5
  <2>2. /\ EndOfText(c, c.lptr) = c.lend
        /\ t \in Seq(Item) /\ Len(t) = c.lend - c.lptr
        /\ \A i \in 1..c.lend - c.lptr : t[i] = c.mem[c.lptr + i - 1]
    BY <1>2, <2>1, TextIs
  <2> HIDE DEF t
  <2>3. At(c, c.lptr) = NUL <=> c.lptr = c.lend
    <3>1. c.lptr # c.lend => c.lptr \in c.lptr..c.lend - 1
      BY <1>1
    <3> QED
      BY <1>2, <1>5, <2>1, <3>1 DEF At
  <2>4. t \in Seq(Chars)
    <3>1. ASSUME NEW i \in 1..c.lend - c.lptr PROVE t[i] \in Chars
      <4>1. c.lptr + i - 1 \in c.lptr..c.lend - 1 /\ c.lptr + i - 1 \in 1..Len(c.mem)
        BY <1>1, <1>5
      <4>2. c.mem[c.lptr + i - 1] \in Chars \cup {NUL} /\ c.mem[c.lptr + i - 1] # NUL
        BY <1>2, <4>1
      <4> QED
        BY <2>2, <4>2
    <3>2. Len(t) \in Nat /\ t \in [1..Len(t) -> Item]
      BY <2>2, LenProperties
    <3>3. t \in [1..Len(t) -> Chars]
      BY <2>2, <3>1, <3>2
    <3> QED
      BY <3>2, <3>3
  <2>5. At(c, c.lptr) = NUL => t = <<>>
    <3>1. c.lptr <= Len(c.mem)
      BY <1>1
    <3> QED
      BY <1>1, <3>1, NoTextAtNul DEF t
  <2> QED
    BY <1>1, <1>5, <2>2, <2>3, <2>4, <2>5 DEF t
<1> QED
  BY <1>4, <1>5

(* What is behind a segment: its literal and the text after it.            *)
LEMMA BehindIs ==
  ASSUME NEW c \in Context, Sound(c), NEW k \in c.i..c.n - 1
  PROVE  /\ k \in 0..SegMax /\ k + 1 \in 0..SegMax /\ k + 1 \in c.i..c.n
         /\ c.slot[k].q \in Literals
         /\ TextAt(c, c.slot[k + 1].off + 1) \in Seq(Item)
         /\ Behind(c, k) = <<c.slot[k].q>> \o TextAt(c, c.slot[k + 1].off + 1)
         /\ Behind(c, k) \in Seq(Item) /\ Behind(c, k) # <<>> /\ Behind(c, k)[1] = c.slot[k].q
<1>0. /\ c.i \in Nat /\ c.n \in Nat /\ c.n <= SegMax /\ SegMax \in Nat /\ Len(c.mem) \in Nat
      /\ \A j \in 0..SegMax : c.slot[j].off \in Nat
  <2>1. c.n \in 0..SegMax /\ SegMax \in Nat
    BY Fields
  <2> QED
    BY SMTT(30), <2>1, Fields
<1>1. k \in 0..SegMax /\ k + 1 \in 0..SegMax /\ k + 1 \in c.i..c.n
  BY <1>0
<1>2. c.slot[k].q \in Literals
  BY DEF Sound, HasLiterals
<1>3. c.slot[k].q \in Item /\ c.slot[k].q \notin {NoLit, NilTok}
  BY <1>2, Items
<1>4. PICK e \in Nat : EndsAt(c, k + 1, e)
  BY <1>1 DEF Sound, Segments
<1> DEFINE t == TextAt(c, c.slot[k + 1].off + 1)
<1>5. t \in Seq(Item)
  <2>1. PICK p \in Nat : p = c.slot[k + 1].off + 1
    BY <1>0, <1>1
  <2>2. e \in p..Len(c.mem) /\ c.mem[e] = NUL /\ p > 0
    BY <1>0, <1>1, <1>4, <2>1 DEF EndsAt
  <2>3. p \in 1..Len(c.mem)
    BY <1>0, <2>2
  <2> DEFINE f == EndOfText(c, p)
  <2>4. f \in p..e /\ c.mem[f] = NUL /\ \A i \in p..f - 1 : c.mem[i] # NUL
    BY <2>2, <2>3, EndFound
  <2> HIDE DEF f
  <2>5. f \in p..Len(c.mem)
    BY <1>0, <2>2, <2>4
  <2>6. TextAt(c, p) \in Seq(Item)
    BY <2>3, <2>4, <2>5, TextIs
  <2> QED
    BY <2>1, <2>6
<1>6. Behind(c, k) = <<c.slot[k].q>> \o t
  BY <1>3 DEF Behind
<1> HIDE DEF t
<1>7. <<c.slot[k].q>> \o t \in Seq(Item) /\ <<c.slot[k].q>> \o t # <<>> /\ (<<c.slot[k].q>> \o t)[1] = c.slot[k].q
  BY <1>3, <1>5, InFront
<1> QED
  BY <1>1, <1>2, <1>5, <1>6, <1>7 DEF t

(* The segments still to come, one by one.                                 *)
SegList(c) == [k \in 1..c.n - c.i |-> Behind(c, c.i + k - 1)]

LEMMA SegListIs ==
  ASSUME NEW c \in Context, Sound(c), c.i < c.n
  PROVE  /\ SegList(c) \in Seq(Seq(Item)) /\ Len(SegList(c)) = c.n - c.i
         /\ \A k \in 1..c.n - c.i : SegList(c)[k] = Behind(c, c.i + k - 1)
<1>1. c.i \in Nat /\ c.n \in Nat /\ c.n - c.i \in Nat
  BY Fields
<1>2. ASSUME NEW k \in 1..c.n - c.i PROVE Behind(c, c.i + k - 1) \in Seq(Item)
  <2>1. c.i + k - 1 \in c.i..c.n - 1
    BY <1>1
  <2> QED
    BY <2>1, BehindIs
<1>3. SegList(c) \in [1..c.n - c.i -> Seq(Item)]
  BY <1>2 DEF SegList
<1>4. \A k \in 1..c.n - c.i : SegList(c)[k] = Behind(c, c.i + k - 1)
  BY DEF SegList
<1> QED
  BY <1>1, <1>3, <1>4

LEMMA SegsType ==
  ASSUME NEW c \in Context, Sound(c)
  PROVE  Segs(c) \in Seq(Item) /\ (c.i >= c.n => Segs(c) = <<>>)
<1>1. c.i \in Nat /\ c.n \in Nat
  BY Fields
<1>2. CASE c.i < c.n
  <2>1. Segs(c) = FlattenSeq(SegList(c))
    BY <1>2 DEF Segs, SegList
  <2> QED
    BY <1>1, <1>2, <2>1, SegListIs, FlattenType
<1>3. CASE ~(c.i < c.n)
  BY <1>3, EmptySeq DEF Segs
<1> QED
  BY <1>1, <1>2, <1>3

(* The segment read next comes first, the others are where they were.      *)
LEMMA SegsCons ==
  ASSUME NEW c \in Context, Sound(c), NEW d \in Context, Sound(d),
         d.i = c.i + 1, d.n = c.n, c.i < c.n,
         \A k \in d.i..d.n - 1 : Behind(d, k) = Behind(c, k)
  PROVE  Segs(c) = Behind(c, c.i) \o Segs(d)
<1>1. c.i \in Nat /\ c.n \in Nat
  BY Fields
<1>2. c.i \in c.i..c.n - 1
  BY <1>1
<1>3. Behind(c, c.i) \in Seq(Item)
  BY <1>2, BehindIs
<1> DEFINE h == Behind(c, c.i)
           l == SegList(c)
           m == IF d.i < d.n THEN SegList(d) ELSE <<>>
<1>4. Segs(c) = FlattenSeq(l) /\ Segs(d) = FlattenSeq(m)
  BY FlattenEmpty DEF Segs, SegList
<1>5. /\ l \in Seq(Seq(Item)) /\ Len(l) = c.n - c.i
      /\ \A k \in 1..c.n - c.i : l[k] = Behind(c, c.i + k - 1)
  BY SegListIs
<1>6. /\ m \in Seq(Seq(Item)) /\ Len(m) = c.n - c.i - 1
      /\ \A k \in 1..c.n - c.i - 1 : m[k] = Behind(d, d.i + k - 1)
  <2>1. CASE d.i < d.n
    <3>1. d.n - d.i = c.n - c.i - 1
      BY <1>1
    <3> QED
      BY <2>1, <3>1, SegListIs
  <2>2. CASE ~(d.i < d.n)
    <3>1. m = <<>> /\ c.n - c.i - 1 = 0
      BY <1>1, <2>2
    <3>2. <<>> \in Seq(Seq(Item)) /\ Len(<<>>) = 0 /\ \A k \in 1..0 : FALSE
      BY EmptySeq
    <3> HIDE DEF m
    <3> QED
      BY <3>1, <3>2
  <2> QED
    BY <2>1, <2>2
<1> HIDE DEF l, m, h
<1>7. h \in Seq(Item)
  BY <1>3 DEF h
<1>8. /\ <<h>> \o m \in Seq(Seq(Item)) /\ Len(<<h>> \o m) = Len(m) + 1 /\ (<<h>> \o m)[1] = h
      /\ \A i \in 1..Len(m) : (<<h>> \o m)[i + 1] = m[i]
  BY <1>6, <1>7, InFront
<1>9. ASSUME NEW k \in 1..Len(l) PROVE l[k] = (<<h>> \o m)[k]
  <2>1. l[k] = Behind(c, c.i + k - 1)
    BY <1>5
  <2>2. CASE k = 1
    <3>1. c.i + 1 - 1 = c.i
      BY <1>1
    <3> QED
      BY <1>8, <2>1, <2>2, <3>1 DEF h
  <2>3. CASE k # 1
    <3>1. k - 1 \in 1..Len(m) /\ (k - 1) + 1 = k /\ d.i + (k - 1) - 1 = c.i + k - 1 /\ k - 1 \in 1..c.n - c.i - 1
          /\ c.i + k - 1 \in d.i..d.n - 1
      <4>1. PICK i0 \in Nat, n0 \in Nat : i0 = c.i /\ n0 = c.n
        BY <1>1
      <4>2. d.i = i0 + 1 /\ d.n = n0 /\ i0 < n0 /\ Len(l) = n0 - i0 /\ Len(m) = n0 - i0 - 1
        BY <4>1, <1>5, <1>6
      <4>3. k \in 1..n0 - i0 /\ k # 1
        BY <4>2, <2>3
      <4>4. k - 1 \in 1..n0 - i0 - 1 /\ (k - 1) + 1 = k /\ (i0 + 1) + (k - 1) - 1 = i0 + k - 1
            /\ i0 + k - 1 \in i0 + 1..n0 - 1
        <5>1. i0 \in Nat /\ n0 \in Nat /\ k \in Int /\ 1 <= k /\ k <= n0 - i0 /\ k # 1
          BY <4>3
        <5> QED
          BY ONLY <5>1
      <4> QED
        BY <4>1, <4>2, <4>4
    <3>2. (<<h>> \o m)[k] = m[k - 1]
      BY <1>8, <3>1
    <3>3. m[k - 1] = Behind(d, c.i + k - 1)
      BY <1>6, <3>1
    <3> QED
      BY <2>1, <3>1, <3>2, <3>3
  <2> QED
    BY <2>2, <2>3
<1>10. Len(l) = Len(<<h>> \o m)
  BY <1>1, <1>5, <1>6, <1>8
<1>11. l = <<h>> \o m
  BY <1>5, <1>8, <1>9, <1>10, SeqEqual
<1>12. FlattenSeq(<<h>> \o m) = h \o FlattenSeq(m)
  BY <1>6, <1>7, FlattenCons
<1> QED
  BY <1>4, <1>11, <1>12 DEF h

LEMMA SegsSame ==
  ASSUME NEW c \in Context, NEW d \in Context, d.i = c.i, d.n = c.n,
         \A k \in c.i..c.n - 1 : Behind(d, k) = Behind(c, k)
  PROVE  Segs(d) = Segs(c)
<1>1. c.i \in Nat /\ c.n \in Nat
  BY Fields
<1>2. ASSUME NEW k \in 1..c.n - c.i PROVE Behind(d, c.i + k - 1) = Behind(c, c.i + k - 1)
  <2>1. c.i + k - 1 \in c.i..c.n - 1
    BY <1>1
  <2> QED
    BY <2>1
<1>3. [k \in 1..c.n - c.i |-> Behind(d, c.i + k - 1)] = [k \in 1..c.n - c.i |-> Behind(c, c.i + k - 1)]
  BY <1>2
<1> QED
  BY <1>3 DEF Segs

(* What comes after the text at hand.                                      *)
Later(c, top) == Segs(c) \o (Drained(c) \o Ending(c, top))

LEMMA ComingIs ==
  ASSUME NEW c \in Context, Neat(c), NEW top \in BOOLEAN
  PROVE  /\ TextAt(c, c.lptr) \in Seq(Item) /\ Segs(c) \in Seq(Item)
         /\ Drained(c) \in Seq(Item) /\ Ending(c, top) \in Seq(Item)
         /\ Later(c, top) \in Seq(Item) /\ Coming(c, top) = TextAt(c, c.lptr) \o Later(c, top)
         /\ Coming(c, top) \in Seq(Item)
         /\ c.tok # EOF => Ending(c, TRUE) = Ending(c, FALSE) /\ Later(c, TRUE) = Later(c, FALSE)
                           /\ Coming(c, TRUE) = Coming(c, FALSE)
<1>1. TextAt(c, c.lptr) \in Seq(Item) /\ Segs(c) \in Seq(Item)
  BY LineIs, SegsType DEF Neat
<1>2. <<>> \in Seq(Item) /\ <<SP>> \in Seq(Item) /\ EOF \in Seq(Item)
  BY Items, EmptySeq
<1>3. Drained(c) \in Seq(Item) /\ Ending(c, top) \in Seq(Item)
  BY <1>2 DEF Drained, Ending
<1>4. Drained(c) \o Ending(c, top) \in Seq(Item)
  BY <1>3, ConcatProperties
<1>5. Later(c, top) \in Seq(Item)
  BY <1>1, <1>4, ConcatProperties DEF Later
<1>6. Coming(c, top) = TextAt(c, c.lptr) \o Later(c, top)
  BY DEF Coming, Later
<1>7. Coming(c, top) \in Seq(Item)
  BY <1>1, <1>5, <1>6, ConcatProperties
<1>8. c.tok # EOF => Ending(c, TRUE) = Ending(c, FALSE)
  BY DEF Ending
<1>9. c.tok # EOF => Later(c, TRUE) = Later(c, FALSE) /\ Coming(c, TRUE) = Coming(c, FALSE)
  BY <1>8 DEF Later, Coming
<1> QED
  BY <1>1, <1>3, <1>5, <1>6, <1>7, <1>8, <1>9
-----------------------------------------------------------------------------
(* -------- What a stack delivers -------- *)

(* A context on top of another: a word does not go on from it into the     *)
(* other, for the other does not go on with one, or a literal is between.  *)
Starts(d) == At(d, d.lptr) \notin WordChars
Closed(c) == IF c.i < c.n THEN c.mem[c.slot[c.n].off + 1] = NUL
             ELSE c.lptr = c.line /\ At(c, c.lptr) = NUL
Link(c, d) ==
  /\ IsUnget(c) \/ c.want
  /\ c.tok # EOI /\ d.tok # EOF /\ ~d.ungot
  /\ IsUnget(d) => d.i = 0
  /\ IsUnget(c) => Starts(d) \/ (c.n > 0 => Closed(c))
Linked(st) ==
  /\ st \in Seq(Context) /\ \A k \in 1..Len(st) : Neat(st[k])
  /\ \A k \in 1..Len(st) - 1 : Link(st[k], st[k + 1])
  /\ st # <<>> => ~IsUnget(st[Len(st)])

LEMMA LinkOn ==
  ASSUME NEW c \in Context, Neat(c), NEW st, Linked(st),
         st = <<>> => ~IsUnget(c), st # <<>> => Link(c, Head(st))
  PROVE  /\ Linked(<<c>> \o st) /\ Head(<<c>> \o st) = c /\ Tail(<<c>> \o st) = st
         /\ <<c>> \o st # <<>>
<1> DEFINE t == <<c>> \o st
<1>0. st \in Seq(Context) /\ Len(st) \in Nat /\ (st = <<>> <=> Len(st) = 0)
  <2>1. st \in Seq(Context)
    BY DEF Linked
  <2> QED
    BY <2>1, LenProperties, EmptySeq
<1>1. /\ t \in Seq(Context) /\ t # <<>> /\ Len(t) = Len(st) + 1 /\ t[1] = c
      /\ Head(t) = c /\ Tail(t) = st /\ \A i \in 1..Len(st) : t[i + 1] = st[i]
  BY <1>0, InFront
<1> HIDE DEF t
<1>2. \A k \in 1..Len(t) : k = 1 \/ (k - 1 \in 1..Len(st) /\ t[k] = st[k - 1])
  <2>1. \A k \in 1..Len(t) : k = 1 \/ (k - 1 \in 1..Len(st) /\ (k - 1) + 1 = k)
    BY <1>0, <1>1
  <2> QED
    BY <1>1, <2>1
<1>3. \A k \in 1..Len(t) : Neat(t[k])
  BY <1>1, <1>2 DEF Linked
<1>4. ASSUME NEW k \in 1..Len(t) - 1 PROVE Link(t[k], t[k + 1])
  <2>1. k \in 1..Len(t) /\ k \in 1..Len(st) /\ t[k + 1] = st[k]
    BY <1>0, <1>1
  <2>2. CASE k = 1
    <3>1. st # <<>> /\ st[1] = Head(st)
      <4>1. st # <<>>
        BY <1>0, <2>1
      <4> QED
        BY <1>0, <4>1, HeadAndTail
    <3> QED
      BY <1>1, <2>1, <2>2, <3>1
  <2>3. CASE k # 1
    <3>1. k - 1 \in 1..Len(st) - 1 /\ (k - 1) + 1 = k
      BY <1>0, <2>1, <2>3
    <3>2. Link(st[k - 1], st[(k - 1) + 1])
      BY <3>1 DEF Linked
    <3> QED
      BY <1>2, <2>1, <2>3, <3>1, <3>2
  <2> QED
    BY <2>2, <2>3
<1>5. ~IsUnget(t[Len(t)])
  <2>1. CASE st = <<>>
    BY <1>0, <1>1, <2>1
  <2>2. CASE st # <<>>
    <3>1. Len(st) \in 1..Len(st)
      BY <1>0, <2>2
    <3> QED
      BY <1>1, <2>2, <3>1 DEF Linked
  <2> QED
    BY <2>1, <2>2
<1>6. Linked(t)
  BY <1>1, <1>3, <1>4, <1>5 DEF Linked
<1> QED
  BY <1>1, <1>6 DEF t

LEMMA LinkOff ==
  ASSUME NEW st, Linked(st), st # <<>>
  PROVE  /\ Head(st) \in Context /\ Neat(Head(st)) /\ Linked(Tail(st)) /\ st = <<Head(st)>> \o Tail(st)
         /\ Tail(st) = <<>> => ~IsUnget(Head(st))
         /\ Tail(st) # <<>> => Link(Head(st), Head(Tail(st)))
         /\ Tail(st) = <<>> <=> Len(st) = 1
<1> DEFINE t == Tail(st)
<1>1. st \in Seq(Context)
  BY DEF Linked
<1>2. /\ Head(st) \in Context /\ t \in Seq(Context) /\ st = <<Head(st)>> \o t
      /\ Len(st) \in Nat \ {0} /\ Len(t) = Len(st) - 1 /\ st[1] = Head(st)
      /\ \A i \in 1..Len(t) : t[i] = st[i + 1]
  BY <1>1, HeadAndTail
<1>3. t = <<>> <=> Len(t) = 0
  BY <1>2, EmptySeq
<1> HIDE DEF t
<1>4. Neat(Head(st)) /\ \A k \in 1..Len(t) : Neat(t[k])
  <2>1. 1 \in 1..Len(st) /\ \A k \in 1..Len(t) : k + 1 \in 1..Len(st)
    BY <1>2
  <2> QED
    BY <1>2, <2>1 DEF Linked
<1>5. ASSUME NEW k \in 1..Len(t) - 1 PROVE Link(t[k], t[k + 1])
  <2>1. k \in 1..Len(t) /\ k + 1 \in 1..Len(t) /\ k + 1 \in 1..Len(st) - 1
    BY <1>2
  <2>2. Link(st[k + 1], st[(k + 1) + 1])
    BY <2>1 DEF Linked
  <2> QED
    BY <1>2, <2>1, <2>2
<1>6. t # <<>> => ~IsUnget(t[Len(t)]) /\ Link(Head(st), Head(t))
  <2>1. ASSUME t # <<>> PROVE ~IsUnget(t[Len(t)]) /\ Link(Head(st), Head(t))
    <3>1. Len(t) \in 1..Len(t) /\ Len(t) + 1 = Len(st) /\ 1 \in 1..Len(t) /\ 1 \in 1..Len(st) - 1
      BY <1>2, <1>3, <2>1
    <3>2. Link(st[1], st[1 + 1]) /\ ~IsUnget(st[Len(st)])
      BY <3>1 DEF Linked
    <3>3. t[1] = Head(t)
      BY <1>2, <2>1, HeadAndTail
    <3> QED
      BY <1>2, <3>1, <3>2, <3>3
  <2> QED
    BY <2>1
<1>7. t = <<>> => ~IsUnget(Head(st))
  <2>1. ~IsUnget(st[Len(st)])
    BY DEF Linked
  <2>2. t = <<>> => Len(st) = 1
    BY <1>2, <1>3
  <2> QED
    BY <1>2, <2>1, <2>2
<1>8. Linked(t)
  BY <1>2, <1>4, <1>5, <1>6 DEF Linked
<1> QED
  BY <1>2, <1>3, <1>4, <1>6, <1>7, <1>8 DEF t

(* What is to come from contexts that others lie on.                       *)
Under(st) == FlattenSeq([k \in DOMAIN st |-> Coming(st[k], FALSE)])

LEMMA UnderType ==
  ASSUME NEW st, Linked(st)
  PROVE  /\ [k \in DOMAIN st |-> Coming(st[k], FALSE)] \in Seq(Seq(Item))
         /\ Len([k \in DOMAIN st |-> Coming(st[k], FALSE)]) = Len(st)
         /\ Under(st) \in Seq(Item)
         /\ st = <<>> => Under(st) = <<>>
<1> DEFINE l == [k \in DOMAIN st |-> Coming(st[k], FALSE)]
<1>1. st \in Seq(Context) /\ Len(st) \in Nat /\ DOMAIN st = 1..Len(st)
  <2>1. st \in Seq(Context)
    BY DEF Linked
  <2> QED
    BY <2>1, LenProperties
<1>2. ASSUME NEW k \in 1..Len(st) PROVE Coming(st[k], FALSE) \in Seq(Item)
  <2>1. st[k] \in Context /\ Neat(st[k])
    BY <1>1, ElementOfSeq DEF Linked
  <2> QED
    BY <2>1, ComingIs
<1>3. l \in [1..Len(st) -> Seq(Item)]
  BY <1>1, <1>2
<1> HIDE DEF l
<1>4. l \in Seq(Seq(Item)) /\ Len(l) = Len(st)
  BY <1>1, <1>3
<1>5. Under(st) \in Seq(Item)
  BY <1>4, FlattenType DEF Under, l
<1>6. st = <<>> => l = <<>>
  <2>1. ASSUME st = <<>> PROVE l = <<>>
    <3>1. Len(l) = 0
      BY <1>4, <2>1, EmptySeq
    <3> QED
      BY <1>4, <3>1, EmptySeq
  <2> QED
    BY <2>1
<1>7. st = <<>> => Under(st) = <<>>
  BY <1>6, FlattenEmpty DEF Under, l
<1> QED
  BY <1>4, <1>5, <1>7 DEF l

LEMMA Stacked ==
  ASSUME NEW c \in Context, Neat(c), NEW st, Linked(st)
  PROVE  /\ ToCome(<<c>> \o st) = Coming(c, TRUE) \o Under(st)
         /\ Under(<<c>> \o st) = Coming(c, FALSE) \o Under(st)
         /\ Coming(c, TRUE) \in Seq(Item) /\ Coming(c, FALSE) \in Seq(Item) /\ Under(st) \in Seq(Item)
         /\ ToCome(<<c>> \o st) \in Seq(Item)
<1> DEFINE t == <<c>> \o st
           l == [k \in DOMAIN st |-> Coming(st[k], FALSE)]
           m == [k \in DOMAIN t |-> Coming(t[k], k = 1)]
           n == [k \in DOMAIN t |-> Coming(t[k], FALSE)]
<1>0. st \in Seq(Context) /\ Len(st) \in Nat /\ DOMAIN st = 1..Len(st)
  <2>1. st \in Seq(Context)
    BY DEF Linked
  <2> QED
    BY <2>1, LenProperties
<1>1. /\ t \in Seq(Context) /\ Len(t) = Len(st) + 1 /\ t[1] = c
      /\ \A i \in 1..Len(st) : t[i + 1] = st[i]
  BY <1>0, InFront
<1>2. DOMAIN t = 1..Len(st) + 1
  BY <1>0, <1>1, LenProperties
<1>3. l \in Seq(Seq(Item)) /\ Len(l) = Len(st) /\ \A i \in 1..Len(st) : l[i] = Coming(st[i], FALSE)
  BY <1>0, UnderType
<1>4. Coming(c, TRUE) \in Seq(Item) /\ Coming(c, FALSE) \in Seq(Item) /\ Under(st) \in Seq(Item)
  BY ComingIs, UnderType
<1>5. \A k \in 1..Len(st) + 1 : k = 1 \/ (k - 1 \in 1..Len(st) /\ t[k] = st[k - 1])
  <2>1. \A k \in 1..Len(st) + 1 : k = 1 \/ (k - 1 \in 1..Len(st) /\ (k - 1) + 1 = k)
    BY <1>0
  <2> QED
    BY <1>1, <2>1
<1>6. /\ m = [k \in 1..Len(st) + 1 |-> Coming(t[k], k = 1)]
      /\ n = [k \in 1..Len(st) + 1 |-> Coming(t[k], FALSE)]
  BY <1>2
<1>7. \A k \in 1..Len(st) + 1 : m[k] = Coming(t[k], k = 1) /\ n[k] = Coming(t[k], FALSE)
  BY <1>6
<1> HIDE DEF l, m, n, t
<1>8. m[1] = Coming(c, TRUE) /\ n[1] = Coming(c, FALSE)
  <2>1. 1 \in 1..Len(st) + 1 /\ (1 = 1) = TRUE
    BY <1>0
  <2> QED
    BY <1>1, <1>7, <2>1
<1>9. ASSUME NEW k \in 1..Len(st) + 1, k # 1 PROVE m[k] = l[k - 1] /\ n[k] = l[k - 1] /\ k - 1 \in 1..Len(st)
  <2>1. k - 1 \in 1..Len(st) /\ t[k] = st[k - 1]
    BY <1>5, <1>9
  <2>2. (k = 1) = FALSE
    BY <1>9
  <2>3. m[k] = Coming(t[k], FALSE)
    <3>1. m[k] = Coming(t[k], k = 1)
      BY <1>7
    <3> QED
      BY <2>2, <3>1, Zenon
  <2>4. n[k] = Coming(t[k], FALSE)
    BY <1>7
  <2>5. l[k - 1] = Coming(st[k - 1], FALSE)
    BY <1>3, <2>1
  <2> QED
    BY <2>1, <2>3, <2>4, <2>5
<1>10. ASSUME NEW h \in Seq(Item), NEW x, x = [k \in 1..Len(st) + 1 |-> x[k]], x[1] = h,
              \A k \in 1..Len(st) + 1 : k # 1 => x[k] = l[k - 1]
       PROVE  x = <<h>> \o l /\ FlattenSeq(x) = h \o FlattenSeq(l)
  <2>1. /\ <<h>> \o l \in Seq(Seq(Item)) /\ Len(<<h>> \o l) = Len(l) + 1 /\ (<<h>> \o l)[1] = h
        /\ \A i \in 1..Len(l) : (<<h>> \o l)[i + 1] = l[i]
    BY <1>3, InFront
  <2>2. ASSUME NEW k \in 1..Len(st) + 1 PROVE x[k] = (<<h>> \o l)[k]
    <3>1. CASE k = 1
      BY <3>1, <1>10, <2>1
    <3>2. CASE k # 1
      <4>1. k - 1 \in 1..Len(l) /\ (k - 1) + 1 = k
        BY <3>2, <1>0, <1>3
      <4> QED
        BY <3>2, <4>1, <1>10, <2>1
    <3> QED
      BY <3>1, <3>2
  <2>3. \A k \in 1..Len(st) + 1 : (<<h>> \o l)[k] \in Seq(Item)
    BY <1>3, <2>1, ElementOfSeq
  <2>4. x \in [1..Len(st) + 1 -> Seq(Item)]
    BY <1>10, <2>2, <2>3
  <2>5. x \in Seq(Seq(Item)) /\ Len(x) = Len(<<h>> \o l)
    BY <1>0, <1>3, <2>1, <2>4
  <2>6. Len(x) = Len(st) + 1
    BY <1>3, <2>1, <2>5
  <2>7. x = <<h>> \o l
    BY <2>1, <2>2, <2>5, <2>6, SeqEqual
  <2> QED
    BY <1>3, <2>7, FlattenCons
<1>11. m = [k \in 1..Len(st) + 1 |-> m[k]] /\ n = [k \in 1..Len(st) + 1 |-> n[k]]
  BY <1>6
<1>12. FlattenSeq(m) = Coming(c, TRUE) \o FlattenSeq(l)
  BY <1>4, <1>8, <1>9, <1>10, <1>11
<1>13. FlattenSeq(n) = Coming(c, FALSE) \o FlattenSeq(l)
  BY <1>4, <1>8, <1>9, <1>10, <1>11
<1>14. ToCome(t) = FlattenSeq(m) /\ Under(t) = FlattenSeq(n) /\ Under(st) = FlattenSeq(l)
  BY DEF ToCome, Under, m, n, l
<1>15. ToCome(t) \in Seq(Item)
  BY <1>4, <1>12, <1>14, ConcatProperties
<1> QED
  BY <1>4, <1>12, <1>13, <1>14, <1>15 DEF t

(* What comes from a stack comes from its top, then from below.            *)
LEMMA FromTop ==
  ASSUME NEW st, Linked(st), st # <<>>
  PROVE  /\ ToCome(st) = Coming(Head(st), TRUE) \o Under(Tail(st)) /\ ToCome(st) \in Seq(Item)
         /\ Under(st) = Coming(Head(st), FALSE) \o Under(Tail(st))
         /\ Head(st).tok # EOF => ToCome(st) = Under(st)
<1>1. Head(st) \in Context /\ Neat(Head(st)) /\ Linked(Tail(st)) /\ st = <<Head(st)>> \o Tail(st)
  BY LinkOff
<1>2. PICK c \in Context, t \in Seq(Context) : c = Head(st) /\ t = Tail(st)
  BY <1>1 DEF Linked
<1>3. /\ ToCome(<<c>> \o t) = Coming(c, TRUE) \o Under(t) /\ ToCome(<<c>> \o t) \in Seq(Item)
      /\ Under(<<c>> \o t) = Coming(c, FALSE) \o Under(t)
  BY <1>1, <1>2, Stacked
<1>4. c.tok # EOF => Coming(c, TRUE) = Coming(c, FALSE)
  BY <1>1, <1>2, ComingIs
<1> QED
  BY <1>1, <1>2, <1>3, <1>4

(* No word begins there.                                                   *)
Bounded(s) == s # <<>> => s[1] \notin WordChars

LEMMA BoundFirst ==
  ASSUME NEW s \in Seq(Item), NEW t \in Seq(Item), Bounded(s), s = <<>> => Bounded(t)
  PROVE  Bounded(s \o t)
<1>1. CASE s = <<>>
  BY <1>1, ConcatEmptySeq
<1>2. CASE s # <<>>
  <2>1. Len(s) \in Nat \ {0} /\ Len(t) \in Nat
    BY <1>2, EmptySeq, LenProperties
  <2>2. 1 \in 1..Len(s) + Len(t) /\ 1 <= Len(s)
    BY <2>1
  <2>3. (s \o t)[1] = s[1]
    BY <2>2, ConcatProperties
  <2> QED
    BY <1>2, <2>3 DEF Bounded
<1> QED
  BY <1>1, <1>2

(* The segments after the one at hand begin with a literal.                *)
LEMMA SegsLong ==
  ASSUME NEW c \in Context, Sound(c), c.i < c.n
  PROVE  Segs(c) # <<>> /\ Bounded(Segs(c))
<1>1. c.i \in c.i..c.n - 1 /\ c.i \in Nat /\ c.n \in Nat
  BY Fields
<1>2. c.slot[c.i].q \in Literals /\ Behind(c, c.i) \in Seq(Item) /\ Behind(c, c.i) # <<>>
      /\ Behind(c, c.i)[1] = c.slot[c.i].q
  BY <1>1, BehindIs
<1> DEFINE l == SegList(c)
<1>3. l \in Seq(Seq(Item)) /\ Len(l) = c.n - c.i /\ l[1] = Behind(c, c.i) /\ l # <<>>
  <2>1. /\ l \in Seq(Seq(Item)) /\ Len(l) = c.n - c.i
        /\ \A k \in 1..c.n - c.i : l[k] = Behind(c, c.i + k - 1)
    BY SegListIs
  <2>2. 1 \in 1..c.n - c.i /\ c.i + 1 - 1 = c.i /\ c.n - c.i # 0
    BY <1>1
  <2> HIDE DEF l
  <2> QED
    BY <2>1, <2>2, EmptySeq
<1>4. Segs(c) = FlattenSeq(l)
  BY DEF Segs, SegList
<1> HIDE DEF l
<1>5. Head(l) = l[1] /\ Tail(l) \in Seq(Seq(Item)) /\ l = <<Head(l)>> \o Tail(l)
  BY <1>3, HeadAndTail
<1>6. PICK h \in Seq(Item), t \in Seq(Seq(Item)) : h = Head(l) /\ t = Tail(l) /\ h = Behind(c, c.i)
  BY <1>2, <1>3, <1>5
<1>7. FlattenSeq(<<h>> \o t) = h \o FlattenSeq(t) /\ FlattenSeq(t) \in Seq(Item)
  BY FlattenCons, FlattenType
<1>8. Segs(c) = h \o FlattenSeq(t)
  BY <1>4, <1>5, <1>6, <1>7
<1>9. h # <<>> /\ h[1] \notin WordChars
  BY <1>2, <1>6, PushBackConstants
<1>10. Bounded(h \o FlattenSeq(t))
  BY <1>7, <1>9, BoundFirst DEF Bounded
<1>11. h \o FlattenSeq(t) # <<>>
  BY <1>7, <1>9, ConcatEqualIffEmpty
<1> QED
  BY <1>8, <1>10, <1>11

LEMMA Boundary ==
  ASSUME NEW st, Linked(st), st # <<>> => Starts(Head(st)) /\ (IsUnget(Head(st)) => Head(st).i = 0)
  PROVE  Bounded(Under(st))
<1>1. CASE st = <<>>
  BY <1>1, UnderType DEF Bounded
<1>2. CASE st # <<>>
  <2>1. Linked(Tail(st)) /\ Under(st) = Coming(Head(st), FALSE) \o Under(Tail(st)) /\ Under(Tail(st)) \in Seq(Item)
    BY <1>2, LinkOff, FromTop, UnderType
  <2>2. PICK c \in Context : c = Head(st) /\ Neat(c)
    BY <1>2, LinkOff
  <2> DEFINE e == Ending(c, FALSE)
  <2>3. /\ TextAt(c, c.lptr) \in Seq(Item) /\ Segs(c) \in Seq(Item)
        /\ Drained(c) \in Seq(Item) /\ e \in Seq(Item)
        /\ Later(c, FALSE) \in Seq(Item) /\ Coming(c, FALSE) = TextAt(c, c.lptr) \o Later(c, FALSE)
        /\ Coming(c, FALSE) \in Seq(Item)
    BY <2>2, ComingIs
  <2>4. Bounded(TextAt(c, c.lptr))
    <3>1. ASSUME TextAt(c, c.lptr) # <<>> PROVE TextAt(c, c.lptr)[1] \notin WordChars
      <4>1. Len(TextAt(c, c.lptr)) = c.lend - c.lptr /\ c.lend \in Nat /\ c.lptr \in Nat /\ (c.lptr = 0 => c.lend = 0)
            /\ \A i \in 1..c.lend - c.lptr : TextAt(c, c.lptr)[i] = c.mem[c.lptr + i - 1]
            /\ At(c, c.lptr) # NUL
        BY <2>2, <3>1, LineIs
      <4>2. Len(TextAt(c, c.lptr)) \in Nat \ {0}
        BY <2>3, <3>1, EmptySeq
      <4>3. 1 \in 1..c.lend - c.lptr /\ c.lptr + 1 - 1 = c.lptr /\ c.lptr # 0
        BY <4>1, <4>2
      <4>4. TextAt(c, c.lptr)[1] = At(c, c.lptr)
        BY <4>1, <4>3 DEF At
      <4> QED
        BY <1>2, <2>2, <4>4 DEF Starts
    <3> QED
      BY <3>1 DEF Bounded
  <2>5. Bounded(Segs(c))
    <3>1. CASE c.i < c.n
      BY <2>2, <3>1, SegsLong DEF Neat
    <3>2. CASE ~(c.i < c.n)
      BY <3>2 DEF Segs, Bounded
    <3> QED
      BY <3>1, <3>2
  <2>6. Bounded(Drained(c)) /\ Bounded(e)
    <3>1. <<SP>>[1] = SP /\ SP \notin WordChars /\ EOF[1] \notin WordChars
      BY Items, PushBackConstants
    <3> QED
      BY <3>1 DEF Bounded, Drained, Ending
  <2>7. CASE Tail(st) = <<>>
    <3>1. Bounded(Under(Tail(st)))
      BY <2>1, <2>7, UnderType DEF Bounded
    <3>2. Bounded(Drained(c) \o e) /\ Drained(c) \o e \in Seq(Item)
      BY <2>3, <2>6, BoundFirst, ConcatProperties
    <3>3. Bounded(Later(c, FALSE))
      BY <2>3, <2>5, <3>2, BoundFirst DEF Later
    <3>4. Bounded(Coming(c, FALSE))
      BY <2>3, <2>4, <3>3, BoundFirst
    <3> QED
      BY <2>1, <2>2, <2>3, <3>1, <3>4, BoundFirst
  <2>8. CASE Tail(st) # <<>>
    <3>1. IsUnget(c) \/ c.want
      BY <1>2, <2>2, <2>8, LinkOff DEF Link
    <3>2. Bounded(Drained(c) \o e) /\ Drained(c) \o e \in Seq(Item)
      BY <2>3, <2>6, BoundFirst, ConcatProperties
    <3>3. Bounded(Later(c, FALSE))
      BY <2>3, <2>5, <3>2, BoundFirst DEF Later
    <3>4. Bounded(Coming(c, FALSE))
      BY <2>3, <2>4, <3>3, BoundFirst
    <3>5. Coming(c, FALSE) # <<>>
      <4>1. Segs(c) # <<>> \/ Drained(c) # <<>> \/ e # <<>>
        <5>1. CASE c.want
          <6>1. e = EOF
            BY <5>1 DEF Ending
          <6>2. EOF # <<>>
            BY TokensDiffer
          <6> QED
            BY <6>1, <6>2
        <5>2. CASE IsUnget(c) /\ c.n = 0
          BY <5>2 DEF Drained
        <5>3. CASE IsUnget(c) /\ c.n # 0
          <6>1. c.i < c.n
            <7>1. c.i = 0 /\ c.n \in Nat
              BY <1>2, <2>2, <5>3, Fields
            <7> QED
              BY <5>3, <7>1
          <6>2. c.i \in c.i..c.n - 1
            BY <2>2, <6>1, Fields
          <6>3. c.i + 1 \in 1..SegMax /\ c.n \in 0..SegMax
            BY <2>2, <6>1, Fields
          <6> QED
            BY <2>2, <6>1, SegsLong DEF Neat
        <5> QED
          BY <3>1, <5>1, <5>2, <5>3
      <4>2. \A s, t \in Seq(Item) : s \o t = <<>> => s = <<>> /\ t = <<>>
        BY ConcatEqualIffEmpty
      <4>3. Later(c, FALSE) # <<>>
        BY <2>3, <3>2, <4>1, <4>2 DEF Later
      <4> QED
        BY <2>3, <4>2, <4>3
    <3> QED
      BY <2>1, <2>2, <2>3, <3>4, <3>5, BoundFirst
  <2> QED
    BY <2>7, <2>8
<1> QED
  BY <1>1, <1>2
-----------------------------------------------------------------------------
(* -------- Changes to one context -------- *)

(* Contexts with the same buffer have the same text.                       *)
LEMMA TextSame ==
  ASSUME NEW c \in Context, NEW d \in Context, d.mem = c.mem
  PROVE  \A p : TextAt(d, p) = TextAt(c, p) /\ At(d, p) = At(c, p)
<1>1. \A p : EndOfText(d, p) = EndOfText(c, p)
  BY DEF EndOfText
<1> QED
  BY <1>1 DEF TextAt, At

LEMMA SegsKept ==
  ASSUME NEW c \in Context, NEW d \in Context, d.mem = c.mem, d.slot = c.slot, d.i = c.i, d.n = c.n,
         d.kind = c.kind
  PROVE  Segs(d) = Segs(c) /\ Drained(d) = Drained(c)
<1>1. \A k : Behind(d, k) = Behind(c, k)
  BY TextSame DEF Behind
<1>2. Segs(d) = Segs(c)
  BY <1>1, SegsSame
<1> QED
  BY <1>2 DEF Drained, IsUnget

(* Moving on within the text: what is passed over is gone.                 *)
LEMMA MoveNeat ==
  ASSUME NEW c \in Context, Neat(c), NEW p \in Nat, c.lptr <= p, p <= c.lend
  PROVE  LET d == [c EXCEPT !.lptr = p]
             s == SubSeq(c.mem, c.lptr, p - 1)
         IN /\ d \in Context /\ Neat(d) /\ s \in Seq(Chars) /\ s \in Seq(Item) /\ Len(s) = p - c.lptr
            /\ \A i \in 1..p - c.lptr : s[i] = c.mem[c.lptr + i - 1]
            /\ TextAt(c, c.lptr) = s \o TextAt(d, d.lptr)
            /\ \A top \in BOOLEAN : Later(d, top) = Later(c, top) /\ Coming(c, top) = s \o Coming(d, top)
<1> DEFINE d == [c EXCEPT !.lptr = p]
           s == SubSeq(c.mem, c.lptr, p - 1)
           t == TextAt(c, c.lptr)
           u == TextAt(d, d.lptr)
<1>1. /\ c.lptr \in Nat /\ c.lend \in Nat /\ c.line \in Nat /\ c.line <= c.lptr /\ Len(c.mem) \in Nat /\ c.lend <= Len(c.mem)
      /\ t \in Seq(Item) /\ t \in Seq(Chars) /\ Len(t) = c.lend - c.lptr
      /\ \A i \in 1..c.lend - c.lptr : t[i] = c.mem[c.lptr + i - 1]
      /\ At(c, c.lptr) = NUL <=> c.lptr = c.lend
      /\ c.lptr = 0 => c.lend = 0
  BY LineIs
<1>2. c.line <= p
  BY <1>1
<1>3. d \in Context /\ Sound(d)
  BY <1>2, MoveKeeps DEF Neat
<1>4. /\ d.lptr = p /\ d.line = c.line /\ d.lend = c.lend /\ d.mem = c.mem /\ d.zlen = c.zlen
      /\ d.slot = c.slot /\ d.i = c.i /\ d.n = c.n /\ d.tok = c.tok /\ d.want = c.want /\ d.kind = c.kind
  BY DEF Context
<1> HIDE DEF d, t, u
<1>5. Shaped(d)
  <2>1. Shaped(c)
    BY DEF Neat
  <2>2. \A q \in p..c.lend - 1 : q \in c.lptr..c.lend - 1
    BY <1>1
  <2>3. c.tok \in {EOF, EOI} => Spent(d)
    <3>1. ASSUME c.tok \in {EOF, EOI} PROVE Spent(d)
      <4>1. Spent(c)
        BY <2>1, <3>1 DEF Shaped
      <4>2. p = c.lptr
        BY <1>1, <4>1 DEF Spent
      <4> QED
        BY <1>4, <4>1, <4>2 DEF Spent, IsUnget, At
    <3> QED
      BY <3>1
  <2>4. IsUnget(d) => Buffer(d)
    BY <1>4, <2>1 DEF Shaped, Buffer, IsUnget, EndsBy
  <2> QED
    BY <1>4, <2>1, <2>2, <2>3, <2>4 DEF Shaped
<1>6. Neat(d)
  BY <1>3, <1>5 DEF Neat
<1>7. u \in Seq(Item) /\ Len(u) = c.lend - p /\ \A i \in 1..c.lend - p : u[i] = c.mem[p + i - 1]
  BY SMTT(30), <1>3, <1>4, <1>6, LineIs DEF u
<1>8. s \in Seq(Chars) /\ Len(s) = p - c.lptr /\ \A i \in 1..p - c.lptr : s[i] = c.mem[c.lptr + i - 1]
  <2>1. ASSUME NEW i \in c.lptr..p - 1 PROVE c.mem[i] \in Chars
    <3>1. i - c.lptr + 1 \in 1..c.lend - c.lptr /\ c.lptr + (i - c.lptr + 1) - 1 = i
      BY SMTT(30), <1>1
    <3>2. i - c.lptr + 1 \in 1..Len(t)
      BY <1>1, <3>1
    <3>3. t[i - c.lptr + 1] \in Chars
      BY <1>1, <3>2, ElementOfSeq
    <3> QED
      BY <1>1, <3>1, <3>3
  <2>2. c.lptr \in Int /\ p - 1 \in Int
    BY <1>1
  <2>3. /\ s \in Seq(Chars) /\ Len(s) = IF c.lptr <= p - 1 THEN p - 1 - c.lptr + 1 ELSE 0
        /\ \A i \in 1..p - 1 - c.lptr + 1 : s[i] = c.mem[c.lptr + i - 1]
    BY <2>1, <2>2, SubSeqProperties
  <2>4. p - 1 - c.lptr + 1 = p - c.lptr /\ (c.lptr <= p - 1 \/ p - c.lptr = 0)
    <3>1. PICK l \in Nat : l = c.lptr /\ l <= p
      BY <1>1
    <3> QED
      BY <3>1
  <2> HIDE DEF s
  <2>5. Len(s) = p - c.lptr
    BY <2>3, <2>4
  <2> QED
    BY <2>3, <2>4, <2>5
<1> HIDE DEF s
<1>9. s \in Seq(Item)
  BY <1>8, CharsAre, SeqMonotonic
<1>10. t = s \o u
  <2>1. /\ s \o u \in Seq(Item) /\ Len(s \o u) = Len(s) + Len(u)
        /\ \A i \in 1..Len(s) + Len(u) : (s \o u)[i] = IF i <= Len(s) THEN s[i] ELSE u[i - Len(s)]
    BY <1>7, <1>9, ConcatProperties
  <2>2. Len(s) + Len(u) = c.lend - c.lptr
    BY <1>1, <1>7, <1>8
  <2>3. ASSUME NEW i \in 1..Len(t) PROVE t[i] = (s \o u)[i]
    <3>1. i \in 1..c.lend - c.lptr
      BY <1>1
    <3>2. CASE i <= p - c.lptr
      <4>1. i \in 1..p - c.lptr
        BY <1>1, <3>2
      <4> QED
        BY <1>1, <1>8, <2>1, <2>2, <3>1, <3>2, <4>1
    <3>3. CASE ~(i <= p - c.lptr)
      <4>1. i - (p - c.lptr) \in 1..c.lend - p /\ p + (i - (p - c.lptr)) - 1 = c.lptr + i - 1
        BY SMTT(30), <1>1, <3>1, <3>3
      <4>2. (s \o u)[i] = u[i - (p - c.lptr)]
        BY <1>8, <2>1, <2>2, <3>1, <3>3
      <4> QED
        BY <1>1, <1>7, <3>1, <4>1, <4>2
    <3> QED
      BY <3>2, <3>3
  <2> QED
    BY SMTT(30), <1>1, <2>1, <2>2, <2>3, SeqEqual
<1>11. ASSUME NEW top \in BOOLEAN PROVE Later(d, top) = Later(c, top) /\ Coming(c, top) = s \o Coming(d, top)
  <2>1. Segs(d) = Segs(c) /\ Drained(d) = Drained(c) /\ Ending(d, top) = Ending(c, top)
    BY <1>3, <1>4, SegsKept DEF Ending
  <2>2. Later(d, top) = Later(c, top)
    BY <2>1 DEF Later
  <2>3. Coming(c, top) = t \o Later(c, top) /\ Coming(d, top) = u \o Later(d, top) /\ Later(d, top) \in Seq(Item)
    BY <1>3, <1>6, ComingIs DEF t, u
  <2>4. PICK l \in Seq(Item) : l = Later(d, top)
    BY <2>3
  <2>5. (s \o u) \o l = s \o (u \o l)
    BY SMTT(30), <1>7, <1>9, ItemsAssociate
  <2> QED
    BY <1>10, <2>2, <2>3, <2>4, <2>5
<1> QED
  BY <1>3, <1>6, <1>8, <1>9, <1>10, <1>11 DEF d, s, t, u

(* The segments that are read later are below the line at hand: they stay  *)
(* when the memory does up to the line.                                    *)
LEMMA LowStays ==
  ASSUME NEW c \in Context, Neat(c), IsUnget(c), NEW d \in Context,
         \A k \in c.i..c.n : d.slot[k] = c.slot[k],
         c.line <= Len(d.mem), \A p \in 1..c.line : d.mem[p] = c.mem[p]
  PROVE  /\ \A k \in c.i..c.n - 1 : Behind(d, k) = Behind(c, k)
         /\ \A j, k \in c.i..c.n : j < k => EndsBy(d, k, d.slot[j].off + 1)
<1>0. /\ c.i \in Nat /\ c.n \in Nat /\ c.n <= SegMax /\ SegMax \in Nat /\ Len(c.mem) \in Nat /\ Len(d.mem) \in Nat
      /\ c.line \in Nat /\ \A k \in 0..SegMax : c.slot[k].off \in Nat
  <2>1. /\ c.n \in 0..SegMax /\ SegMax \in Nat /\ c.i \in Nat /\ c.n \in Nat /\ Len(c.mem) \in Nat
        /\ c.line \in Nat /\ \A k \in 0..SegMax : c.slot[k].off \in Nat
    BY Fields
  <2>2. Len(d.mem) \in Nat
    BY Fields
  <2> QED
    BY <2>1, <2>2
<1>1. Buffer(c) /\ c.line <= Len(c.mem)
  BY LineIs DEF Neat, Shaped
<1>2. ASSUME NEW j \in c.i..c.n, NEW k \in c.i..c.n, j < k
      PROVE  \E e \in Nat : /\ c.slot[k].off + 1 <= e /\ e <= c.slot[j].off + 1 /\ e <= c.line
                            /\ c.mem[e] = NUL /\ d.mem[e] = NUL
  <2>1. c.n > 0 /\ j \in 0..SegMax /\ k \in 0..SegMax /\ c.i \in c.i..c.n /\ c.i \in 0..SegMax
    BY <1>0, <1>2
  <2>2. PICK e \in Nat : c.slot[k].off + 1 <= e /\ e <= c.slot[j].off + 1 /\ c.mem[e] = NUL
    BY <1>1, <1>2 DEF Buffer, EndsBy
  <2>3. c.slot[j].off + 1 <= c.line
    <3>1. CASE j = c.i
      BY <1>0, <1>1, <2>1, <3>1 DEF Buffer
    <3>2. CASE j # c.i
      <4>1. c.i < j
        BY <1>0, <3>2
      <4>2. PICK f \in Nat : c.slot[j].off + 1 <= f /\ f <= c.slot[c.i].off + 1
        BY <1>1, <2>1, <4>1 DEF Buffer, EndsBy
      <4>3. PICK o \in Nat, l \in Nat : o = c.slot[j].off /\ l = c.line
        BY <1>0, <2>1
      <4>4. c.line = c.slot[c.i].off + 1
        BY <1>1, <2>1 DEF Buffer
      <4> QED
        BY <4>2, <4>3, <4>4
    <3> QED
      BY <3>1, <3>2
  <2>4. PICK o \in Nat, u \in Nat, l \in Nat : o = c.slot[j].off /\ u = c.slot[k].off /\ l = c.line
    BY <1>0, <2>1
  <2>5. e <= l /\ 1 <= e
    BY SMTT(30), <2>2, <2>3, <2>4
  <2>6. e \in 1..c.line
    BY <2>4, <2>5
  <2> QED
    BY <2>2, <2>4, <2>5, <2>6
<1>3. ASSUME NEW k \in c.i..c.n - 1 PROVE Behind(d, k) = Behind(c, k)
  <2>1. k \in c.i..c.n /\ k + 1 \in c.i..c.n /\ k < k + 1 /\ k + 1 \in 0..SegMax
    BY <1>0
  <2>2. PICK e \in Nat : c.slot[k + 1].off + 1 <= e /\ e <= c.line /\ c.mem[e] = NUL
    BY <1>2, <2>1
  <2>3. PICK p \in Nat : p = c.slot[k + 1].off + 1 /\ p > 0
    BY <1>0, <2>1
  <2>4. e <= Len(c.mem) /\ e <= Len(d.mem)
    BY SMTT(30), <1>0, <1>1, <2>2
  <2>5. \A i \in p..e : i \in 1..c.line
    BY <1>0, <2>2, <2>3
  <2>6. TextAt(d, p) = TextAt(c, p)
    <3>1. p <= e /\ \A i \in p..e : d.mem[i] = c.mem[i]
      BY <2>2, <2>3, <2>5
    <3> QED
      BY <2>2, <2>3, <2>4, <3>1, TextStays
  <2>7. d.slot[k] = c.slot[k] /\ d.slot[k + 1] = c.slot[k + 1]
    BY <2>1
  <2> QED
    BY <2>3, <2>6, <2>7 DEF Behind
<1>4. ASSUME NEW j \in c.i..c.n, NEW k \in c.i..c.n, j < k PROVE EndsBy(d, k, d.slot[j].off + 1)
  BY <1>2, <1>4 DEF EndsBy
<1> QED
  BY <1>3, <1>4

(* Text put into the gap comes before what was to come.                    *)
LEMMA FitNeat ==
  ASSUME NEW c \in Context, Neat(c), IsUnget(c), NEW txt \in Seq(Chars), txt # <<>>,
         c.line + Len(txt) <= c.lptr, c.line + Len(txt) < c.lptr \/ c.i >= c.n
  PROVE  LET d == [c EXCEPT !.lptr = c.lptr - Len(txt)]
             f == [d EXCEPT !.mem = Written(@, d.lptr, txt)]
         IN /\ f \in Context /\ Neat(f) /\ \A top \in BOOLEAN : Coming(f, top) = txt \o Coming(c, top)
            /\ f.kind = c.kind /\ f.tok = c.tok /\ f.ungot = c.ungot /\ f.want = c.want /\ f.i = c.i /\ f.n = c.n
            /\ c.n > 0 /\ Closed(c) => Closed(f)
<1> DEFINE p == c.lptr - Len(txt)
           d == [c EXCEPT !.lptr = p]
           w == Written(c.mem, p, txt)
           f == [d EXCEPT !.mem = Written(@, d.lptr, txt)]
<1>0. /\ c.lptr \in Nat /\ c.line \in Nat /\ c.lend \in Nat /\ c.line <= c.lptr /\ c.lptr <= c.lend
      /\ c.lend <= Len(c.mem) /\ Len(c.mem) \in Nat /\ c.mem \in Seq(Item)
      /\ c.i \in Nat /\ c.n \in Nat
  BY LineIs, Fields
<1>1. txt \in Seq(Item) /\ Len(txt) \in Nat /\ Len(txt) > 0
  <2>1. Len(txt) \in Nat \ {0}
    BY EmptySeq
  <2> QED
    BY <2>1, CharsAre, SeqMonotonic
<1>2. p \in Nat /\ c.line <= p /\ p <= c.lend /\ p + Len(txt) = c.lptr /\ p < c.lptr
  BY SMTT(30), <1>0, <1>1
<1> HIDE DEF p
<1>3. d \in Context /\ Sound(d) /\ d.lptr = p /\ d.lend = c.lend /\ d.mem = c.mem
  BY <1>2, MoveKeeps DEF Context, Neat
<1>4. f \in Context /\ Sound(f)
  <2>1. d.lptr + Len(txt) <= d.lend
    BY <1>0, <1>2, <1>3
  <2> HIDE DEF d
  <2> QED
    BY <1>1, <1>3, <2>1, PutKeeps
<1>5. /\ f.lptr = p /\ f.line = c.line /\ f.lend = c.lend /\ f.mem = w /\ f.zlen = c.zlen
      /\ f.slot = c.slot /\ f.i = c.i /\ f.n = c.n /\ f.tok = c.tok /\ f.want = c.want /\ f.kind = c.kind
      /\ f.ungot = c.ungot
  BY DEF Context
<1> HIDE DEF d, f
<1>6. /\ w \in Seq(Item) /\ Len(w) = Len(c.mem)
      /\ \A i \in 1..Len(c.mem) : i < p \/ c.lptr <= i => w[i] = c.mem[i]
      /\ \A i \in 1..Len(c.mem) : i \in p..c.lptr - 1 => w[i] = txt[i - p + 1]
  <2>1. w = Written(c.mem, p, txt) /\ p + Len(txt) = c.lptr
    BY <1>2
  <2>2. PICK m \in Seq(Item), l \in Nat : m = c.mem /\ l = p + Len(txt) /\ l = c.lptr
    BY <1>0, <2>1
  <2>3. w = Written(m, p, txt)
    BY <2>1, <2>2
  <2> HIDE DEF w
  <2>4. /\ w \in Seq(Item) /\ Len(w) = Len(m)
        /\ \A i \in 1..Len(m) : i < p \/ p + Len(txt) <= i => w[i] = m[i]
        /\ \A i \in 1..Len(m) : i \in p..p + Len(txt) - 1 => w[i] = txt[i - p + 1]
    BY Zenon, <1>1, <1>2, <2>3, WrittenIs
  <2>5. /\ \A i \in 1..Len(m) : i < p \/ l <= i => w[i] = m[i]
        /\ \A i \in 1..Len(m) : i \in p..l - 1 => w[i] = txt[i - p + 1]
    <3>1. l = p + Len(txt) /\ l - 1 = p + Len(txt) - 1
      BY <1>1, <1>2, <2>2
    <3> QED
      BY <2>4, <3>1, Zenon
  <2> QED
    BY <2>2, <2>4, <2>5
<1> HIDE DEF w
<1>7. /\ c.mem \in Seq(Chars \cup {NUL}) /\ c.tok \in Tokens /\ c.tok \notin {EOF, EOI} /\ Buffer(c)
      /\ \A i \in c.lptr..c.lend - 1 : c.mem[i] # NUL
  BY DEF Neat, Shaped, Spent
<1>8. ASSUME NEW i \in 1..Len(c.mem), i \in p..c.lptr - 1 PROVE w[i] \in Chars /\ i - p + 1 \in 1..Len(txt)
  <2>1. i - p + 1 \in 1..Len(txt)
    BY <1>0, <1>1, <1>2, <1>8
  <2> QED
    BY <1>6, <1>8, <2>1, ElementOfSeq
<1>9. \A i \in 1..Len(c.mem) : i < p \/ c.lptr <= i \/ i \in p..c.lptr - 1
  BY <1>0, <1>2
<1>10. w \in Seq(Chars \cup {NUL})
  <2>1. ASSUME NEW i \in 1..Len(c.mem) PROVE w[i] \in Chars \cup {NUL}
    <3>1. c.mem[i] \in Chars \cup {NUL}
      BY <1>7
    <3> QED
      BY <1>6, <1>8, <1>9, <3>1
  <2>2. w \in [1..Len(c.mem) -> Item]
    BY <1>6, LenProperties
  <2>3. w \in [1..Len(c.mem) -> Chars \cup {NUL}]
    BY <2>1, <2>2
  <2>4. Len(c.mem) \in Nat
    BY <1>0
  <2> QED
    BY <2>3, <2>4, SeqIs
<1>11. ASSUME NEW i \in p..c.lend - 1 PROVE w[i] # NUL
  <2>1. i \in 1..Len(c.mem) /\ (i \in p..c.lptr - 1 \/ i \in c.lptr..c.lend - 1)
    <3>1. i \in p..c.lptr - 1 \/ i \in c.lptr..c.lend - 1
      BY <1>0, <1>2
    <3>2. i # 0
      <4>1. SUFFICES ASSUME i = 0 PROVE FALSE
        OBVIOUS
      <4>2. p = 0 /\ c.line = 0
        BY <1>0, <1>2, <4>1
      <4>3. c.lend = 0
        BY <4>2 DEF Neat, Sound, Places
      <4> QED
        BY <1>0, <1>2, <4>2, <4>3
    <3> QED
      BY <1>0, <1>2, <3>1, <3>2
  <2>2. i \in c.lptr..c.lend - 1 => c.lptr <= i
    BY <1>0
  <2> QED
    BY <1>6, <1>7, <1>8, <2>1, <2>2, CharsAre
<1>12. c.i < c.n => /\ \A k \in c.i..c.n - 1 : Behind(f, k) = Behind(c, k)
                    /\ \A j, k \in c.i..c.n : j < k => EndsBy(f, k, f.slot[j].off + 1)
                    /\ \A i \in 1..c.line : w[i] = c.mem[i]
  <2>1. ASSUME c.i < c.n
        PROVE  /\ \A k \in c.i..c.n - 1 : Behind(f, k) = Behind(c, k)
               /\ \A j, k \in c.i..c.n : j < k => EndsBy(f, k, f.slot[j].off + 1)
               /\ \A i \in 1..c.line : w[i] = c.mem[i]
    <3>1. c.line < p
      BY <1>0, <1>1, <1>2, <2>1
    <3>2. \A i \in 1..c.line : i \in 1..Len(c.mem) /\ i < p
      BY <1>0, <1>2, <3>1
    <3>3. \A i \in 1..c.line : w[i] = c.mem[i]
      BY <1>6, <3>2
    <3>4. c.line <= Len(f.mem)
      BY <1>0, <1>5, <1>6
    <3> QED
      BY <1>4, <1>5, <3>3, <3>4, LowStays
  <2> QED
    BY <2>1
<1>13. ~(c.i < c.n) => (\A k \in c.i..c.n - 1 : FALSE) /\ (\A j, k \in c.i..c.n : ~(j < k))
  BY <1>0
<1>14. Buffer(f)
  <2>1. \A j, k \in c.i..c.n : j < k => EndsBy(f, k, f.slot[j].off + 1)
    BY <1>12, <1>13
  <2> QED
    BY <1>5, <1>6, <1>7, <2>1 DEF Buffer
<1>15. Neat(f)
  BY <1>4, <1>5, <1>7, <1>10, <1>11, <1>14 DEF Neat, Shaped
<1>16. Segs(f) = Segs(c)
  <2>1. \A k \in c.i..c.n - 1 : Behind(f, k) = Behind(c, k)
    BY <1>12, <1>13
  <2> QED
    BY <1>4, <1>5, <2>1, SegsSame
<1> DEFINE t == TextAt(c, c.lptr)
           u == TextAt(f, f.lptr)
<1>17. /\ t \in Seq(Item) /\ Len(t) = c.lend - c.lptr /\ \A i \in 1..c.lend - c.lptr : t[i] = c.mem[c.lptr + i - 1]
       /\ u \in Seq(Item) /\ Len(u) = c.lend - p /\ \A i \in 1..c.lend - p : u[i] = w[p + i - 1]
  BY <1>4, <1>5, <1>15, LineIs
<1> HIDE DEF t, u
<1>18. u = txt \o t
  <2>1. /\ txt \o t \in Seq(Item) /\ Len(txt \o t) = Len(txt) + Len(t)
        /\ \A i \in 1..Len(txt) + Len(t) : (txt \o t)[i] = IF i <= Len(txt) THEN txt[i] ELSE t[i - Len(txt)]
    BY <1>1, <1>17, ConcatProperties
  <2>2. Len(txt) + Len(t) = c.lend - p
    BY <1>0, <1>1, <1>2, <1>17
  <2>3. ASSUME NEW i \in 1..c.lend - p PROVE u[i] = (txt \o t)[i]
    <3>1. p + i - 1 \in p..c.lend - 1 /\ p + i - 1 \in 1..Len(c.mem)
      <4>1. p > 0
        <5>1. SUFFICES ASSUME p = 0 PROVE FALSE
          BY <1>2
        <5>2. c.line = 0
          BY <1>0, <1>2, <5>1
        <5>3. c.lend = 0
          BY <5>2 DEF Neat, Sound, Places
        <5> QED
          BY <1>0, <1>2, <5>1, <5>3
      <4> QED
        BY SMTT(30), <1>0, <1>2, <4>1
    <3>2. CASE i <= Len(txt)
      <4>1. p + i - 1 \in p..c.lptr - 1 /\ (p + i - 1) - p + 1 = i
        BY <1>1, <1>2, <3>2
      <4> QED
        BY <1>6, <1>17, <2>1, <2>2, <3>1, <3>2, <4>1
    <3>3. CASE ~(i <= Len(txt))
      <4>1. c.lptr <= p + i - 1 /\ i - Len(txt) \in 1..c.lend - c.lptr /\ c.lptr + (i - Len(txt)) - 1 = p + i - 1
        BY SMTT(30), <1>0, <1>1, <1>2, <3>3
      <4>2. u[i] = c.mem[p + i - 1]
        BY <1>6, <1>17, <3>1, <4>1
      <4>3. t[i - Len(txt)] = c.mem[p + i - 1]
        BY <1>17, <4>1
      <4> QED
        BY <2>1, <2>2, <3>3, <4>2, <4>3
    <3> QED
      BY <3>2, <3>3
  <2>4. Len(u) = Len(txt \o t) /\ Len(u) = c.lend - p /\ u \in Seq(Item)
    BY <1>17, <2>1, <2>2
  <2> QED
    BY <2>1, <2>3, <2>4, SeqEqual
<1>19. ASSUME NEW top \in BOOLEAN PROVE Coming(f, top) = txt \o Coming(c, top)
  <2>1. Later(f, top) = Later(c, top)
    BY <1>5, <1>16 DEF Later, Drained, Ending, IsUnget
  <2>2. Coming(c, top) = t \o Later(c, top) /\ Coming(f, top) = u \o Later(f, top) /\ Later(c, top) \in Seq(Item)
    BY <1>4, <1>15, ComingIs DEF t, u
  <2>3. PICK l \in Seq(Item) : l = Later(c, top)
    BY <2>2
  <2>4. txt \in Seq(Item) /\ t \in Seq(Item)
    BY <1>1, <1>17
  <2>5. (txt \o t) \o l = txt \o (t \o l)
    BY SMTT(30), <2>4, ItemsAssociate
  <2> QED
    BY <1>18, <2>1, <2>2, <2>3, <2>5
<1>20. c.n > 0 /\ Closed(c) => Closed(f)
  <2>1. ASSUME c.n > 0, Closed(c) PROVE Closed(f)
    <3>1. CASE c.i < c.n
      <4>1. c.mem[c.slot[c.n].off + 1] = NUL
        BY <2>1, <3>1 DEF Closed
      <4>2. c.i \in c.i..c.n /\ c.n \in c.i..c.n /\ c.n \in 0..SegMax /\ c.i \in 0..SegMax
        BY <1>0, <3>1, Fields
      <4>3. PICK e \in Nat : c.slot[c.n].off + 1 <= e /\ e <= c.slot[c.i].off + 1
        BY <1>7, <3>1, <4>2 DEF Buffer, EndsBy
      <4>4. c.slot[c.i].off + 1 = c.line
        BY <1>7, <2>1 DEF Buffer
      <4>5. PICK o \in Nat : o = c.slot[c.n].off
        BY <4>2, Fields
      <4>7. PICK l \in Nat : l = c.line
        BY <1>0
      <4>6. o + 1 \in 1..c.line
        <5>1. o + 1 <= e /\ e <= l
          BY <4>3, <4>4, <4>5, <4>7
        <5> QED
          BY <4>7, <5>1
      <4> QED
        BY SMTT(30), <1>5, <1>12, <3>1, <4>1, <4>5, <4>6 DEF Closed
    <3>2. CASE ~(c.i < c.n)
      <4>1. c.lptr = c.line
        BY <2>1, <3>2 DEF Closed
      <4> QED
        BY <1>0, <1>1, <1>2, <4>1
    <3> QED
      BY <3>1, <3>2
  <2> QED
    BY <2>1
<1>21. f = [d EXCEPT !.mem = Written(@, d.lptr, txt)] /\ d = [c EXCEPT !.lptr = c.lptr - Len(txt)]
  BY DEF f, d, p
<1> QED
  BY <1>4, <1>5, <1>15, <1>19, <1>20, <1>21

(* Memory that is grown holds, behind what was there, what no one wrote.   *)
LEMMA FreshIs == Fresh \in Chars \cup {NUL}
  BY PushBackConstants DEF Chars

LEMMA GrownFresh ==
  ASSUME NEW mem \in Seq(Item), NEW k \in Nat, NEW len \in Nat
  PROVE  LET g == Grown(mem, k, len)
         IN /\ Len(mem) <= k + len => Len(g) = k + len
            /\ \A i \in 1..Len(g) : IF i <= Len(mem) THEN g[i] = mem[i] ELSE g[i] = Fresh
<1> DEFINE g == Grown(mem, k, len)
           m == IF Len(mem) > k + len THEN Len(mem) ELSE k + len
<1>1. Len(mem) \in Nat /\ g \in Seq(Item)
  BY GrownIs, LenProperties
<1>2. g = [p \in 1..m |-> IF p <= Len(mem) THEN mem[p] ELSE Fresh] /\ m \in Nat
  BY <1>1 DEF Grown
<1>3. Len(mem) <= k + len => m = k + len
  BY <1>1
<1> HIDE DEF m
<1>4. Len(g) = m
  <2>1. DOMAIN g = 1..m
    BY <1>2
  <2> HIDE DEF g
  <2>2. DOMAIN g = 1..Len(g) /\ Len(g) \in Nat
    BY <1>1, LenProperties
  <2> QED
    BY <1>2, <2>1, <2>2
<1>5. \A p \in 1..m : g[p] = IF p <= Len(mem) THEN mem[p] ELSE Fresh
  BY <1>2
<1> HIDE DEF g
<1>6. \A i \in 1..Len(g) : IF i <= Len(mem) THEN g[i] = mem[i] ELSE g[i] = Fresh
  BY <1>4, <1>5
<1> QED
  BY <1>3, <1>4, <1>6 DEF g

(* A new segment at the end of the buffer, with the text in it.            *)
Segment(b, t, q) == LET d == Alloc(b, Len(t), q)
                    IN [d EXCEPT !.mem = Written(@, d.lptr, t)]
Made(f, b, t, q) ==
  /\ f \in Context /\ Sound(f)
  /\ f.kind = b.kind /\ f.tok = b.tok /\ f.ungot = b.ungot /\ f.want = b.want /\ f.i = b.i /\ f.n = b.n
  /\ f.line = b.zlen + 1 /\ f.line \in Nat /\ f.line <= f.zlen
  /\ f.lptr \in Nat /\ f.line < f.lptr /\ f.lend = f.lptr + Len(t)
  /\ f.slot[b.i] = Slot(b.zlen, q) /\ \A k \in 0..SegMax : k # b.i => f.slot[k] = b.slot[k]
  /\ f.mem \in Seq(Chars \cup {NUL}) /\ \A p \in f.lptr..f.lend - 1 : f.mem[p] # NUL
  /\ b.zlen <= Len(f.mem) /\ \A p \in 1..b.zlen : f.mem[p] = b.mem[p]
  /\ b.zlen = Len(b.mem) => f.zlen = Len(f.mem)
  /\ TextAt(f, f.lptr) = t

LEMMA SegmentMade ==
  ASSUME NEW b \in Context, Ready(b), b.mem \in Seq(Chars \cup {NUL}), NEW t \in Seq(Chars),
         NEW q \in Literals \cup {NoLit, NilTok}, b.i < b.n => q \in Literals
  PROVE  Made(Segment(b, t, q), b, t, q) /\ (t = <<>> => Segment(b, t, q) = Alloc(b, 0, q))
<1> DEFINE len == Len(t)
           k1 == b.zlen
           line == k1 + 1
           lptr == line + Gap
           lend == lptr + len
           g == Grown(b.mem, k1, Gap + len + 1)
           one == <<NUL>>
           w == Written(g, lend, one)
           v == Written(w, lptr, t)
           d == Alloc(b, len, q)
           f == [d EXCEPT !.mem = Written(@, d.lptr, t)]
<1>0. /\ b.mem \in Seq(Item) /\ k1 \in Nat /\ Len(b.mem) \in Nat /\ Gap \in Nat /\ Gap > 0 /\ SegMax \in Nat
      /\ b.i \in 0..SegMax /\ b.slot \in [0..SegMax -> [off : Nat, q : Literals \cup {NoLit, NilTok}]]
      /\ k1 <= Len(b.mem)
  BY Fields DEF Ready
<1>1. len \in Nat /\ t \in Seq(Item)
  BY CharsAre, SeqMonotonic, LenProperties
<1> HIDE DEF len, k1
<1>2. /\ line \in Nat /\ lptr \in Nat /\ lend \in Nat /\ line > 0 /\ line < lptr /\ lptr <= lend
      /\ k1 + (Gap + len + 1) = lend /\ k1 < line /\ Gap + len + 1 \in Nat
      /\ k1 + 1 + Gap + len = lend /\ k1 + Gap + len + 1 = lend
  BY <1>0, <1>1
<1>3. d \in Context /\ Sound(d) /\ d.lptr + len = d.lend /\ d.want = b.want
  BY <1>1, AllocKeeps
<1>4. /\ d.mem = w /\ d.zlen = lend /\ d.line = line /\ d.lptr = lptr /\ d.lend = lend
      /\ d.slot = [b.slot EXCEPT ![b.i] = Slot(k1, q)]
      /\ d.i = b.i /\ d.n = b.n /\ d.tok = b.tok /\ d.kind = b.kind /\ d.ungot = b.ungot
  <2>1. d = [b EXCEPT !.mem = Written(Grown(@, k1, Gap + len + 1), k1 + 1 + Gap + len, <<NUL>>),
                      !.zlen = k1 + Gap + len + 1,
                      !.line = k1 + 1, !.lptr = k1 + 1 + Gap, !.lend = k1 + 1 + Gap + len, !.slot[b.i] = Slot(k1, q)]
    BY DEF Alloc, k1
  <2>2. d = [b EXCEPT !.mem = w, !.zlen = lend, !.line = line, !.lptr = lptr, !.lend = lend,
                      !.slot = [b.slot EXCEPT ![b.i] = Slot(k1, q)]]
    <3> DEFINE s == [b.slot EXCEPT ![b.i] = Slot(k1, q)]
               x == Written(Grown(b.mem, k1, Gap + len + 1), k1 + 1 + Gap + len, <<NUL>>)
    <3>1. d = [b EXCEPT !.mem = x, !.zlen = k1 + Gap + len + 1,
                        !.line = k1 + 1, !.lptr = k1 + 1 + Gap, !.lend = k1 + 1 + Gap + len, !.slot = s]
      BY <2>1 DEF Context
    <3> HIDE DEF s, d, x
    <3>2. x = w
      BY DEF x
    <3>3. k1 + Gap + len + 1 = lend /\ k1 + 1 = line /\ k1 + 1 + Gap = lptr /\ k1 + 1 + Gap + len = lend
      BY <1>2
    <3> HIDE DEF w, lend, lptr, line
    <3>4. d = [b EXCEPT !.mem = w, !.zlen = lend, !.line = line, !.lptr = lptr, !.lend = lend, !.slot = s]
      BY <3>1, <3>2, <3>3, Zenon
    <3> QED
      BY <3>4 DEF s
  <2> HIDE DEF w, lend, lptr, line, d
  <2> QED
    BY <2>2 DEF Context
<1> HIDE DEF d
<1>5. /\ g \in Seq(Item) /\ Len(g) >= lend /\ (k1 = Len(b.mem) => Len(g) = lend) /\ Len(g) \in Nat
      /\ \A i \in 1..Len(g) : IF i <= Len(b.mem) THEN g[i] = b.mem[i] ELSE g[i] = Fresh
  <2>1. k1 \in Nat /\ Gap + len + 1 \in Nat /\ b.mem \in Seq(Item)
    BY <1>0, <1>2
  <2>2. /\ g \in Seq(Item) /\ Len(g) >= k1 + (Gap + len + 1)
        /\ Len(b.mem) <= k1 + (Gap + len + 1) => Len(g) = k1 + (Gap + len + 1)
        /\ \A i \in 1..Len(g) : IF i <= Len(b.mem) THEN g[i] = b.mem[i] ELSE g[i] = Fresh
    BY <2>1, GrownIs, GrownFresh
  <2> HIDE DEF g
  <2>3. Len(g) \in Nat
    BY <2>2, LenProperties
  <2>4. k1 = Len(b.mem) => Len(b.mem) <= k1 + (Gap + len + 1)
    BY <2>1
  <2> QED
    BY <1>2, <2>2, <2>3, <2>4
<1>6. one \in Seq(Item) /\ Len(one) = 1 /\ one[1] = NUL
  BY Items
<1> HIDE DEF g, one, lend
<1>7. /\ w \in Seq(Item) /\ Len(w) = Len(g) /\ w[lend] = NUL
      /\ \A i \in 1..Len(g) : i # lend => w[i] = g[i]
  <2>1. /\ w \in Seq(Item) /\ Len(w) = Len(g)
        /\ \A i \in 1..Len(g) : i < lend \/ lend + Len(one) <= i => w[i] = g[i]
        /\ \A i \in 1..Len(g) : i \in lend..lend + Len(one) - 1 => w[i] = one[i - lend + 1]
    BY Zenon, <1>2, <1>5, <1>6, WrittenIs
  <2>2. lend \in 1..Len(g) /\ lend \in lend..lend + Len(one) - 1 /\ lend - lend + 1 = 1
    BY <1>2, <1>5, <1>6
  <2>3. \A i \in 1..Len(g) : i # lend => i < lend \/ lend + Len(one) <= i
    BY <1>2, <1>6
  <2> HIDE DEF w
  <2> QED
    BY <1>6, <2>1, <2>2, <2>3
<1> HIDE DEF w, lptr
<1>8. /\ v \in Seq(Item) /\ Len(v) = Len(w)
      /\ \A i \in 1..Len(w) : i < lptr \/ lend <= i => v[i] = w[i]
      /\ \A i \in 1..Len(w) : i \in lptr..lend - 1 => v[i] = t[i - lptr + 1]
  <2>1. /\ v \in Seq(Item) /\ Len(v) = Len(w)
        /\ \A i \in 1..Len(w) : i < lptr \/ lptr + len <= i => v[i] = w[i]
        /\ \A i \in 1..Len(w) : i \in lptr..lptr + len - 1 => v[i] = t[i - lptr + 1]
    BY <1>1, <1>2, <1>7, WrittenIs DEF len
  <2>2. lend = lptr + len /\ lptr + len - 1 = lend - 1
    BY <1>1, <1>2 DEF lend
  <2> HIDE DEF v
  <2> QED
    BY <2>1, <2>2
<1>9. f \in Context /\ Sound(f)
  <2>1. d.lptr + Len(t) <= d.lend
    BY <1>2, <1>3, <1>4 DEF len
  <2> QED
    BY <1>1, <1>3, <2>1, PutKeeps
<1>10. /\ f.mem = v /\ f.zlen = lend /\ f.line = line /\ f.lptr = lptr /\ f.lend = lend /\ f.slot = d.slot
       /\ f.i = b.i /\ f.n = b.n /\ f.tok = b.tok /\ f.want = b.want /\ f.kind = b.kind /\ f.ungot = b.ungot
  BY <1>3, <1>4 DEF Context
<1>11. t = <<>> => f = d
  <2>1. ASSUME t = <<>> PROVE f = d
    <3>1. lend = lptr
      BY <1>1, <1>2, <2>1, EmptySeq DEF lend, len
    <3>2. \A i \in 1..Len(w) : v[i] = w[i]
      BY <1>2, <1>8, <3>1
    <3>3. v = w
      BY <1>7, <1>8, <3>2, SeqEqual
    <3>4. f = [d EXCEPT !.mem = v]
      BY <1>3, <1>4 DEF Context
    <3> QED
      BY <1>3, <1>4, <3>3, <3>4 DEF Context
  <2> QED
    BY <2>1
<1> HIDE DEF f, v
<1>12. Len(v) \in Nat /\ Len(v) = Len(g) /\ lend <= Len(v) /\ k1 <= Len(v)
  BY <1>0, <1>2, <1>5, <1>7, <1>8
<1>13. ASSUME NEW i \in 1..Len(v), i \in lptr..lend - 1 PROVE v[i] \in Chars
  <2>1. i - lptr + 1 \in 1..len
    BY <1>1, <1>2, <1>13 DEF lend
  <2> QED
    BY <1>7, <1>8, <1>12, <1>13, <2>1, ElementOfSeq DEF len
<1>14. ASSUME NEW i \in 1..Len(v), i < lptr \/ lend < i
       PROVE  v[i] = IF i <= Len(b.mem) THEN b.mem[i] ELSE Fresh
  <2>1. i \in 1..Len(w) /\ i \in 1..Len(g) /\ i # lend /\ (i < lptr \/ lend <= i)
    BY <1>2, <1>7, <1>12, <1>14
  <2> QED
    BY <1>5, <1>7, <1>8, <2>1
<1>15. v[lend] = NUL
  <2>1. lend \in 1..Len(w)
    BY <1>2, <1>7, <1>12
  <2> QED
    BY <1>2, <1>7, <1>8, <2>1
<1>16. v \in Seq(Chars \cup {NUL})
  <2>1. ASSUME NEW i \in 1..Len(v) PROVE v[i] \in Chars \cup {NUL}
    <3>1. i \in lptr..lend - 1 \/ i = lend \/ i < lptr \/ lend < i
      BY <1>2
    <3>2. i <= Len(b.mem) => b.mem[i] \in Chars \cup {NUL}
      <4>1. i <= Len(b.mem) => i \in 1..Len(b.mem)
        BY <1>0
      <4> QED
        BY <4>1, ElementOfSeq
    <3> QED
      BY <1>13, <1>14, <1>15, <3>1, <3>2, FreshIs
  <2>2. v \in [1..Len(v) -> Item]
    BY <1>8, LenProperties
  <2>3. v \in [1..Len(v) -> Chars \cup {NUL}]
    BY <2>1, <2>2
  <2> QED
    BY <1>12, <2>3
<1>17. \A p \in lptr..lend - 1 : v[p] # NUL
  <2>1. \A p \in lptr..lend - 1 : p \in 1..Len(v)
    BY <1>2, <1>12
  <2> QED
    BY <1>13, <2>1, CharsAre
<1>18. \A p \in 1..k1 : v[p] = b.mem[p]
  <2>1. \A p \in 1..k1 : p \in 1..Len(v) /\ p < lptr /\ p <= Len(b.mem)
    BY SMTT(30), <1>0, <1>2, <1>12
  <2> QED
    BY <1>14, <2>1
<1>19. k1 = Len(b.mem) => lend = Len(v)
  BY <1>5, <1>12
<1>20. TextAt(f, lptr) = t
  <2>1. lptr \in 1..Len(f.mem) /\ lend \in lptr..Len(f.mem) /\ f.mem[lend] = NUL /\ \A i \in lptr..lend - 1 : f.mem[i] # NUL
    BY <1>2, <1>10, <1>12, <1>15, <1>17
  <2> DEFINE u == TextAt(f, lptr)
  <2>2. u \in Seq(Item) /\ Len(u) = lend - lptr /\ \A i \in 1..lend - lptr : u[i] = f.mem[lptr + i - 1]
    BY <1>9, <2>1, TextIs
  <2> HIDE DEF u
  <2>3. lend - lptr = len
    BY <1>1, <1>2 DEF lend
  <2>4. ASSUME NEW i \in 1..len PROVE u[i] = t[i]
    <3>1. lptr + i - 1 \in lptr..lend - 1 /\ lptr + i - 1 \in 1..Len(w) /\ (lptr + i - 1) - lptr + 1 = i
      BY SMTT(30), <1>1, <1>2, <1>8, <1>12, <2>3
    <3> QED
      BY <1>8, <1>10, <2>2, <2>3, <3>1
  <2>5. Len(u) = Len(t) /\ \A i \in 1..Len(u) : u[i] = t[i]
    BY <2>2, <2>3, <2>4 DEF len
  <2>6. u = t
    BY <1>1, <2>2, <2>5, SeqEqual
  <2> QED
    BY <2>6 DEF u
<1>21. f.slot[b.i] = Slot(k1, q) /\ \A k \in 0..SegMax : k # b.i => f.slot[k] = b.slot[k]
  BY <1>0, <1>4, <1>10
<1>22. f.lend = f.lptr + Len(t) /\ f.line <= f.zlen
  <2>1. lend = lptr + len
    BY DEF lend
  <2> QED
    BY <1>2, <1>10, <2>1 DEF len
<1>23. f.line = b.zlen + 1
  BY <1>10 DEF line, k1
<1>24. f = Segment(b, t, q) /\ d = Alloc(b, Len(t), q)
  BY DEF f, d, len, Segment
<1>25. /\ f.line \in Nat /\ f.lptr \in Nat /\ f.line < f.lptr
  BY <1>2, <1>10
<1>26. f.mem \in Seq(Chars \cup {NUL}) /\ \A p \in f.lptr..f.lend - 1 : f.mem[p] # NUL
  BY <1>10, <1>16, <1>17
<1>27. b.zlen <= Len(f.mem) /\ \A p \in 1..b.zlen : f.mem[p] = b.mem[p]
  BY <1>10, <1>12, <1>18 DEF k1
<1>28. b.zlen = Len(b.mem) => f.zlen = Len(f.mem)
  BY <1>10, <1>19 DEF k1
<1>29. TextAt(f, f.lptr) = t
  BY <1>10, <1>20
<1>30. f.slot[b.i] = Slot(b.zlen, q)
  BY <1>21 DEF k1
<1> HIDE DEF line
<1>31. Made(f, b, t, q)
  BY <1>9, <1>10, <1>21, <1>22, <1>23, <1>25, <1>26, <1>27, <1>28, <1>29, <1>30 DEF Made
<1>32. t = <<>> => f = Alloc(b, 0, q)
  <2>1. t = <<>> => Len(t) = 0
    BY EmptySeq
  <2> QED
    BY <1>11, <1>24, <2>1
<1> QED
  BY <1>24, <1>31, <1>32

(* What is to come from a context whose text is known.                     *)
LEMMA ComingOf ==
  ASSUME NEW f \in Context, Neat(f), NEW t \in Seq(Item), TextAt(f, f.lptr) = t,
         IsUnget(f), f.n > 0, NEW top \in BOOLEAN
  PROVE  Coming(f, top) = t \o Segs(f) /\ Segs(f) \in Seq(Item) /\ Later(f, top) = Segs(f)
         /\ (f.i >= f.n => Coming(f, top) = t)
<1>1. ~f.want /\ f.n \in Nat
  BY Fields DEF Neat, Shaped, Buffer
<1>2. Segs(f) \in Seq(Item) /\ (f.i >= f.n => Segs(f) = <<>>)
  BY SegsType DEF Neat
<1>3. Drained(f) = <<>> /\ Ending(f, top) = <<>>
  BY <1>1 DEF Drained, Ending
<1>4. <<>> \o <<>> = <<>>
  BY EmptySeq, ConcatEmptySeq
<1>5. Segs(f) \o <<>> = Segs(f) /\ t \o <<>> = t
  BY <1>2, ConcatEmptySeq
<1>6. Later(f, top) = Segs(f)
  BY <1>3, <1>4, <1>5 DEF Later
<1>7. Coming(f, top) = t \o Segs(f)
  BY <1>6, ComingIs
<1> QED
  BY <1>2, <1>5, <1>6, <1>7

LEMMA UngetContextFields ==
  ASSUME NEW i \in {SegMax - 1, SegMax}
  PROVE  LET c == UngetContext(i)
         IN /\ c.mem = <<>> /\ c.zlen = 0 /\ c.kind = "unget" /\ c.tok = NONE /\ c.ungot = FALSE /\ c.want = FALSE
            /\ c.zlen = Len(c.mem) /\ c.mem \in Seq(Chars \cup {NUL})
<1> DEFINE c == UngetContext(i)
<1>1. c.mem = <<>> /\ c.zlen = 0 /\ c.kind = "unget" /\ c.tok = NONE /\ c.ungot = FALSE /\ c.want = FALSE
  BY DEF UngetContext
<1>2. <<>> \in Seq(Chars \cup {NUL}) /\ Len(<<>>) = 0
  BY EmptySeq
<1> HIDE DEF c
<1>3. c.zlen = Len(c.mem) /\ c.mem \in Seq(Chars \cup {NUL})
  BY <1>1, <1>2
<1> QED
  BY <1>1, <1>3 DEF c

(* Text in a context of its own.                                           *)
LEMMA NewTextNeat ==
  ASSUME NEW t \in Seq(Chars)
  PROVE  LET d == Alloc(UngetContext(SegMax), Len(t), NilTok)
             f == [d EXCEPT !.mem = Written(@, d.lptr, t)]
         IN /\ f \in Context /\ Neat(f) /\ IsUnget(f) /\ f.tok = NONE /\ ~f.ungot /\ ~f.want
            /\ \A top \in BOOLEAN : Coming(f, top) = t
<1> DEFINE b == UngetContext(SegMax)
           d == Alloc(b, Len(t), NilTok)
           f == [d EXCEPT !.mem = Written(@, d.lptr, t)]
<1>1. b \in Context /\ Ready(b) /\ b.i = SegMax /\ b.n = SegMax /\ SegMax \in Nat /\ SegMax >= 2 /\ ~b.want
  BY UngetContextIs, Fields
<1>2. /\ b.mem = <<>> /\ b.zlen = 0 /\ b.kind = "unget" /\ b.tok = NONE /\ b.ungot = FALSE
      /\ b.zlen = Len(b.mem) /\ b.mem \in Seq(Chars \cup {NUL})
  BY UngetContextFields
<1>3. NilTok \in Literals \cup {NoLit, NilTok} /\ ~(b.i < b.n)
  BY <1>1
<1> HIDE DEF b
<1>40. Made(Segment(b, t, NilTok), b, t, NilTok)
  BY <1>1, <1>2, <1>3, SegmentMade
<1>41. Made(f, b, t, NilTok)
  BY <1>40 DEF Segment
<1>4. /\ f \in Context /\ Sound(f)
      /\ f.kind = b.kind /\ f.tok = b.tok /\ f.ungot = b.ungot /\ f.want = b.want /\ f.i = b.i /\ f.n = b.n
      /\ f.line = b.zlen + 1 /\ f.line \in Nat /\ f.line <= f.zlen
      /\ f.slot[b.i] = Slot(b.zlen, NilTok)
      /\ f.mem \in Seq(Chars \cup {NUL}) /\ \A p \in f.lptr..f.lend - 1 : f.mem[p] # NUL
      /\ f.zlen = Len(f.mem) /\ TextAt(f, f.lptr) = t
  <2> HIDE DEF f
  <2> QED
    BY <1>2, <1>41 DEF Made
<1>5. f = [d EXCEPT !.mem = Written(@, d.lptr, t)] /\ d = Alloc(UngetContext(SegMax), Len(t), NilTok)
  BY DEF b
<1> HIDE DEF f, d
<1>6. Buffer(f)
  <2>1. f.slot[f.i].off = 0 /\ f.line = 0 + 1
    BY <1>1, <1>2, <1>4 DEF Slot
  <2>2. \A j, k \in f.i..f.n : ~(j < k)
    BY <1>1, <1>4
  <2> QED
    BY <1>1, <1>4, <2>1, <2>2 DEF Buffer
<1>7. NONE \in Tokens /\ NONE \notin {EOF, EOI}
  BY TokensDiffer DEF Tokens
<1>8. Shaped(f)
  BY <1>2, <1>4, <1>6, <1>7 DEF Shaped
<1>9. Neat(f) /\ IsUnget(f)
  BY <1>2, <1>4, <1>8 DEF Neat, IsUnget
<1>10. t \in Seq(Item)
  BY CharsAre, SeqMonotonic
<1>11. \A top \in BOOLEAN : Coming(f, top) = t
  <2>1. f.n > 0 /\ f.i >= f.n
    BY <1>1, <1>4
  <2> QED
    BY <1>4, <1>9, <1>10, <2>1, ComingOf
<1> QED
  BY <1>1, <1>2, <1>4, <1>5, <1>9, <1>11

(* Text in a new segment of a context that nothing is left in.             *)
LEMMA MoreText ==
  ASSUME NEW c \in Context, Neat(c), IsUnget(c), c.i > 0, c.i > c.n, At(c, c.lptr) = NUL,
         NEW txt \in Seq(Chars)
  PROVE  LET b == [c EXCEPT !.i = c.i - 1]
             f == Segment(b, txt, NilTok)
         IN /\ f \in Context /\ Neat(f) /\ \A top \in BOOLEAN : Coming(f, top) = txt \o Coming(c, top)
            /\ f.kind = c.kind /\ f.tok = c.tok /\ f.ungot = c.ungot /\ f.want = c.want /\ f.n = 0
<1> DEFINE b == [c EXCEPT !.i = c.i - 1]
           f == Segment(b, txt, NilTok)
<1>1. /\ c.i \in 0..SegMax /\ c.i \in Nat /\ c.n \in Nat /\ SegMax \in Nat /\ Sound(c) /\ Shaped(c) /\ Buffer(c)
      /\ c.n \in {0, SegMax} /\ c.n = 0 /\ c.i - 1 \in 0..SegMax /\ ~c.want
  <2>1. c.i \in 0..SegMax /\ c.i \in Nat /\ c.n \in Nat /\ SegMax \in Nat /\ Sound(c) /\ Shaped(c) /\ Buffer(c)
    BY Fields DEF Neat, Shaped
  <2> QED
    BY <2>1 DEF Buffer
<1>2. /\ b \in Context /\ b.i = c.i - 1 /\ b.n = c.n /\ b.want = c.want /\ b.tok = c.tok /\ b.kind = c.kind
      /\ b.mem = c.mem /\ b.zlen = c.zlen /\ b.slot = c.slot /\ b.ungot = c.ungot
  <2>1. PICK j \in 0..SegMax : j = c.i - 1
    BY <1>1
  <2> QED
    BY <1>1, <2>1 DEF Context
<1>3. c.tok \in Tokens /\ c.tok \notin {EOF, EOI} /\ c.mem \in Seq(Chars \cup {NUL})
  BY <1>1 DEF Shaped, Spent
<1> HIDE DEF b
<1>4. Ready(b) /\ ~(b.i < b.n)
  <2>1. \A k \in b.i + 1..b.n : FALSE
    BY <1>1, <1>2
  <2>2. \A k \in b.i + 1..b.n - 1 : FALSE
    BY <1>1, <1>2
  <2>3. ~(b.i < b.n)
    BY <1>1, <1>2
  <2> QED
    BY <1>1, <1>2, <1>3, <2>1, <2>2, <2>3 DEF Ready, Sound, Places
<1>5. Made(f, b, txt, NilTok)
  BY <1>2, <1>3, <1>4, SegmentMade
<1> HIDE DEF f
<1>6. /\ f \in Context /\ Sound(f) /\ f.kind = c.kind /\ f.tok = c.tok /\ f.ungot = c.ungot /\ f.want = c.want
      /\ f.i = c.i - 1 /\ f.n = 0 /\ f.mem \in Seq(Chars \cup {NUL})
      /\ \A p \in f.lptr..f.lend - 1 : f.mem[p] # NUL
      /\ TextAt(f, f.lptr) = txt
  BY <1>1, <1>2, <1>5 DEF Made
<1>7. Buffer(f)
  <2>1. \A j, k \in f.i..f.n : ~(j < k)
    BY <1>1, <1>6
  <2> QED
    BY <1>1, <1>6, <2>1 DEF Buffer
<1>8. Neat(f)
  BY <1>3, <1>6, <1>7 DEF Neat, Shaped
<1>9. ASSUME NEW top \in BOOLEAN PROVE Coming(f, top) = txt \o Coming(c, top)
  <2>1. Segs(f) = <<>> /\ Segs(c) = <<>>
    BY <1>1, <1>6, SegsType
  <2>2. Later(f, top) = Later(c, top)
    BY <1>1, <1>6, <2>1 DEF Later, Drained, Ending, IsUnget
  <2>3. c.lptr \in Nat /\ c.lptr <= Len(c.mem)
    <3>1. c.lptr \in Nat /\ c.lend \in Nat /\ c.lptr <= c.lend /\ c.lend <= Len(c.mem) /\ Len(c.mem) \in Nat
      BY LineIs
    <3> QED
      BY <3>1
  <2>4. TextAt(c, c.lptr) = <<>>
    BY <2>3, NoTextAtNul
  <2>5. Coming(c, top) = Later(c, top)
    BY <2>4, ComingIs, ConcatEmptySeq
  <2>6. Coming(f, top) = txt \o Later(f, top)
    BY <1>6, <1>8, ComingIs
  <2> QED
    BY <2>2, <2>5, <2>6
<1> QED
  BY <1>6, <1>8, <1>9 DEF f, b

(* An emptied context: what comes last is still to come, and a blank, if   *)
(* text had been put back into the context.                                *)
LEMMA ClearNeat ==
  ASSUME NEW c \in Context, Neat(c), c.i >= c.n
  PROVE  LET f == ClearAndFill(c)
         IN /\ f \in Context /\ Neat(f) /\ f.kind = c.kind /\ f.tok = c.tok /\ f.ungot = c.ungot /\ f.want = c.want
            /\ f.i = c.i /\ f.n = 0 /\ f.lptr = 0 /\ At(f, f.lptr) = NUL /\ TextAt(f, f.lptr) = <<>>
            /\ \A top \in BOOLEAN :
                 /\ Coming(f, top) = Drained(f) \o Ending(c, top)
                 /\ Later(c, top) = Drained(c) \o Ending(c, top)
            /\ Drained(f) = IF IsUnget(c) THEN <<SP>> ELSE <<>>
<1> DEFINE f == ClearAndFill(c)
           g == Grown(c.mem, 0, 1)
           one == <<NUL>>
           w == Written(g, 1, one)
<1>1. c.mem \in Seq(Item) /\ c.i \in Nat /\ c.n \in Nat /\ c.i \in 0..SegMax /\ Shaped(c) /\ Sound(c)
      /\ c.mem \in Seq(Chars \cup {NUL}) /\ Len(c.mem) \in Nat
  BY Fields DEF Neat, Shaped
<1>2. f \in Context /\ Sound(f) /\ f.lptr = 0
  BY <1>1, ClearKeeps
<1>3. /\ f.kind = c.kind /\ f.tok = c.tok /\ f.ungot = c.ungot /\ f.want = c.want
      /\ f.i = c.i /\ f.n = 0 /\ f.lend = 0 /\ f.mem = w
  BY DEF ClearAndFill, Context
<1> HIDE DEF f
<1>4. /\ g \in Seq(Item) /\ Len(g) \in Nat
      /\ \A i \in 1..Len(g) : IF i <= Len(c.mem) THEN g[i] = c.mem[i] ELSE g[i] = Fresh
  <2>0. c.mem \in Seq(Item) /\ 0 \in Nat /\ 1 \in Nat
    BY <1>1
  <2>1. g \in Seq(Item)
    BY ONLY <2>0, GrownIs
  <2>2. \A i \in 1..Len(g) : IF i <= Len(c.mem) THEN g[i] = c.mem[i] ELSE g[i] = Fresh
    BY ONLY <2>0, GrownFresh
  <2> HIDE DEF g
  <2> QED
    BY <2>1, <2>2, LenProperties
<1>5. one \in Seq(Item) /\ Len(one) = 1 /\ one[1] = NUL
  BY Items
<1> HIDE DEF g, one
<1>6. w \in Seq(Chars \cup {NUL})
  <2>0. 1 \in Nat /\ g \in Seq(Item) /\ one \in Seq(Item)
    BY <1>4, <1>5
  <2>1. /\ w \in Seq(Item) /\ Len(w) = Len(g)
        /\ \A i \in 1..Len(g) : i < 1 \/ 1 + Len(one) <= i => w[i] = g[i]
        /\ \A i \in 1..Len(g) : i \in 1..1 + Len(one) - 1 => w[i] = one[i - 1 + 1]
    BY <2>0, WrittenIs
  <2> HIDE DEF w
  <2>2. ASSUME NEW i \in 1..Len(g) PROVE w[i] \in Chars \cup {NUL}
    <3>1. CASE i = 1
      <4>1. i \in 1..1 + Len(one) - 1 /\ i - 1 + 1 = 1
        BY <1>5, <3>1
      <4> QED
        BY <1>5, <2>1, <4>1
    <3>2. CASE i # 1
      <4>1. 1 + Len(one) <= i
        BY <1>4, <1>5, <3>2
      <4>2. w[i] = g[i]
        BY <2>1, <4>1
      <4>3. i <= Len(c.mem) => c.mem[i] \in Chars \cup {NUL}
        <5>1. i <= Len(c.mem) => i \in 1..Len(c.mem)
          BY <1>1, <1>4
        <5> QED
          BY <1>1, <5>1, ElementOfSeq
      <4> QED
        BY <1>4, <4>2, <4>3, FreshIs
    <3> QED
      BY <3>1, <3>2
  <2>3. w \in [1..Len(g) -> Item]
    BY <2>1, LenProperties
  <2>4. w \in [1..Len(g) -> Chars \cup {NUL}]
    BY <2>2, <2>3
  <2> QED
    BY <1>4, <2>4
<1> HIDE DEF w
<1>7. At(f, f.lptr) = NUL /\ TextAt(f, f.lptr) = <<>>
  BY <1>2 DEF At, TextAt
<1>8. Shaped(f)
  <2>1. \A p \in f.lptr..f.lend - 1 : FALSE
    BY <1>2, <1>3
  <2>2. f.i >= f.n
    BY <1>1, <1>3
  <2>3. IsUnget(f) => Buffer(f)
    <3>1. \A j, k \in f.i..f.n : ~(j < k)
      BY <1>1, <1>3
    <3>2. IsUnget(f) => ~c.want
      BY <1>1, <1>3 DEF Shaped, Buffer, IsUnget
    <3> QED
      BY <1>3, <3>1, <3>2 DEF Buffer
  <2>4. f.tok \in {EOF, EOI} => Spent(f)
    BY <1>1, <1>3, <1>7, <2>2 DEF Shaped, Spent, IsUnget
  <2> QED
    BY <1>1, <1>3, <1>6, <2>1, <2>3, <2>4 DEF Shaped
<1>9. Neat(f)
  BY <1>2, <1>8 DEF Neat
<1>10. Segs(f) = <<>> /\ Segs(c) = <<>>
  <2>1. f.i >= f.n
    BY <1>1, <1>3
  <2> QED
    BY <1>1, <1>2, <2>1, SegsType
<1>11. Drained(f) = IF IsUnget(c) THEN <<SP>> ELSE <<>>
  BY <1>3 DEF Drained, IsUnget
<1>12. ASSUME NEW top \in BOOLEAN
       PROVE  /\ Coming(f, top) = Drained(f) \o Ending(c, top)
              /\ Later(c, top) = Drained(c) \o Ending(c, top)
  <2>1. Ending(f, top) = Ending(c, top)
    BY <1>3 DEF Ending
  <2>2. /\ Drained(f) \in Seq(Item) /\ Drained(c) \in Seq(Item) /\ Ending(c, top) \in Seq(Item)
    BY <1>2, <1>9, ComingIs
  <2>3. Drained(f) \o Ending(c, top) \in Seq(Item) /\ Drained(c) \o Ending(c, top) \in Seq(Item)
    BY <2>2, ConcatProperties
  <2>4. \A s \in Seq(Item) : <<>> \o s = s
    BY ConcatEmptySeq
  <2>5. Later(f, top) = Drained(f) \o Ending(c, top) /\ Later(c, top) = Drained(c) \o Ending(c, top)
    BY <1>10, <2>1, <2>3, <2>4 DEF Later
  <2>6. Coming(f, top) = <<>> \o Later(f, top)
    BY <1>2, <1>7, <1>9, ComingIs
  <2> QED
    BY <2>3, <2>4, <2>5, <2>6
<1> QED
  BY <1>2, <1>3, <1>7, <1>9, <1>11, <1>12 DEF f

(* The next segment: the literal before it comes first.                    *)
LEMMA NextNeat ==
  ASSUME NEW c \in Context, Neat(c), c.i < c.n
  PROVE  LET f == NextSegment(c)
             q == c.slot[c.i].q
         IN /\ f \in Context /\ Neat(f) /\ f.kind = c.kind /\ f.tok = c.tok /\ f.ungot = c.ungot /\ f.want = c.want
            /\ f.n = c.n /\ q \in Literals
            /\ \A top \in BOOLEAN : Later(c, top) = <<q>> \o Coming(f, top)
            /\ Closed(c) => Closed(f)
<1> DEFINE f == NextSegment(c)
           q == c.slot[c.i].q
           t == TextAt(c, c.slot[c.i + 1].off + 1)
<1>1. /\ c.i \in Nat /\ c.n \in Nat /\ c.n <= SegMax /\ SegMax \in Nat /\ Shaped(c) /\ Sound(c) /\ Len(c.mem) \in Nat
      /\ c.i \in c.i..c.n - 1 /\ c.i + 1 \in 0..SegMax /\ c.i + 1 \in c.i..c.n /\ c.i \in c.i..c.n /\ c.n \in 0..SegMax
  <2>1. /\ c.i \in Nat /\ c.n \in Nat /\ c.n \in 0..SegMax /\ SegMax \in Nat /\ Shaped(c) /\ Sound(c) /\ Len(c.mem) \in Nat
    BY Fields DEF Neat
  <2> QED
    BY <2>1
<1>2. f \in Context /\ Sound(f)
  BY <1>1, NextSegmentKeeps
<1>3. PICK p \in Nat : p = c.slot[c.i + 1].off + 1 /\ p > 0
  <2>1. c.slot[c.i + 1].off \in Nat
    BY <1>1, Fields
  <2> QED
    BY <2>1
<1>4. PICK e \in Nat : p <= e /\ e <= Len(c.mem) /\ c.mem[e] = NUL
  <2>1. PICK e \in Nat : EndsAt(c, c.i + 1, e)
    BY <1>1 DEF Sound, Segments
  <2>2. e \in p..Len(c.mem) /\ c.mem[e] = NUL
    BY <1>3, <2>1 DEF EndsAt
  <2> QED
    BY <1>1, <1>3, <2>2
<1>5. /\ EndOfText(c, p) \in p..e /\ \A i \in p..EndOfText(c, p) - 1 : c.mem[i] # NUL
  <2>1. p \in 1..Len(c.mem) /\ e \in p..Len(c.mem)
    BY SMTT(30), <1>1, <1>3, <1>4
  <2> QED
    BY <1>4, <2>1, EndFound
<1>6. /\ f.kind = c.kind /\ f.tok = c.tok /\ f.ungot = c.ungot /\ f.want = c.want /\ f.n = c.n /\ f.i = c.i + 1
      /\ f.mem = c.mem /\ f.slot = c.slot /\ f.zlen = c.zlen
      /\ f.line = p /\ f.lptr = p /\ f.lend = EndOfText(c, p)
  <2>1. f = [c EXCEPT !.i = @ + 1, !.line = p, !.lptr = p, !.lend = EndOfText(c, p)]
    BY <1>3 DEF NextSegment
  <2> HIDE DEF f
  <2> QED
    BY <2>1 DEF Context
<1> HIDE DEF f
<1>7. c.tok \in Tokens /\ c.tok \notin {EOF, EOI} /\ c.mem \in Seq(Chars \cup {NUL})
  BY <1>1 DEF Shaped, Spent
<1>8. IsUnget(c) => Buffer(f) /\ p <= c.line /\ Buffer(c)
  <2>1. ASSUME IsUnget(c) PROVE Buffer(f) /\ p <= c.line /\ Buffer(c)
    <3>1. Buffer(c) /\ c.n > 0
      BY <1>1, <2>1 DEF Shaped
    <3>2. c.i < c.i + 1
      BY <1>1
    <3>3. EndsBy(c, c.i + 1, c.slot[c.i].off + 1)
      BY <1>1, <3>1, <3>2 DEF Buffer
    <3>4. PICK x \in Nat : p <= x /\ x <= c.slot[c.i].off + 1
      BY <1>3, <3>3 DEF EndsBy
    <3>5. c.line = c.slot[c.i].off + 1 /\ c.line <= c.zlen /\ c.zlen = Len(c.mem)
      BY <3>1 DEF Buffer
    <3>6. c.line \in Nat
      BY Fields
    <3>7. p <= c.line /\ p <= c.zlen
      BY SMTT(30), <1>1, <1>3, <3>4, <3>5, <3>6
    <3>8. \A j \in f.i..f.n : j \in c.i..c.n
      BY <1>1, <1>6
    <3>9. \A j, k \in f.i..f.n : j < k => EndsBy(f, k, f.slot[j].off + 1)
      BY <1>6, <3>1, <3>8 DEF Buffer, EndsBy
    <3>10. f.line = f.slot[f.i].off + 1
      BY <1>3, <1>6
    <3> QED
      BY <1>6, <3>1, <3>5, <3>7, <3>9, <3>10 DEF Buffer
  <2> QED
    BY <2>1
<1>9. Neat(f)
  BY <1>2, <1>5, <1>6, <1>7, <1>8 DEF Neat, Shaped, IsUnget
<1>10. /\ q \in Literals /\ t \in Seq(Item) /\ Behind(c, c.i) = <<q>> \o t
  BY <1>1, BehindIs
<1>11. TextAt(f, f.lptr) = t
  BY <1>2, <1>3, <1>6, TextSame
<1> HIDE DEF t, q
<1>12. Segs(c) = Behind(c, c.i) \o Segs(f)
  <2>1. \A k : Behind(f, k) = Behind(c, k)
    BY <1>2, <1>6, TextSame DEF Behind
  <2> QED
    BY <1>1, <1>2, <1>6, <2>1, SegsCons
<1>13. ASSUME NEW top \in BOOLEAN PROVE Later(c, top) = <<q>> \o Coming(f, top)
  <2> DEFINE r == Drained(c) \o Ending(c, top)
             s == Segs(f)
             one == <<q>>
  <2>1. r \in Seq(Item) /\ s \in Seq(Item) /\ one \in Seq(Item)
    <3>1. Drained(c) \in Seq(Item) /\ Ending(c, top) \in Seq(Item) /\ s \in Seq(Item)
      BY <1>2, <1>9, ComingIs
    <3>2. one \in Seq(Item)
      BY <1>10, Items
    <3> QED
      BY <3>1, <3>2, ConcatProperties
  <2>2. Drained(f) = Drained(c) /\ Ending(f, top) = Ending(c, top)
    BY <1>6 DEF Drained, Ending, IsUnget
  <2>3. Later(c, top) = ((one \o t) \o s) \o r
    BY <1>10, <1>12 DEF Later
  <2>4. Coming(f, top) = t \o (s \o r)
    <3>1. Later(f, top) = s \o r
      BY <2>2 DEF Later
    <3> QED
      BY <1>2, <1>9, <1>11, <3>1, ComingIs
  <2> HIDE DEF r, s, one
  <2>5. (one \o t) \o s = one \o (t \o s) /\ t \o s \in Seq(Item)
    <3>1. t \in Seq(Item) /\ s \in Seq(Item) /\ one \in Seq(Item)
      BY <1>10, <2>1
    <3>2. (one \o t) \o s = one \o (t \o s)
      BY <3>1, Associative
    <3>3. t \o s \in Seq(Item)
      BY <3>1, ConcatProperties
    <3> QED
      BY <3>2, <3>3
  <2>6. PICK u \in Seq(Item) : u = t \o s
    BY <2>5
  <2>7. (one \o u) \o r = one \o (u \o r)
    BY ONLY SMTT(30), <2>1, <2>6, ItemsAssociate
  <2>8. (t \o s) \o r = t \o (s \o r)
    BY ONLY SMTT(30), <1>10, <2>1, ItemsAssociate
  <2> QED
    BY <2>3, <2>4, <2>5, <2>6, <2>7, <2>8 DEF one
<1>14. Closed(c) => Closed(f)
  <2>1. ASSUME Closed(c) PROVE Closed(f)
    <3>1. c.mem[c.slot[c.n].off + 1] = NUL
      BY <2>1 DEF Closed
    <3>2. CASE f.i < f.n
      BY <1>6, <3>1, <3>2 DEF Closed
    <3>3. CASE ~(f.i < f.n)
      <4>1. c.i + 1 = c.n
        BY <1>1, <1>6, <3>3
      <4>2. c.mem[p] = NUL
        BY <1>3, <3>1, <4>1
      <4>3. At(f, f.lptr) = NUL /\ f.lptr = f.line
        BY <1>3, <1>6, <4>2 DEF At
      <4> QED
        BY <3>3, <4>3 DEF Closed
    <3> QED
      BY <3>2, <3>3
  <2> QED
    BY <2>1
<1> QED
  BY <1>2, <1>6, <1>9, <1>10, <1>13, <1>14 DEF f, q

(* The rest of the word at hand: up to a blank or to the end of the line.  *)
LEMMA RestIs ==
  ASSUME NEW c \in Context, Neat(c)
  PROVE  LET rest == IF c.lptr = 0 THEN 0 ELSE WordRest(c)
             moved == IF c.lptr = 0 THEN <<>> ELSE SubSeq(c.mem, c.lptr, WordRest(c) - 1)
         IN /\ rest \in Nat /\ c.lptr <= rest /\ rest <= c.lend /\ moved = SubSeq(c.mem, c.lptr, rest - 1)
            /\ At(c, rest) \notin WordChars
            /\ At(c, c.lptr) = NUL => rest = c.lptr /\ moved = <<>>
<1> DEFINE rest == IF c.lptr = 0 THEN 0 ELSE WordRest(c)
           moved == IF c.lptr = 0 THEN <<>> ELSE SubSeq(c.mem, c.lptr, WordRest(c) - 1)
<1>1. /\ c.lptr \in Nat /\ c.lend \in Nat /\ c.lptr <= c.lend /\ (c.lptr = 0 => c.lend = 0)
      /\ At(c, c.lptr) = NUL <=> c.lptr = c.lend
  BY LineIs
<1>2. SP \notin WordChars /\ NUL \notin WordChars
  BY PushBackConstants
<1>3. ASSUME NEW p \in Nat, c.lptr <= p, p <= c.lend
      PROVE  Len(SubSeq(c.mem, c.lptr, p - 1)) = p - c.lptr /\ SubSeq(c.mem, c.lptr, p - 1) \in Seq(Item)
  BY <1>3, MoveNeat
<1>4. CASE c.lptr = 0
  <2>1. rest = 0 /\ moved = <<>> /\ c.lend = 0
    BY <1>1, <1>4
  <2>2. SubSeq(c.mem, c.lptr, 0 - 1) = <<>>
    <3>1. 0 - c.lptr = 0
      BY <1>4
    <3>2. Len(SubSeq(c.mem, c.lptr, 0 - 1)) = 0 /\ SubSeq(c.mem, c.lptr, 0 - 1) \in Seq(Item)
      BY <1>1, <1>3, <1>4, <2>1, <3>1
    <3> QED
      BY <3>2, EmptySeq
  <2>3. At(c, 0) = NUL
    BY DEF At
  <2> HIDE DEF rest, moved
  <2> QED
    BY <1>1, <1>2, <1>4, <2>1, <2>2, <2>3 DEF rest, moved
<1>5. CASE c.lptr # 0
  <2> DEFINE stop == {p \in c.lptr..c.lend : p = c.lend \/ At(c, p) = SP}
  <2>1. PICK x \in stop : \A y \in stop : x <= y
    <3>1. stop \subseteq Nat /\ c.lend \in stop
      BY <1>1
    <3> HIDE DEF stop
    <3> QED
      BY <3>1, Least
  <2>2. WordRest(c) = CHOOSE p \in stop : \A r \in stop : p <= r
    BY DEF WordRest
  <2>3. WordRest(c) \in stop
    BY <2>1, <2>2
  <2>4. rest = WordRest(c) /\ moved = SubSeq(c.mem, c.lptr, WordRest(c) - 1)
    BY <1>5
  <2> HIDE DEF rest, moved
  <2>5. rest \in Nat /\ c.lptr <= rest /\ rest <= c.lend /\ (rest = c.lend \/ At(c, rest) = SP)
    BY <1>1, <2>3, <2>4
  <2>6. At(c, c.lend) = NUL
    <3>1. c.lend > 0
      BY <1>1, <1>5
    <3> QED
      BY <3>1 DEF Neat, Sound, Places, At
  <2>7. At(c, rest) \notin WordChars
    BY <1>2, <2>5, <2>6
  <2>8. At(c, c.lptr) = NUL => rest = c.lptr /\ moved = <<>>
    <3>1. ASSUME At(c, c.lptr) = NUL PROVE rest = c.lptr /\ moved = <<>>
      <4>1. rest = c.lptr
        BY <1>1, <2>5, <3>1
      <4>2. rest - c.lptr = 0
        BY <1>1, <4>1
      <4>3. Len(moved) = 0 /\ moved \in Seq(Item)
        BY <1>3, <2>4, <2>5, <4>2
      <4> QED
        BY <4>1, <4>3, EmptySeq
    <3> QED
      BY <3>1
  <2> QED
    BY <2>4, <2>5, <2>7, <2>8 DEF rest, moved
<1> QED
  BY <1>4, <1>5
-----------------------------------------------------------------------------
(* -------- Changes to the stack -------- *)

(* A context in place of the current one.                                  *)
LEMMA InPlace ==
  ASSUME NEW st, Linked(st), st # <<>>, NEW f \in Context, Neat(f), f.kind = Head(st).kind, f.want = Head(st).want,
         f.tok # EOI \/ Tail(st) = <<>>,
         Tail(st) # <<>> /\ IsUnget(f) => Starts(Head(Tail(st))) \/ (f.n > 0 => Closed(f))
  PROVE  LET s == <<f>> \o Tail(st)
         IN /\ Linked(s) /\ s # <<>> /\ Head(s) = f /\ Tail(s) = Tail(st)
            /\ ToCome(s) = Coming(f, TRUE) \o Under(Tail(st)) /\ Under(Tail(st)) \in Seq(Item)
            /\ Coming(f, TRUE) \in Seq(Item)
<1> DEFINE t == Tail(st)
<1>1. /\ Head(st) \in Context /\ Linked(t)
      /\ t = <<>> => ~IsUnget(Head(st))
      /\ t # <<>> => Link(Head(st), Head(t))
  BY LinkOff
<1> HIDE DEF t
<1>2. (t = <<>> => ~IsUnget(f)) /\ (t # <<>> => Link(f, Head(t)))
  BY <1>1 DEF Link, IsUnget, t
<1>3. Linked(<<f>> \o t) /\ Head(<<f>> \o t) = f /\ Tail(<<f>> \o t) = t /\ <<f>> \o t # <<>>
  BY <1>1, <1>2, LinkOn
<1>4. ToCome(<<f>> \o t) = Coming(f, TRUE) \o Under(t) /\ Under(t) \in Seq(Item) /\ Coming(f, TRUE) \in Seq(Item)
  BY <1>1, Stacked
<1> QED
  BY <1>3, <1>4 DEF t

(* A context on top of the current one.                                    *)
LEMMA OnStack ==
  ASSUME NEW st, Linked(st), st # <<>>, NEW f \in Context, Neat(f), IsUnget(f), f.tok # EOI,
         Head(st).tok # EOF, ~Head(st).ungot, IsUnget(Head(st)) => Head(st).i = 0,
         Starts(Head(st)) \/ (f.n > 0 => Closed(f))
  PROVE  LET s == <<f>> \o st
         IN /\ Linked(s) /\ s # <<>> /\ Head(s) = f
            /\ ToCome(s) = Coming(f, TRUE) \o ToCome(st)
<1>1. Link(f, Head(st))
  BY DEF Link
<1>2. Linked(<<f>> \o st) /\ Head(<<f>> \o st) = f /\ <<f>> \o st # <<>>
  BY <1>1, LinkOn
<1>3. ToCome(<<f>> \o st) = Coming(f, TRUE) \o Under(st) /\ ToCome(st) = Under(st)
  BY Stacked, FromTop
<1> QED
  BY <1>2, <1>3

LEMMA InTwo ==
  ASSUME NEW S, NEW f \in S, NEW l \in S, NEW t \in Seq(S)
  PROVE  <<f, l>> \o t = <<f>> \o (<<l>> \o t)
<1>1. <<f>> \in Seq(S) /\ <<l>> \in Seq(S)
  OBVIOUS
<1>2. (<<f>> \o <<l>>) \o t = <<f>> \o (<<l>> \o t)
  <2> DEFINE ff == <<f>>
             ll == <<l>>
  <2>1. ff \in Seq(S) /\ ll \in Seq(S)
    BY <1>1
  <2> HIDE DEF ff, ll
  <2>2. (ff \o ll) \o t = ff \o (ll \o t)
    BY <2>1, Associative
  <2> QED
    BY <2>2 DEF ff, ll
<1>3. <<f>> \o <<l>> = <<f, l>>
  <2> DEFINE ll == <<l>>
             fl == <<f>> \o ll
             pr == <<f, l>>
  <2>1. ll \in Seq(S) /\ Len(ll) = 1 /\ ll[1] = l /\ 1 \in 1..1
    OBVIOUS
  <2> HIDE DEF ll
  <2>0. /\ <<f>> \o ll \in Seq(S) /\ Len(<<f>> \o ll) = Len(ll) + 1 /\ (<<f>> \o ll)[1] = f
        /\ \A i \in 1..Len(ll) : (<<f>> \o ll)[i + 1] = ll[i]
    <3>1. f \in S /\ ll \in Seq(S)
      BY <2>1
    <3> QED
      BY <3>1, InFront
  <2>2. fl \in Seq(S) /\ Len(fl) = Len(ll) + 1 /\ fl[1] = f /\ \A i \in 1..Len(ll) : fl[i + 1] = ll[i]
    BY <2>0
  <2> HIDE DEF fl
  <2>3. Len(fl) = 2 /\ fl[1 + 1] = l
    BY <2>1, <2>2
  <2>4. pr \in Seq(S) /\ Len(pr) = 2 /\ pr[1] = f /\ pr[2] = l
    OBVIOUS
  <2> HIDE DEF pr
  <2>5. \A i \in 1..2 : i = 1 \/ i = 1 + 1
    OBVIOUS
  <2>6. 1 + 1 = 2
    OBVIOUS
  <2>7. \A i \in 1..Len(fl) : fl[i] = pr[i]
    BY <2>2, <2>3, <2>4, <2>5, <2>6
  <2>8. fl = pr
    BY <2>2, <2>3, <2>4, <2>7, SeqEqual
  <2> QED
    BY <2>8 DEF fl, pr, ll
<1> QED
  BY <1>2, <1>3

LEMMA ContextsInTwo ==
  \A f, l \in Context : \A s \in Seq(Context) : <<f, l>> \o s = <<f>> \o (<<l>> \o s)
  BY InTwo

LEMMA WithTextIs ==
  ASSUME NEW st, Linked(st), st # <<>>, Head(st).tok # EOF, ~Head(st).ungot,
         NEW txt \in Seq(Chars), txt # <<>>, SafeText(Head(st), Len(txt))
  PROVE  /\ Linked(WithText(st, txt)) /\ WithText(st, txt) # <<>>
         /\ ~Head(WithText(st, txt)).ungot /\ Head(WithText(st, txt)).tok # EOF
         /\ ToCome(WithText(st, txt)) = txt \o ToCome(st)
<1> DEFINE c == Head(st)
           u == Under(Tail(st))
           moved == IF c.lptr = 0 THEN <<>> ELSE SubSeq(c.mem, c.lptr, WordRest(c) - 1)
           rest == IF c.lptr = 0 THEN 0 ELSE WordRest(c)
           left == [c EXCEPT !.lptr = rest]
           new == txt \o moved
<1>1. /\ c \in Context /\ Neat(c) /\ Linked(Tail(st)) /\ (Tail(st) = <<>> => ~IsUnget(c))
      /\ Tail(st) # <<>> => Link(c, Head(Tail(st)))
  BY LinkOff
<1>2. ToCome(st) = Coming(c, TRUE) \o u /\ u \in Seq(Item) /\ Coming(c, TRUE) \in Seq(Item)
  BY <1>1, FromTop, UnderType, ComingIs
<1>3. txt \in Seq(Item) /\ Len(txt) \in Nat
  BY CharsAre, SeqMonotonic, LenProperties
<1>4. Tail(st) \in Seq(Context)
  BY <1>1 DEF Linked
<1>5. c.tok # EOF /\ ~c.ungot /\ SafeText(c, Len(txt))
  OBVIOUS
<1>6. /\ rest \in Nat /\ c.lptr <= rest /\ rest <= c.lend /\ moved = SubSeq(c.mem, c.lptr, rest - 1)
      /\ At(c, rest) \notin WordChars
      /\ At(c, c.lptr) = NUL => rest = c.lptr /\ moved = <<>>
  <2> HIDE DEF c
  <2> QED
    BY <1>1, RestIs
<1>7. c.i \in Nat /\ c.n \in Nat /\ c.lptr \in Nat /\ c.line \in Nat
  BY <1>1, Fields
<1> HIDE DEF c, rest, moved
<1>8. CASE Fits(c, Len(txt))
  <2> DEFINE d == [c EXCEPT !.lptr = c.lptr - Len(txt)]
             f == [d EXCEPT !.mem = Written(@, d.lptr, txt)]
  <2>1. WithText(st, txt) = <<f>> \o Tail(st)
    <3>1. d = [c EXCEPT !.lptr = @ - Len(txt)]
      BY <1>1 DEF Context
    <3> QED
      BY <1>8, <3>1 DEF WithText, c
  <2>2. IsUnget(c) /\ c.line + Len(txt) <= c.lptr /\ (c.line + Len(txt) < c.lptr \/ c.i >= c.n)
    BY <1>5, <1>8 DEF Fits, SafeText
  <2>3. /\ f \in Context /\ Neat(f) /\ \A top \in BOOLEAN : Coming(f, top) = txt \o Coming(c, top)
        /\ f.kind = c.kind /\ f.tok = c.tok /\ f.ungot = c.ungot /\ f.want = c.want /\ f.i = c.i /\ f.n = c.n
        /\ c.n > 0 /\ Closed(c) => Closed(f)
    BY <1>1, <2>2, FitNeat
  <2> HIDE DEF d, f
  <2>4. /\ f.kind = Head(st).kind /\ f.want = Head(st).want /\ (f.tok # EOI \/ Tail(st) = <<>>)
        /\ Tail(st) # <<>> /\ IsUnget(f) => Starts(Head(Tail(st))) \/ (f.n > 0 => Closed(f))
    BY <1>1, <2>2, <2>3 DEF c, Link
  <2>5. /\ Linked(<<f>> \o Tail(st)) /\ <<f>> \o Tail(st) # <<>> /\ Head(<<f>> \o Tail(st)) = f
        /\ ToCome(<<f>> \o Tail(st)) = Coming(f, TRUE) \o u
    BY <2>3, <2>4, InPlace
  <2>6. Coming(f, TRUE) \o u = txt \o (Coming(c, TRUE) \o u)
    <3>1. PICK x \in Seq(Item), y \in Seq(Item) : x = Coming(c, TRUE) /\ y = u
      BY <1>2
    <3>2. (txt \o x) \o y = txt \o (x \o y)
      BY <1>3, Associative
    <3> QED
      BY <2>3, <3>1, <3>2
  <2> QED
    BY <1>2, <1>5, <2>1, <2>3, <2>5, <2>6
<1>9. CASE ~Fits(c, Len(txt)) /\ IsUnget(c) /\ c.i > 0
  <2> DEFINE b == [c EXCEPT !.i = c.i - 1]
             f == Segment(b, txt, NilTok)
  <2>1. c.i > c.n /\ At(c, c.lptr) = NUL
    BY <1>5, <1>7, <1>9 DEF SafeText
  <2>2. rest = c.lptr /\ moved = <<>> /\ left = c
    <3>1. rest = c.lptr /\ moved = <<>>
      BY <1>6, <2>1
    <3>2. left = [c EXCEPT !.lptr = c.lptr]
      BY <3>1
    <3> QED
      BY <1>1, <3>1, <3>2 DEF Context
  <2>3. WithText(st, txt) = <<f>> \o Tail(st)
    <3>1. b = [left EXCEPT !.i = @ - 1]
      BY <1>1, <2>2 DEF Context
    <3>2. left = [c EXCEPT !.lptr = IF c.lptr = 0 THEN 0 ELSE WordRest(c)]
      BY DEF left, rest
    <3> DEFINE d2 == Alloc([left EXCEPT !.i = @ - 1], Len(txt) + Len(moved), NilTok)
    <3>3. WithText(st, txt) = <<[d2 EXCEPT !.mem = Written(@, d2.lptr, txt \o moved)]>> \o Tail(st)
      BY Zenon, <1>9, <3>2 DEF WithText, c, moved
    <3>4. Len(txt) + Len(moved) = Len(txt) /\ txt \o moved = txt
      BY <1>3, <2>2, EmptySeq, ConcatEmptySeq
    <3> HIDE DEF left, b
    <3> QED
      BY <3>1, <3>3, <3>4 DEF Segment
  <2>4. /\ f \in Context /\ Neat(f) /\ \A top \in BOOLEAN : Coming(f, top) = txt \o Coming(c, top)
        /\ f.kind = c.kind /\ f.tok = c.tok /\ f.ungot = c.ungot /\ f.want = c.want /\ f.n = 0
    BY <1>1, <1>9, <2>1, MoreText
  <2> HIDE DEF b, f
  <2>5. /\ f.kind = Head(st).kind /\ f.want = Head(st).want /\ (f.tok # EOI \/ Tail(st) = <<>>)
        /\ Tail(st) # <<>> /\ IsUnget(f) => Starts(Head(Tail(st))) \/ (f.n > 0 => Closed(f))
    BY <1>1, <2>4 DEF c, Link
  <2>6. /\ Linked(<<f>> \o Tail(st)) /\ <<f>> \o Tail(st) # <<>> /\ Head(<<f>> \o Tail(st)) = f
        /\ ToCome(<<f>> \o Tail(st)) = Coming(f, TRUE) \o u
    BY <2>4, <2>5, InPlace
  <2>7. Coming(f, TRUE) \o u = txt \o (Coming(c, TRUE) \o u)
    <3>1. PICK x \in Seq(Item), y \in Seq(Item) : x = Coming(c, TRUE) /\ y = u
      BY <1>2
    <3>2. (txt \o x) \o y = txt \o (x \o y)
      BY <1>3, Associative
    <3> QED
      BY <2>4, <3>1, <3>2
  <2> QED
    BY <1>2, <1>5, <2>3, <2>4, <2>6, <2>7
<1>10. CASE ~Fits(c, Len(txt)) /\ ~(IsUnget(c) /\ c.i > 0)
  <2> DEFINE d == Alloc(UngetContext(SegMax), Len(new), NilTok)
             f == [d EXCEPT !.mem = Written(@, d.lptr, new)]
             st2 == <<left>> \o Tail(st)
  <2>1. /\ left \in Context /\ Neat(left) /\ moved \in Seq(Chars) /\ moved \in Seq(Item)
        /\ Coming(c, TRUE) = moved \o Coming(left, TRUE)
    <3>1. PICK p \in Nat : p = rest
      BY <1>6
    <3>2. /\ [c EXCEPT !.lptr = p] \in Context /\ Neat([c EXCEPT !.lptr = p])
          /\ SubSeq(c.mem, c.lptr, p - 1) \in Seq(Chars) /\ SubSeq(c.mem, c.lptr, p - 1) \in Seq(Item)
          /\ \A top \in BOOLEAN : Coming(c, top) = SubSeq(c.mem, c.lptr, p - 1) \o Coming([c EXCEPT !.lptr = p], top)
      BY <1>1, <1>6, <3>1, MoveNeat
    <3> QED
      BY <1>6, <3>1, <3>2
  <2>2. /\ left.kind = c.kind /\ left.tok = c.tok /\ left.ungot = c.ungot /\ left.want = c.want
        /\ left.i = c.i /\ left.n = c.n /\ left.mem = c.mem /\ left.slot = c.slot /\ left.lptr = rest
    BY <1>1 DEF Context
  <2>3. WithText(st, txt) = <<f, left>> \o Tail(st)
    <3>1. left = [c EXCEPT !.lptr = IF c.lptr = 0 THEN 0 ELSE WordRest(c)]
      BY DEF left, rest
    <3> DEFINE d2 == Alloc(UngetContext(SegMax), Len(txt) + Len(moved), NilTok)
    <3>2. WithText(st, txt) = <<[d2 EXCEPT !.mem = Written(@, d2.lptr, txt \o moved)], left>> \o Tail(st)
      BY Zenon, <1>10, <3>1 DEF WithText, c, moved
    <3>3. Len(new) = Len(txt) + Len(moved)
      BY <1>3, <2>1, ConcatProperties
    <3> HIDE DEF left
    <3> QED
      BY SMTT(30), <3>2, <3>3
  <2> HIDE DEF left
  <2>4. new \in Seq(Chars)
    BY <2>1, ConcatProperties
  <2>5. /\ f \in Context /\ Neat(f) /\ IsUnget(f) /\ f.tok = NONE /\ ~f.ungot /\ ~f.want
        /\ \A top \in BOOLEAN : Coming(f, top) = new
    <3> HIDE DEF new
    <3> QED
      BY <2>4, NewTextNeat
  <2> HIDE DEF d, f
  <2>6. IsUnget(left) => left.i = 0
    BY <1>7, <1>10, <2>2 DEF IsUnget
  <2>7. Starts(left)
    BY <1>6, <2>2 DEF Starts, At
  <2>8. /\ left.kind = Head(st).kind /\ left.want = Head(st).want /\ (left.tok # EOI \/ Tail(st) = <<>>)
        /\ Tail(st) # <<>> /\ IsUnget(left) => Starts(Head(Tail(st))) \/ (left.n > 0 => Closed(left))
    <3>1. IsUnget(left) /\ left.n > 0 => (Closed(c) => Closed(left))
      <4>1. IsUnget(left) /\ left.n > 0 => left.i < left.n
        BY <1>7, <2>2, <2>6
      <4> QED
        BY <2>2, <4>1 DEF Closed
    <3> QED
      BY <1>1, <2>2, <3>1 DEF c, Link, IsUnget
  <2>9. /\ Linked(st2) /\ st2 # <<>> /\ Head(st2) = left
        /\ ToCome(st2) = Coming(left, TRUE) \o u /\ Coming(left, TRUE) \in Seq(Item)
    BY <2>1, <2>8, InPlace
  <2> HIDE DEF st2
  <2>10. f.tok # EOI /\ Head(st2).tok # EOF /\ ~Head(st2).ungot /\ (IsUnget(Head(st2)) => Head(st2).i = 0)
    BY <1>5, <2>2, <2>5, <2>6, <2>9, TokensDiffer
  <2>11. /\ Linked(<<f>> \o st2) /\ <<f>> \o st2 # <<>> /\ Head(<<f>> \o st2) = f
         /\ ToCome(<<f>> \o st2) = Coming(f, TRUE) \o ToCome(st2)
    BY <2>5, <2>7, <2>9, <2>10, OnStack
  <2>12. WithText(st, txt) = <<f>> \o st2
    <3>1. f \in Context /\ left \in Context /\ Tail(st) \in Seq(Context)
      BY <1>4, <2>1, <2>5
    <3>2. <<f, left>> \o Tail(st) = <<f>> \o (<<left>> \o Tail(st))
      BY Zenon, <3>1, ContextsInTwo
    <3> QED
      BY <2>3, <3>2 DEF st2
  <2>13. ToCome(<<f>> \o st2) = txt \o (Coming(c, TRUE) \o u)
    <3>1. PICK x \in Seq(Item), y \in Seq(Item), m \in Seq(Item) : x = Coming(left, TRUE) /\ y = u /\ m = moved
      BY <1>2, <2>1, <2>9
    <3>2. ToCome(<<f>> \o st2) = (txt \o m) \o (x \o y) /\ Coming(c, TRUE) \o u = (m \o x) \o y
      BY <2>1, <2>5, <2>9, <2>11, <3>1
    <3>3. (m \o x) \o y = m \o (x \o y) /\ x \o y \in Seq(Item)
      BY SMTT(30), Associative, ConcatProperties
    <3>4. PICK z \in Seq(Item) : z = x \o y
      BY <3>3
    <3>5. (txt \o m) \o z = txt \o (m \o z)
      BY ONLY SMTT(30), <1>3, ItemsAssociate, m \in Seq(Item), z \in Seq(Item)
    <3> QED
      BY <3>2, <3>3, <3>4, <3>5
  <2>14. f.tok # EOF
    BY <2>5, TokensDiffer
  <2> QED
    BY <1>2, <2>5, <2>11, <2>12, <2>13, <2>14
<1> QED
  BY <1>8, <1>9, <1>10

Marked(g, c, t, u) ==
  /\ g \in Context /\ Neat(g) /\ g.tok = t /\ g.ungot = u
  /\ t # EOF => Coming(g, TRUE) = Coming(c, FALSE)
  /\ t = c.tok => Coming(g, TRUE) = Coming(c, TRUE)

LEMMA TokenMarked ==
  ASSUME NEW c \in Context, Neat(c), NEW t \in Tokens, t \in Seq(Item), NEW u \in BOOLEAN,
         t = EOF => c.want, t \in {EOF, EOI} => Spent(c)
  PROVE  Marked([c EXCEPT !.tok = t, !.ungot = u], c, t, u)
<1> DEFINE g == [c EXCEPT !.tok = t, !.ungot = u]
<1>1. g \in Context /\ Sound(g)
  BY TokenKeeps DEF Neat
<1>2. /\ g.lptr = c.lptr /\ g.line = c.line /\ g.lend = c.lend /\ g.mem = c.mem /\ g.zlen = c.zlen
      /\ g.slot = c.slot /\ g.i = c.i /\ g.n = c.n /\ g.tok = t /\ g.ungot = u /\ g.want = c.want /\ g.kind = c.kind
  BY DEF Context
<1> HIDE DEF g
<1>3. Shaped(g)
  BY <1>2 DEF Neat, Shaped, Spent, Buffer, IsUnget, EndsBy, At
<1>4. Neat(g)
  BY <1>1, <1>3 DEF Neat
<1>5. Segs(g) = Segs(c) /\ Drained(g) = Drained(c) /\ TextAt(g, g.lptr) = TextAt(c, c.lptr)
  BY <1>1, <1>2, SegsKept, TextSame
<1>6. /\ t # EOF => Ending(g, TRUE) = Ending(c, FALSE)
      /\ t = c.tok => Ending(g, TRUE) = Ending(c, TRUE)
  BY <1>2 DEF Ending
<1>7. /\ t # EOF => Coming(g, TRUE) = Coming(c, FALSE)
      /\ t = c.tok => Coming(g, TRUE) = Coming(c, TRUE)
  BY <1>5, <1>6 DEF Coming
<1>8. Marked(g, c, t, u)
  BY <1>1, <1>2, <1>4, <1>7 DEF Marked
<1> QED
  BY <1>8 DEF g

(* Whether a token is put back says nothing of what is to come.            *)
LEMMA UngotIs ==
  ASSUME NEW st, Linked(st), st # <<>>, NEW u \in BOOLEAN
  PROVE  LET f == [Head(st) EXCEPT !.ungot = u]
             s == <<f>> \o Tail(st)
         IN /\ Linked(s) /\ s # <<>> /\ Head(s) = f /\ ToCome(s) = ToCome(st)
            /\ f.tok = Head(st).tok /\ f.ungot = u
<1> DEFINE c == Head(st)
           f == [c EXCEPT !.ungot = u]
           g == [c EXCEPT !.tok = c.tok, !.ungot = u]
<1>1. /\ c \in Context /\ Neat(c)
      /\ Tail(st) # <<>> => Link(c, Head(Tail(st)))
  BY LinkOff
<1>2. ToCome(st) = Coming(c, TRUE) \o Under(Tail(st))
  BY FromTop
<1> HIDE DEF c
<1>3. f = g
  BY <1>1 DEF Context
<1>4. c.tok \in Tokens /\ c.tok \in Seq(Item) /\ (c.tok = EOF => c.want) /\ (c.tok \in {EOF, EOI} => Spent(c))
  BY <1>1, Fields DEF Neat, Shaped, Sound
<1>5. /\ g \in Context /\ Neat(g) /\ g.tok = c.tok /\ g.ungot = u
      /\ Coming(g, TRUE) = Coming(c, TRUE)
  <2>1. Marked(g, c, c.tok, u)
    BY <1>1, <1>4, TokenMarked
  <2> HIDE DEF g
  <2> QED
    BY <2>1 DEF Marked
<1>6. /\ g.kind = c.kind /\ g.want = c.want /\ g.mem = c.mem /\ g.slot = c.slot /\ g.i = c.i /\ g.n = c.n
      /\ g.lptr = c.lptr /\ g.line = c.line
  BY <1>1 DEF Context
<1> HIDE DEF g, f
<1>7. /\ g.kind = Head(st).kind /\ g.want = Head(st).want /\ (g.tok # EOI \/ Tail(st) = <<>>)
      /\ Tail(st) # <<>> /\ IsUnget(g) => Starts(Head(Tail(st))) \/ (g.n > 0 => Closed(g))
  BY <1>1, <1>5, <1>6 DEF Link, IsUnget, Closed, At, c
<1>8. /\ Linked(<<g>> \o Tail(st)) /\ <<g>> \o Tail(st) # <<>> /\ Head(<<g>> \o Tail(st)) = g
      /\ ToCome(<<g>> \o Tail(st)) = Coming(g, TRUE) \o Under(Tail(st))
  BY <1>5, <1>7, InPlace
<1> QED
  BY <1>2, <1>3, <1>5, <1>8 DEF f, c

(* A context that has moved on, and the token it did so over.              *)
LEMMA TokenInPlace ==
  ASSUME NEW st, Linked(st), st # <<>>, NEW d \in Context, Neat(d), d.kind = Head(st).kind, d.want = Head(st).want,
         Tail(st) # <<>> /\ IsUnget(d) => Starts(Head(Tail(st))) \/ (d.n > 0 => Closed(d)),
         NEW t \in Tokens, t \in Seq(Item), t \notin {EOF, EOI}
  PROVE  LET f == [d EXCEPT !.tok = t]
             s == <<f>> \o Tail(st)
         IN /\ Linked(s) /\ s # <<>> /\ Head(s) = f /\ f.tok = t /\ f.ungot = d.ungot
            /\ ToCome(s) = Coming(d, FALSE) \o Under(Tail(st))
<1> DEFINE f == [d EXCEPT !.tok = t]
           g == [d EXCEPT !.tok = t, !.ungot = d.ungot]
<1>1. f = g
  BY DEF Context
<1>2. d.ungot \in BOOLEAN /\ (t = EOF => d.want) /\ (t \in {EOF, EOI} => Spent(d))
  BY Fields
<1>3. /\ g \in Context /\ Neat(g) /\ g.tok = t /\ g.ungot = d.ungot
      /\ t # EOF => Coming(g, TRUE) = Coming(d, FALSE)
  <2>1. Marked(g, d, t, d.ungot)
    BY <1>2, TokenMarked
  <2> HIDE DEF g
  <2> QED
    BY <2>1 DEF Marked
<1>4. /\ g.kind = d.kind /\ g.want = d.want /\ g.mem = d.mem /\ g.slot = d.slot /\ g.i = d.i /\ g.n = d.n
      /\ g.lptr = d.lptr /\ g.line = d.line
  BY DEF Context
<1> HIDE DEF g, f
<1>5. /\ g.kind = Head(st).kind /\ g.want = Head(st).want /\ (g.tok # EOI \/ Tail(st) = <<>>)
      /\ Tail(st) # <<>> /\ IsUnget(g) => Starts(Head(Tail(st))) \/ (g.n > 0 => Closed(g))
  BY <1>3, <1>4 DEF IsUnget, Closed, At
<1>6. /\ Linked(<<g>> \o Tail(st)) /\ <<g>> \o Tail(st) # <<>> /\ Head(<<g>> \o Tail(st)) = g
      /\ ToCome(<<g>> \o Tail(st)) = Coming(g, TRUE) \o Under(Tail(st))
  BY <1>3, <1>5, InPlace
<1>7. t # EOF
  OBVIOUS
<1> QED
  BY <1>1, <1>7, <1>3, <1>6 DEF f

(* The token that was put back becomes what comes first.                   *)
LEMMA MeltIs ==
  ASSUME CallerMay = {}, Linked(stack), stack # <<>>, ctx.ungot => ctx.tok # NONE, MeltKept
  PROVE  /\ Linked(Melt(stack)) /\ Melt(stack) # <<>>
         /\ ~Head(Melt(stack)).ungot /\ Head(Melt(stack)).tok # EOF
         /\ ToCome(Melt(stack)) = TQ!AsText(Kept(stack)) \o ToCome(stack)
         /\ TQ!AsText(Kept(stack)) \in Seq(Item) /\ ToCome(stack) \in Seq(Item)
<1> DEFINE t == ctx.tok
           f == [ctx EXCEPT !.ungot = FALSE]
           s == <<f>> \o Tail(stack)
           q == IF Len(t) = 1 /\ t[1] \in Literals THEN t ELSE NONE
           len == Len(IF t = EOI THEN <<>> ELSE t) + 1
<1>1. t # EOF /\ (ctx.ungot => CallerKeeps(stack, q, len))
  BY DEF MeltKept
<1>2. ctx \in Context /\ Neat(ctx) /\ t \in Tokens /\ t \in Seq(Item) /\ ToCome(stack) \in Seq(Item) /\ ctx.ungot \in BOOLEAN
  BY LinkOff, FromTop, Fields DEF Neat, Shaped, ctx
<1>3. CASE ~ctx.ungot
  <2>1. Melt(stack) = stack
    BY <1>3 DEF Melt, ctx
  <2>2. TQ!AsText(Kept(stack)) = <<>>
    BY <1>3 DEF TQ!AsText, Kept, ctx
  <2> QED
    BY <1>1, <1>2, <1>3, <2>1, <2>2, EmptySeq, ConcatEmptySeq DEF ctx
<1>4. CASE ctx.ungot
  <2>1. /\ Linked(s) /\ s # <<>> /\ Head(s) = f /\ ToCome(s) = ToCome(stack) /\ f.tok = t /\ f.ungot = FALSE
    BY UngotIs DEF ctx
  <2>2. /\ f.kind = ctx.kind /\ f.mem = ctx.mem /\ f.i = ctx.i /\ f.n = ctx.n /\ f.lptr = ctx.lptr /\ f.line = ctx.line
    BY <1>2 DEF Context
  <2>3. Melt(stack) = IF Len(t) = 1 /\ t[1] \in Literals THEN WithQuote(s, t[1])
                      ELSE WithText(s, IF t = EOI THEN <<SP>> ELSE Append(t, SP))
    <3>1. f.tok = t
      BY <2>1
    <3> QED
      BY <1>4, <3>1 DEF Melt, ctx
  <2>4. Kept(stack) = t /\ t # NONE
    BY <1>4 DEF Kept, ctx
  <2> HIDE DEF s, f, t
  <2>5. ~(Len(t) = 1 /\ t[1] \in Literals)
    BY <1>1, <1>4, <2>4 DEF CallerKeeps, ctx
  <2> QED
    <3> DEFINE txt == IF t = EOI THEN <<SP>> ELSE Append(t, SP)
    <3>1. q = NONE
      BY <2>5
    <3>2. SafeText(Head(stack), len)
      BY <1>1, <1>4, <3>1 DEF CallerKeeps
    <3>3. txt \in Seq(Chars) /\ txt # <<>> /\ Len(txt) = len /\ TQ!AsText(t) = txt /\ txt \in Seq(Item)
      <4>1. CASE t = EOI
        <5>1. <<SP>> \in Seq(Chars) /\ <<SP>> # <<>> /\ Len(<<SP>>) = 1 /\ Len(<<>>) = 0 /\ <<SP>> \in Seq(Item)
          BY CharsAre
        <5>2. len = 1
          BY <4>1, <5>1
        <5> QED
          BY <2>4, <4>1, <5>1, <5>2 DEF TQ!AsText
      <4>2. CASE t # EOI
        <5>1. t \in Seq(WordChars)
          <6>1. t \notin {<<x>> : x \in Literals}
            <7>1. ASSUME NEW x \in Literals, t = <<x>> PROVE FALSE
              <8>1. Len(t) = 1 /\ t[1] = x
                BY <7>1
              <8> QED
                BY <2>5, <8>1
            <7> QED
              BY <7>1
          <6> QED
            BY <1>1, <1>2, <2>4, <4>2, <6>1 DEF Tokens, t
        <5>2. t \in Seq(Chars)
          BY <5>1, CharsAre, SeqMonotonic
        <5>3. Append(t, SP) \in Seq(Chars) /\ Append(t, SP) # <<>> /\ Len(Append(t, SP)) = Len(t) + 1
          BY <5>2, CharsAre, AppendProperties
        <5>4. ToSet(t) \subseteq WordChars
          BY <5>1, ElementOfSeq, LenProperties DEF ToSet
        <5>5. TQ!AsText(t) = t \o <<SP>>
          BY <2>4, <4>2, <5>4 DEF TQ!AsText, TQ!ToSet, ToSet
        <5>6. t \o <<SP>> = Append(t, SP)
          BY <5>2, CharsAre, AppendIsConcat
        <5>7. txt = Append(t, SP) /\ len = Len(t) + 1
          BY <4>2
        <5>8. Append(t, SP) \in Seq(Item)
          BY <5>3, CharsAre, SeqMonotonic
        <5> QED
          BY <5>3, <5>5, <5>6, <5>7, <5>8
      <4> QED
        BY <4>1, <4>2
    <3>4. Melt(stack) = WithText(s, txt)
      BY <2>3, <2>5
    <3> HIDE DEF txt, len
    <3>5. SafeText(f, Len(txt))
      BY <2>2, <3>2, <3>3 DEF SafeText, IsUnget, At, Fits, ctx
    <3>6. /\ Linked(WithText(s, txt)) /\ WithText(s, txt) # <<>>
          /\ ~Head(WithText(s, txt)).ungot /\ Head(WithText(s, txt)).tok # EOF
          /\ ToCome(WithText(s, txt)) = txt \o ToCome(s)
      BY <1>1, <2>1, <3>3, <3>5, WithTextIs
    <3> QED
      BY <1>2, <2>1, <2>4, <3>3, <3>4, <3>6
<1> QED
  BY <1>2, <1>3, <1>4

(* A peek at the end of the text empties the buffer.                       *)
LEMMA PeekedIs ==
  ASSUME NEW st, Linked(st), st # <<>>
  PROVE  LET s == Peeked(st)
         IN /\ Linked(s) /\ s # <<>> /\ Head(s).tok = Head(st).tok /\ Head(s).ungot = Head(st).ungot
            /\ ToCome(s) \in {ToCome(st), <<SP>> \o ToCome(st)}
            /\ At(Head(st), Head(st).lptr) # NUL => s = st
            /\ At(Head(st), Head(st).lptr) = NUL => At(Head(s), Head(s).lptr) = NUL
<1> DEFINE c == Head(st)
           f == ClearAndFill(c)
           s == <<f>> \o Tail(st)
<1>1. /\ c \in Context /\ Neat(c)
      /\ Tail(st) # <<>> => Link(c, Head(Tail(st)))
  BY LinkOff
<1>2. ToCome(st) = Coming(c, TRUE) \o Under(Tail(st))
  BY FromTop
<1>3. CASE ~(At(c, c.lptr) = NUL /\ c.i >= c.n)
  <2>1. Peeked(st) = st
    BY <1>3 DEF Peeked
  <2> QED
    BY <2>1
<1>4. CASE At(c, c.lptr) = NUL /\ c.i >= c.n
  <2>1. Peeked(st) = s
    BY <1>4 DEF Peeked
  <2> HIDE DEF c
  <2>2. /\ f \in Context /\ Neat(f) /\ f.kind = c.kind /\ f.tok = c.tok /\ f.ungot = c.ungot /\ f.want = c.want
        /\ f.n = 0 /\ At(f, f.lptr) = NUL
        /\ Drained(f) = IF IsUnget(c) THEN <<SP>> ELSE <<>>
    BY <1>1, <1>4, ClearNeat
  <2>3. /\ Coming(f, TRUE) = Drained(f) \o Ending(c, TRUE)
        /\ Later(c, TRUE) = Drained(c) \o Ending(c, TRUE)
    BY <1>1, <1>4, ClearNeat
  <2> HIDE DEF f
  <2>4. /\ f.kind = Head(st).kind /\ f.want = Head(st).want
        /\ f.tok # EOI \/ Tail(st) = <<>>
        /\ Tail(st) # <<>> /\ IsUnget(f) => Starts(Head(Tail(st))) \/ (f.n > 0 => Closed(f))
    BY <1>1, <2>2 DEF Link, c
  <2>5. /\ Linked(s) /\ s # <<>> /\ Head(s) = f
        /\ ToCome(s) = Coming(f, TRUE) \o Under(Tail(st)) /\ Under(Tail(st)) \in Seq(Item)
    BY <2>2, <2>4, InPlace
  <2>6. /\ TextAt(c, c.lptr) = <<>> /\ Coming(c, TRUE) = TextAt(c, c.lptr) \o Later(c, TRUE)
        /\ Later(c, TRUE) \in Seq(Item) /\ Drained(c) \in Seq(Item) /\ Ending(c, TRUE) \in Seq(Item)
    <3>1. TRUE \in BOOLEAN
      OBVIOUS
    <3> QED
      BY <1>1, <1>4, <3>1, LineIs, ComingIs
  <2>7. Coming(c, TRUE) = Drained(c) \o Ending(c, TRUE)
    BY <2>3, <2>6, ConcatEmptySeq
  <2>8. Drained(c) \in {<<>>, Drained(f)}
    BY <2>2 DEF Drained
  <2>9. ToCome(s) \in {ToCome(st), <<SP>> \o ToCome(st)}
    <3>1. CASE Drained(f) = Drained(c)
      BY <1>2, <2>3, <2>5, <2>7, <3>1
    <3>2. CASE Drained(f) # Drained(c)
      <4>1. Drained(c) = <<>> /\ Drained(f) = <<SP>>
        BY <2>2, <2>8, <3>2
      <4>2. ToCome(st) = Ending(c, TRUE) \o Under(Tail(st))
        BY <1>2, <2>6, <2>7, <4>1, ConcatEmptySeq
      <4>3. <<SP>> \in Seq(Item)
        BY Items
      <4>4. ToCome(s) = (<<SP>> \o Ending(c, TRUE)) \o Under(Tail(st))
        BY <2>3, <2>5, <4>1
      <4>5. ToCome(s) = <<SP>> \o (Ending(c, TRUE) \o Under(Tail(st)))
        <5>1. PICK o \in Seq(Item) : o = <<SP>>
          BY <4>3
        <5>2. PICK e \in Seq(Item), u \in Seq(Item) : e = Ending(c, TRUE) /\ u = Under(Tail(st))
          BY <2>5, <2>6
        <5>3. (o \o e) \o u = o \o (e \o u)
          BY ConcatAssociative
        <5> QED
          BY <4>4, <5>1, <5>2, <5>3
      <4> QED
        BY <4>2, <4>5
    <3> QED
      BY <3>1, <3>2
  <2>10. Head(s).tok = Head(st).tok /\ Head(s).ungot = Head(st).ungot
    BY <2>2, <2>5 DEF c
  <2> HIDE DEF s
  <2> QED
    BY <1>4, <2>1, <2>2, <2>5, <2>9, <2>10 DEF c
<1> QED
  BY <1>3, <1>4

(* Going on by a character takes it from what is to come.                  *)
LEMMA AfterIs ==
  ASSUME NEW st, Linked(st), st # <<>>, Head(st).tok # EOF
  PROVE  LET s == After(st)
             ch == At(Head(st), Head(st).lptr)
         IN /\ Linked(s) /\ s # <<>> /\ Head(s).tok = NONE /\ Head(s).ungot = Head(st).ungot
            /\ ch = NUL => ToCome(s) = ToCome(st)
            /\ ch # NUL => ch \in Chars /\ ToCome(st) = <<ch>> \o ToCome(s)
            /\ ToCome(s) \in Seq(Item)
<1> DEFINE c == Head(st)
           p == IF At(c, c.lptr) = NUL THEN c.lptr ELSE c.lptr + 1
           d == [c EXCEPT !.lptr = p]
           f == [d EXCEPT !.tok = NONE]
           s == <<f>> \o Tail(st)
<1>1. /\ c \in Context /\ Neat(c)
      /\ Tail(st) # <<>> => Link(c, Head(Tail(st)))
  BY LinkOff
<1>2. ToCome(st) = Coming(c, TRUE) \o Under(Tail(st))
  BY FromTop
<1>3. Coming(c, TRUE) = Coming(c, FALSE)
  BY <1>1, ComingIs
<1>4. After(st) = s
  BY <1>1 DEF After, Context
<1>5. NONE \in Tokens /\ NONE \in Seq(Item) /\ NONE \notin {EOF, EOI}
  BY Items, TokensDiffer DEF Tokens
<1>6. /\ c.lptr \in Nat /\ c.lend \in Nat /\ c.lptr <= c.lend /\ (At(c, c.lptr) = NUL <=> c.lptr = c.lend)
      /\ c.lptr = 0 => c.lend = 0
  BY <1>1, LineIs
<1>7. p \in Nat /\ c.lptr <= p /\ p <= c.lend
  BY <1>6
<1> HIDE DEF c
<1>8. /\ d.kind = c.kind /\ d.want = c.want /\ d.mem = c.mem /\ d.slot = c.slot /\ d.i = c.i /\ d.n = c.n
      /\ d.lptr = p /\ d.line = c.line /\ d.ungot = c.ungot
  BY <1>1 DEF Context
<1> HIDE DEF p
<1>9. /\ d \in Context /\ Neat(d)
      /\ SubSeq(c.mem, c.lptr, p - 1) \in Seq(Chars) /\ Len(SubSeq(c.mem, c.lptr, p - 1)) = p - c.lptr
      /\ \A i \in 1..p - c.lptr : SubSeq(c.mem, c.lptr, p - 1)[i] = c.mem[c.lptr + i - 1]
  BY <1>1, <1>7, MoveNeat
<1>10. Coming(c, FALSE) = SubSeq(c.mem, c.lptr, p - 1) \o Coming(d, FALSE)
  BY <1>1, <1>7, MoveNeat
<1> HIDE DEF d
<1>11. Tail(st) # <<>> /\ IsUnget(d) => Starts(Head(Tail(st))) \/ (d.n > 0 => Closed(d))
  <2>1. ASSUME Tail(st) # <<>>, IsUnget(d), ~Starts(Head(Tail(st))), d.n > 0 PROVE Closed(d)
    <3>1. Closed(c) /\ IsUnget(c)
      BY <1>1, <1>8, <2>1 DEF Link, IsUnget
    <3>2. CASE c.i < c.n
      BY <1>8, <3>1, <3>2 DEF Closed
    <3>3. CASE ~(c.i < c.n)
      <4>1. c.lptr = c.line /\ At(c, c.lptr) = NUL
        BY <3>1, <3>3 DEF Closed
      <4>2. p = c.lptr
        BY <4>1 DEF p
      <4> QED
        BY <1>8, <3>3, <4>1, <4>2 DEF Closed, At
    <3> QED
      BY <3>2, <3>3
  <2> QED
    BY <2>1
<1>12. /\ Linked(s) /\ s # <<>> /\ Head(s) = f /\ f.tok = NONE /\ f.ungot = d.ungot
       /\ ToCome(s) = Coming(d, FALSE) \o Under(Tail(st))
  <2>1. d.kind = Head(st).kind /\ d.want = Head(st).want
    BY <1>8 DEF c
  <2> QED
    BY <1>5, <1>9, <1>11, <2>1, TokenInPlace
<1>13. ToCome(s) \in Seq(Item)
  BY <1>12, FromTop
<1>14. Coming(d, FALSE) \in Seq(Item) /\ Under(Tail(st)) \in Seq(Item)
  BY <1>9, LinkOff, UnderType, ComingIs
<1> HIDE DEF f, s
<1> DEFINE t == SubSeq(c.mem, c.lptr, p - 1)
           ch == At(c, c.lptr)
<1>15. CASE ch = NUL
  <2>1. Len(t) = 0 /\ t \in Seq(Chars)
    BY <1>6, <1>9, <1>15 DEF p
  <2>2. t = <<>>
    BY <2>1, EmptySeq
  <2>3. ToCome(s) = ToCome(st)
    BY <1>2, <1>3, <1>10, <1>12, <1>14, <2>2, ConcatEmptySeq
  <2> QED
    BY <1>4, <1>8, <1>12, <1>13, <1>15, <2>3 DEF c
<1>16. CASE ch # NUL
  <2>1. p = c.lptr + 1 /\ p - c.lptr = 1 /\ c.lptr + 1 - 1 = c.lptr /\ c.lptr # 0 /\ 1 \in 1..1
    BY <1>6, <1>16 DEF p
  <2>2. Len(t) = 1 /\ t[1] = ch /\ t \in Seq(Chars)
    BY <1>9, <2>1 DEF At
  <2> HIDE DEF t, ch
  <2>3. ch \in Chars
    BY <2>1, <2>2, ElementOfSeq
  <2>4. <<ch>> \in Seq(Chars) /\ Len(<<ch>>) = 1 /\ <<ch>>[1] = ch
    BY <2>3
  <2>5. \A i \in 1..1 : t[i] = <<ch>>[i]
    BY <2>2, <2>4
  <2>6. t = <<ch>>
    BY <2>2, <2>4, <2>5, SeqEqual
  <2>7. <<ch>> \in Seq(Item)
    BY <2>3, CharsAre
  <2>8. ToCome(st) = (<<ch>> \o Coming(d, FALSE)) \o Under(Tail(st))
    BY <1>2, <1>3, <1>10, <2>6 DEF t
  <2>9. ToCome(st) = <<ch>> \o (Coming(d, FALSE) \o Under(Tail(st)))
    <3>1. PICK o \in Seq(Item) : o = <<ch>>
      BY <2>7
    <3>2. PICK e \in Seq(Item), u \in Seq(Item) : e = Coming(d, FALSE) /\ u = Under(Tail(st))
      BY <1>14
    <3>3. (o \o e) \o u = o \o (e \o u)
      BY SMTT(30), ItemsAssociate
    <3> QED
      BY <2>8, <3>1, <3>2, <3>3
  <2>10. ToCome(st) = <<ch>> \o ToCome(s)
    BY <1>12, <2>9
  <2> QED
    BY <1>4, <1>8, <1>12, <1>13, <1>16, <2>3, <2>10 DEF c, ch
<1> QED
  BY <1>15, <1>16

(* Two parts of a sequence.                                                *)
LEMMA PartsOf ==
  ASSUME NEW S, NEW b \in Seq(S), NEW r \in Seq(S)
  PROVE  LET s == b \o r
         IN /\ s \in Seq(S) /\ Len(s) = Len(b) + Len(r) /\ Len(b) \in Nat /\ Len(r) \in Nat /\ Len(s) \in Nat
            /\ \A i \in 1..Len(b) : s[i] = b[i]
            /\ \A i \in 1..Len(r) : s[Len(b) + i] = r[i]
            /\ SubSeq(s, Len(b) + 1, Len(s)) = r
            /\ SubSeq(s, 1, Len(b)) = b
<1> DEFINE s == b \o r
<1>1. Len(b) \in Nat /\ Len(r) \in Nat
  BY LenProperties
<1>2. /\ s \in Seq(S) /\ Len(s) = Len(b) + Len(r)
      /\ \A i \in 1..Len(b) + Len(r) : s[i] = IF i <= Len(b) THEN b[i] ELSE r[i - Len(b)]
  BY ConcatProperties
<1> HIDE DEF s
<1>3. ASSUME NEW i \in 1..Len(b) PROVE s[i] = b[i]
  <2>1. i \in 1..Len(b) + Len(r) /\ i <= Len(b)
    BY <1>1
  <2> QED
    BY <1>2, <2>1
<1>4. ASSUME NEW i \in 1..Len(r) PROVE s[Len(b) + i] = r[i]
  <2>1. Len(b) + i \in 1..Len(b) + Len(r) /\ ~(Len(b) + i <= Len(b)) /\ (Len(b) + i) - Len(b) = i
    BY <1>1
  <2> QED
    BY <1>2, <2>1
<1>5. \A i \in 1..Len(s) : s[i] \in S
  BY <1>2, ElementOfSeq
<1>6. SubSeq(s, Len(b) + 1, Len(s)) = r
  <2> DEFINE t == SubSeq(s, Len(b) + 1, Len(s))
  <2>1. /\ t \in Seq(S)
        /\ Len(t) = IF Len(b) + 1 <= Len(s) THEN Len(s) - (Len(b) + 1) + 1 ELSE 0
        /\ \A i \in 1..Len(s) - (Len(b) + 1) + 1 : t[i] = s[Len(b) + 1 + i - 1]
    <3>1. Len(b) + 1 \in Int /\ Len(s) \in Int /\ \A i \in Len(b) + 1..Len(s) : i \in 1..Len(s)
      BY <1>1, <1>2
    <3>2. \A i \in Len(b) + 1..Len(s) : s[i] \in S
      BY <1>5, <3>1
    <3> QED
      BY <3>1, <3>2, SubSeqProperties
  <2>2. Len(s) - (Len(b) + 1) + 1 = Len(r) /\ Len(t) = Len(r)
    BY <1>1, <1>2, <2>1
  <2>3. \A i \in 1..Len(r) : Len(b) + 1 + i - 1 = Len(b) + i
    BY <1>1
  <2> HIDE DEF t
  <2>4. \A i \in 1..Len(t) : t[i] = r[i]
    BY <1>4, <2>1, <2>2, <2>3
  <2>5. t = r
    BY <2>1, <2>2, <2>4, SeqEqual
  <2> QED
    BY <2>5 DEF t
<1>7. SubSeq(s, 1, Len(b)) = b
  <2> DEFINE t == SubSeq(s, 1, Len(b))
  <2>1. /\ t \in Seq(S)
        /\ Len(t) = IF 1 <= Len(b) THEN Len(b) - 1 + 1 ELSE 0
        /\ \A i \in 1..Len(b) - 1 + 1 : t[i] = s[1 + i - 1]
    <3>1. 1 \in Int /\ Len(b) \in Int /\ \A i \in 1..Len(b) : i \in 1..Len(s)
      BY <1>1, <1>2
    <3>2. \A i \in 1..Len(b) : s[i] \in S
      BY <1>5, <3>1
    <3> QED
      BY <3>1, <3>2, SubSeqProperties
  <2>2. Len(b) - 1 + 1 = Len(b) /\ Len(t) = Len(b) /\ \A i \in 1..Len(b) : 1 + i - 1 = i
    BY <1>1, <2>1
  <2> HIDE DEF t
  <2>3. \A i \in 1..Len(t) : t[i] = b[i]
    BY <1>3, <2>1, <2>2
  <2>4. t = b
    BY <2>1, <2>2, <2>3, SeqEqual
  <2> QED
    BY <2>4 DEF t
<1> QED
  BY <1>1, <1>2, <1>3, <1>4, <1>6, <1>7 DEF s

-----------------------------------------------------------------------------
(* -------- The steps of the queue -------- *)

(* What comes before and after a step, and the steps of the queue.         *)
Blank(b) == b \in Seq(Item) /\ \A i \in 1..Len(b) : b[i] = SP

LEMMA Stutters ==
  ASSUME ToCome(stack') = ToCome(stack), Kept(stack') = Kept(stack), pc' = pc, ret' = ret
  PROVE  UNCHANGED TQ!vars
  BY DEF TQ!vars

LEMMA SkipStep ==
  ASSUME NEW b, Blank(b), ToCome(stack') \in Seq(Item), ToCome(stack) \in Seq(Item), ToCome(stack) = b \o ToCome(stack'),
         pc = "gettok", pc' = pc, ret' = ret, Kept(stack') = Kept(stack)
  PROVE  TQ!Skip \/ UNCHANGED TQ!vars
<1>1. PICK s, r \in Seq(Item) : s = ToCome(stack) /\ r = ToCome(stack')
  OBVIOUS
<1>2. b \in Seq(Item) /\ s = b \o r
  BY <1>1 DEF Blank
<1>3. /\ Len(s) = Len(b) + Len(r) /\ Len(b) \in Nat /\ Len(r) \in Nat
      /\ \A i \in 1..Len(b) : s[i] = b[i]
      /\ SubSeq(s, Len(b) + 1, Len(s)) = r
  BY <1>2, PartsOf
<1>4. CASE b = <<>>
  <2>1. s = r
    BY <1>2, <1>4, ConcatEmptySeq
  <2> QED
    BY <1>1, <2>1, Stutters
<1>5. CASE b # <<>>
  <2>1. Len(b) \in 1..Len(s) /\ Len(b) <= Len(s)
    BY <1>2, <1>3, <1>5, EmptySeq
  <2>2. \A i \in 1..Len(b) : s[i] = SP
    BY <1>3 DEF Blank
  <2>3. TQ!Blanks(Len(b)) /\ TQ!After(Len(b)) = r
    BY <1>1, <1>3, <2>1, <2>2 DEF TQ!Blanks, TQ!After
  <2>4. Len(b) \in 1..Len(ToCome(stack))
    BY <1>1, <2>1
  <2>5. ToCome(stack') = TQ!After(Len(b))
    BY <1>1, <2>3
  <2> QED
    BY <2>3, <2>4, <2>5 DEF TQ!Skip
<1> QED
  BY <1>4, <1>5

LEMMA WordStep ==
  ASSUME NEW b, Blank(b), NEW w \in Seq(WordChars), w # <<>>,
         ToCome(stack') \in Seq(Item), ToCome(stack) \in Seq(Item), Bounded(ToCome(stack')), ToCome(stack) = b \o (w \o ToCome(stack')),
         pc = "gettok", Returns("get_tok", w), Kept(stack') = Kept(stack)
  PROVE  TQ!TakeWord
<1>1. PICK s, r \in Seq(Item) : s = ToCome(stack) /\ r = ToCome(stack')
  OBVIOUS
<1>2. b \in Seq(Item) /\ w \in Seq(Item) /\ s = b \o (w \o r)
  <2>1. WordChars \subseteq Item
    BY CharsAre
  <2> QED
    BY <1>1, <2>1, SeqMonotonic DEF Blank
<1>3. w \o r \in Seq(Item) /\ b \o w \in Seq(Item) /\ s = (b \o w) \o r
  BY SMTT(30), <1>2, ConcatProperties, ConcatAssociative
<1> DEFINE n == Len(b)
           m == Len(w)
<1>4. /\ n \in Nat /\ m \in Nat /\ Len(r) \in Nat /\ m # 0 /\ Len(s) = n + m + Len(r) /\ Len(b \o w) = n + m
      /\ Len(s) \in Nat
  <2>1. Len(s) = Len(b \o w) + Len(r) /\ Len(r) \in Nat /\ Len(s) \in Nat
    BY <1>2, <1>3, PartsOf
  <2>2. Len(b \o w) = n + m /\ n \in Nat /\ m \in Nat
    BY <1>2, PartsOf
  <2> QED
    BY <1>2, <2>1, <2>2, EmptySeq
<1>5. \A i \in 1..n : s[i] = b[i]
  BY <1>2, <1>3, PartsOf
<1>6. SubSeq(s, Len(b \o w) + 1, Len(s)) = r /\ \A i \in 1..Len(r) : s[Len(b \o w) + i] = r[i]
  BY SMTT(30), <1>3, PartsOf
<1>7. \A i \in 1..Len(w \o r) : s[n + i] = (w \o r)[i]
  <2>1. PICK z \in Seq(Item) : z = w \o r /\ s = b \o z
    BY <1>2, <1>3
  <2>2. \A i \in 1..Len(z) : (b \o z)[Len(b) + i] = z[i]
    BY <1>2, PartsOf
  <2> QED
    BY <2>1, <2>2
<1>8. /\ Len(w \o r) = m + Len(r) /\ \A i \in 1..m : (w \o r)[i] = w[i]
  BY <1>2, PartsOf
<1>9. \A i \in 1..m : w[i] \in WordChars
  BY ElementOfSeq
<1> HIDE DEF n, m
<1>10. \A i \in 1..m : s[n + i] = w[i] /\ i \in 1..Len(w \o r)
  <2>1. \A i \in 1..m : i \in 1..m + Len(r)
    BY <1>4
  <2> QED
    BY <1>7, <1>8, <2>1
<1>11. \A i \in n + 1..n + m : s[i] \in WordChars
  <2>1. \A i \in n + 1..n + m : i - n \in 1..m /\ n + (i - n) = i
    BY <1>4
  <2> QED
    BY <1>9, <1>10, <2>1
<1>12. SubSeq(s, n + 1, n + m) = w
  <2> DEFINE t == SubSeq(s, n + 1, n + m)
  <2>1. \A i \in n + 1..n + m : s[i] \in Item
    BY <1>11, CharsAre
  <2>2. n + 1 \in Int /\ n + m \in Int
    BY <1>4
  <2>3. t \in Seq(Item) /\ Len(t) = m /\ \A i \in 1..m : t[i] = s[n + i]
    <3>1. PICK lo \in Int, hi \in Int : lo = n + 1 /\ hi = n + m
      BY <2>2
    <3>2. \A i \in lo..hi : s[i] \in Item
      BY <2>1, <3>1
    <3>3. /\ SubSeq(s, lo, hi) \in Seq(Item)
          /\ Len(SubSeq(s, lo, hi)) = IF lo <= hi THEN hi - lo + 1 ELSE 0
          /\ \A i \in 1..hi - lo + 1 : SubSeq(s, lo, hi)[i] = s[lo + i - 1]
      BY <3>2, SubSeqProperties
    <3>4. t = SubSeq(s, lo, hi)
      BY <3>1
    <3> HIDE DEF t
    <3>5. hi - lo + 1 = m /\ lo <= hi /\ \A i \in 1..m : lo + i - 1 = n + i
      BY <1>4, <3>1
    <3>6. t \in Seq(Item) /\ Len(t) = m
      BY <3>3, <3>4, <3>5
    <3>7. ASSUME NEW i \in 1..m PROVE t[i] = s[n + i]
      <4>1. i \in 1..hi - lo + 1 /\ lo + i - 1 = n + i
        BY <3>5
      <4> QED
        BY <3>3, <3>4, <4>1
    <3> QED
      BY <3>6, <3>7
  <2> HIDE DEF t
  <2>5. Len(t) = Len(w) /\ \A i \in 1..Len(t) : t[i] = w[i]
    BY <1>10, <2>3 DEF m
  <2>6. t = w
    BY <1>2, <2>3, <2>5, SeqEqual
  <2> QED
    BY <2>6 DEF t
<1>13. n + m = Len(s) \/ s[n + m + 1] \notin WordChars
  <2>1. CASE r = <<>>
    <3>1. Len(r) = 0
      BY <2>1, EmptySeq
    <3> QED
      BY <1>4, <3>1
  <2>2. CASE r # <<>>
    <3>1. 1 \in 1..Len(r)
      BY <1>4, <2>2, EmptySeq
    <3>2. s[n + m + 1] = r[1]
      BY <1>4, <1>6, <3>1
    <3> QED
      BY <1>1, <2>2, <3>2 DEF Bounded
  <2> QED
    BY <2>1, <2>2
<1>14. TQ!Blanks(n)
  <2>1. n <= Len(s) /\ \A i \in 1..n : s[i] = SP
    <3>1. \A i \in 1..n : b[i] = SP
      BY DEF Blank, n
    <3>2. n <= Len(s)
      BY ONLY <1>4
    <3>3. \A i \in 1..n : s[i] = SP
      BY ONLY <1>5, <3>1
    <3> QED
      BY <3>2, <3>3
  <2> QED
    BY <1>1, <2>1 DEF TQ!Blanks
<1>15. TQ!After(n + m) = r
  BY <1>1, <1>4, <1>6 DEF TQ!After
<1>16. TQ!Returned("get_tok", SubSeq(s, n + 1, n + m))
  BY <1>12 DEF Returns, TQ!Returned
<1>17. n \in 0..Len(s) /\ m \in 1..Len(s) /\ n + m <= Len(s)
  BY <1>4
<1>18. ToCome(stack') = TQ!After(n + m)
  BY <1>1, <1>15
<1> QED
  BY <1>1, <1>11, <1>13, <1>14, <1>16, <1>17, <1>18 DEF TQ!TakeWord

LEMMA ItemStep ==
  ASSUME NEW b, Blank(b), NEW t \in Item, t \notin WordChars \cup {SP},
         ToCome(stack') \in Seq(Item), ToCome(stack) \in Seq(Item), ToCome(stack) = b \o (<<t>> \o ToCome(stack')),
         pc = "gettok", Returns("get_tok", <<t>>), Kept(stack') = Kept(stack)
  PROVE  TQ!TakeItem
<1>1. PICK s, r \in Seq(Item) : s = ToCome(stack) /\ r = ToCome(stack')
  OBVIOUS
<1>0. <<t>> \in Seq(Item) /\ Len(<<t>>) = 1 /\ <<t>>[1] = t
  OBVIOUS
<1>2. PICK w \in Seq(Item) : w = <<t>> /\ Len(w) = 1 /\ w[1] = t
  BY <1>0, Zenon
<1>3. b \in Seq(Item) /\ s = b \o (w \o r)
  BY <1>1, <1>2 DEF Blank
<1>4. w \o r \in Seq(Item) /\ b \o w \in Seq(Item) /\ s = (b \o w) \o r
  <2>1. r \in Seq(Item) /\ w \in Seq(Item)
    OBVIOUS
  <2>2. w \o r \in Seq(Item) /\ b \o w \in Seq(Item)
    BY ONLY <1>3, <2>1, ConcatProperties
  <2> QED
    BY ONLY SMTT(30), <1>3, <2>1, <2>2, ItemsAssociate
<1> DEFINE n == Len(b)
<1>5. /\ n \in Nat /\ Len(r) \in Nat /\ Len(s) = n + 1 + Len(r) /\ Len(b \o w) = n + 1 /\ Len(s) \in Nat
  <2>1. Len(s) = Len(b \o w) + Len(r) /\ Len(r) \in Nat /\ Len(s) \in Nat
    BY <1>3, <1>4, PartsOf
  <2>2. Len(b \o w) = n + Len(w) /\ n \in Nat
    BY <1>3, PartsOf
  <2> QED
    BY <1>2, <2>1, <2>2
<1>6. \A i \in 1..n : s[i] = b[i]
  BY <1>3, <1>4, PartsOf
<1>7. SubSeq(s, Len(b \o w) + 1, Len(s)) = r
  BY <1>4, PartsOf
<1>8. \A i \in 1..Len(w \o r) : s[n + i] = (w \o r)[i]
  <2>1. PICK z \in Seq(Item) : z = w \o r /\ s = b \o z
    BY <1>3, <1>4
  <2>2. \A i \in 1..Len(z) : (b \o z)[Len(b) + i] = z[i]
    <3>1. z \in Seq(Item)
      OBVIOUS
    <3> QED
      BY ONLY <1>3, <3>1, PartsOf
  <2> QED
    BY <2>1, <2>2
<1>9. /\ Len(w \o r) = 1 + Len(r) /\ \A i \in 1..1 : (w \o r)[i] = w[i]
  BY <1>2, <1>3, PartsOf
<1>10. s[n + 1] = t
  <2>1. 1 \in 1..1 + Len(r) /\ 1 \in 1..1
    BY <1>5
  <2> QED
    BY <1>2, <1>8, <1>9, <2>1
<1>11. TQ!Blanks(n)
  <2>1. n <= Len(s) /\ \A i \in 1..n : s[i] = SP
    <3>1. \A i \in 1..n : b[i] = SP
      BY DEF Blank
    <3> HIDE DEF n
    <3> QED
      BY <1>5, <1>6, <3>1
  <2> HIDE DEF n
  <2> QED
    BY <1>1, <2>1 DEF TQ!Blanks
<1> HIDE DEF n
<1>12. ToCome(stack') = TQ!After(n + 1)
  BY <1>1, <1>5, <1>7 DEF TQ!After
<1>13. n \in 0..Len(s) /\ n < Len(s)
  BY <1>5
<1>14. TQ!Returned("get_tok", <<s[n + 1]>>)
  BY <1>10 DEF Returns, TQ!Returned
<1> QED
  BY <1>1, <1>10, <1>11, <1>12, <1>13, <1>14 DEF TQ!TakeItem

LEMMA EoiStep ==
  ASSUME Blank(ToCome(stack)), ToCome(stack') = <<>>, Kept(stack') = Kept(stack), Returns("get_tok", EOI),
         pc = "gettok" \/ (ToCome(stack) = <<>> /\ Kept(stack) \in {NONE, EOI})
  PROVE  TQ!TakeEoi
<1>1. Len(ToCome(stack)) \in Nat
  BY LenProperties DEF Blank
<1>2. TQ!Blanks(Len(ToCome(stack)))
  BY <1>1 DEF Blank, TQ!Blanks
<1>3. TQ!Returned("get_tok", EOI)
  BY DEF Returns, TQ!Returned
<1> QED
  BY <1>2, <1>3 DEF TQ!TakeEoi

(* The invariant of the order, beside IInv.                                *)
Ordered ==
  /\ Linked(stack) /\ stack # <<>> /\ pc \in {"idle", "gettok"}
  /\ pc = "gettok" => ctx.tok # EOF /\ ~ctx.ungot
  /\ ctx.ungot => ctx.tok # NONE
  /\ pc = "idle" /\ ret.call = "get_tok" => ret.val = ctx.tok /\ ctx.tok # NONE

LEMMA SpentIs ==
  ASSUME NEW c \in Context, Neat(c), Spent(c), NEW top \in BOOLEAN
  PROVE  Coming(c, top) = Ending(c, top) /\ Ending(c, top) \in Seq(Item)
<1>1. /\ Segs(c) \in Seq(Item) /\ Ending(c, top) \in Seq(Item)
      /\ Coming(c, top) = TextAt(c, c.lptr) \o Later(c, top)
  BY ComingIs
<1>2. TextAt(c, c.lptr) = <<>> /\ Segs(c) = <<>> /\ Drained(c) = <<>>
  BY LineIs, SegsType DEF Spent, Neat, Drained
<1>3. <<>> \o Ending(c, top) = Ending(c, top)
  BY <1>1, ConcatEmptySeq
<1>4. Later(c, top) = Ending(c, top)
  BY <1>2, <1>3 DEF Later
<1> QED
  BY <1>1, <1>2, <1>3, <1>4

LEMMA StickyOrdered ==
  ASSUME IInv, Ordered, GetTokSticky
  PROVE  Ordered' /\ TQ!Next
<1>1. pc = "idle" /\ ctx.tok = EOI /\ stack' = stack /\ Returns("get_tok", EOI)
  BY DEF GetTokSticky
<1>2. /\ ctx \in Context /\ Neat(ctx) /\ Tail(stack) = <<>> /\ Len(stack) = 1
      /\ ToCome(stack) = Coming(ctx, TRUE) \o Under(Tail(stack))
  BY <1>1, LinkOff, FromTop DEF Ordered, ctx, Link
<1>3. Coming(ctx, TRUE) = Ending(ctx, TRUE)
  BY <1>1, <1>2, SpentIs DEF Neat, Shaped
<1>4. ~ctx.want
  <2>1. stack[1] = Head(stack)
    BY OnTop DEF IInv
  <2> QED
    BY <1>2, <2>1 DEF IInv, Good, ctx
<1>5. Under(Tail(stack)) = <<>>
  BY <1>2, LinkOff, UnderType DEF Ordered
<1>6. ToCome(stack) = <<>>
  BY <1>2, <1>3, <1>4, <1>5, EmptySeq, ConcatEmptySeq DEF Ending
<1>7. ToCome(stack') = <<>> /\ Kept(stack') = Kept(stack) /\ Kept(stack) \in {NONE, EOI}
  BY <1>1, <1>6 DEF Kept, ctx
<1>8. Blank(ToCome(stack))
  <2>1. \A i \in 1..0 : FALSE
    OBVIOUS
  <2> QED
    BY <1>6, <2>1, EmptySeq DEF Blank
<1>9. TQ!TakeEoi
  BY <1>1, <1>6, <1>7, <1>8, EoiStep
<1>10. Ordered'
  BY <1>1, TokensDiffer DEF Ordered, Returns, ctx
<1> QED
  BY <1>9, <1>10 DEF TQ!Next

LEMMA UngotOrdered ==
  ASSUME Ordered, GetTokUngot
  PROVE  Ordered' /\ TQ!Next
<1> DEFINE f == [ctx EXCEPT !.ungot = FALSE]
           s == <<f>> \o Tail(stack)
<1>1. pc = "idle" /\ ctx.ungot /\ stack' = s /\ Returns("get_tok", ctx.tok) /\ ctx.tok # NONE
  BY DEF GetTokUngot, Set, Ordered
<1>2. /\ Linked(s) /\ s # <<>> /\ Head(s) = f /\ ToCome(s) = ToCome(stack)
      /\ f.tok = ctx.tok /\ f.ungot = FALSE
  BY UngotIs DEF Ordered, ctx
<1> HIDE DEF s, f
<1>3. Kept(stack) = ctx.tok /\ Kept(stack') = NONE
  BY <1>1, <1>2 DEF Kept, ctx
<1>4. Ordered'
  BY <1>1, <1>2 DEF Ordered, Returns, ctx
<1>5. TQ!Returned("get_tok", Kept(stack))
  BY <1>1, <1>3 DEF Returns, TQ!Returned
<1>6. TQ!TakePut
  BY <1>1, <1>2, <1>3, <1>5 DEF TQ!TakePut
<1> QED
  BY <1>4, <1>6 DEF TQ!Next

LEMMA UngetOrdered ==
  ASSUME Ordered, UngetCurrent
  PROVE  Ordered' /\ TQ!Next
<1> DEFINE f == [ctx EXCEPT !.ungot = TRUE]
           s == <<f>> \o Tail(stack)
<1>1. /\ pc = "idle" /\ ~ctx.ungot /\ stack' = s /\ Returns("unget", ctx.tok)
      /\ ret.call = "get_tok" /\ ret.val = ctx.tok /\ ctx.tok # NONE
  BY DEF UngetCurrent, Set, Ordered
<1>2. /\ Linked(s) /\ s # <<>> /\ Head(s) = f /\ ToCome(s) = ToCome(stack)
      /\ f.tok = ctx.tok /\ f.ungot = TRUE
  BY UngotIs DEF Ordered, ctx
<1> HIDE DEF s, f
<1>3. Kept(stack') = ctx.tok
  BY <1>1, <1>2 DEF Kept, ctx
<1>4. Ordered'
  BY <1>1, <1>2 DEF Ordered, Returns, ctx
<1>5. TQ!Returned("unget", ret.val)
  BY <1>1 DEF Returns, TQ!Returned
<1>6. TQ!Unget
  BY <1>1, <1>2, <1>3, <1>5 DEF TQ!Unget
<1> QED
  BY <1>4, <1>6 DEF TQ!Next

LEMMA GetTokOrdered ==
  ASSUME IInv, Ordered, GetTok
  PROVE  Ordered' /\ TQ!Next
<1>1. /\ pc = "idle" /\ pc' = "gettok" /\ ~ctx.ungot /\ ret' = ret
      /\ stack' = IF ctx.tok = EOF THEN Tail(stack) ELSE stack
  BY DEF GetTok
<1>2. Kept(stack) = NONE
  BY <1>1 DEF Kept, ctx
<1>3. CASE ctx.tok = EOF
  <2>1. ctx \in Context /\ Neat(ctx) /\ Spent(ctx) /\ ctx.want
    BY <1>3, LinkOff DEF Ordered, ctx, Neat, Shaped, Sound
  <2>2. Tail(stack) # <<>>
    BY <2>1, Below DEF IInv, ctx
  <2>3. Linked(Tail(stack)) /\ Head(Tail(stack)).tok # EOF /\ ~Head(Tail(stack)).ungot
    BY <2>2, LinkOff DEF Ordered, Link
  <2>4. ToCome(stack) = Coming(ctx, TRUE) \o Under(Tail(stack))
    BY FromTop DEF Ordered, ctx
  <2>5. Coming(ctx, TRUE) = <<>>
    BY <1>3, <2>1, SpentIs DEF Ending
  <2>6. ToCome(Tail(stack)) = Under(Tail(stack)) /\ Under(Tail(stack)) \in Seq(Item)
    BY <2>2, <2>3, FromTop, UnderType
  <2>7. ToCome(stack') = ToCome(stack)
    BY <1>1, <1>3, <2>4, <2>5, <2>6, ConcatEmptySeq
  <2>8. Kept(stack') = NONE
    BY <1>1, <1>3, <2>3 DEF Kept
  <2>9. Ordered'
    BY <1>1, <1>3, <2>2, <2>3 DEF Ordered, ctx
  <2>10. TQ!Begin
    BY <1>1, <1>2, <2>7, <2>8 DEF TQ!Begin
  <2> QED
    BY <2>9, <2>10 DEF TQ!Next
<1>4. CASE ctx.tok # EOF
  <2>1. stack' = stack
    BY <1>1, <1>4
  <2>2. Ordered'
    BY <1>1, <1>4, <2>1 DEF Ordered, ctx
  <2>3. TQ!Begin
    BY <1>1, <1>2, <2>1 DEF TQ!Begin
  <2> QED
    BY <2>2, <2>3 DEF TQ!Next
<1> QED
  BY <1>3, <1>4

LEMMA TextOrdered ==
  ASSUME CallerMay = {}, Ordered, NEW txt \in Seq(Chars), txt # <<>>, NEW call, UngetText(call, txt)
  PROVE  Ordered' /\ TQ!Next
<1> DEFINE st == Melt(stack)
           s == WithText(st, txt)
<1>1. /\ pc = "idle" /\ MeltKept /\ stack' = s /\ Returns("put", txt)
      /\ CallerKeeps(st, NONE, Len(txt))
  BY DEF UngetText, MayPut
<1>2. /\ Linked(st) /\ st # <<>> /\ ~Head(st).ungot /\ Head(st).tok # EOF
      /\ ToCome(st) = TQ!AsText(Kept(stack)) \o ToCome(stack)
  BY <1>1, MeltIs DEF Ordered
<1> HIDE DEF st
<1>3. SafeText(Head(st), Len(txt))
  BY <1>1 DEF CallerKeeps
<1>4. /\ Linked(s) /\ s # <<>> /\ ~Head(s).ungot /\ Head(s).tok # EOF
      /\ ToCome(s) = txt \o ToCome(st)
  BY <1>2, <1>3, WithTextIs
<1> HIDE DEF s
<1>5. Kept(stack') = NONE
  BY <1>1, <1>4 DEF Kept
<1>6. ret'.val = txt /\ ret' = [call |-> "put", val |-> ret'.val] /\ pc' = "idle"
  BY <1>1 DEF Returns
<1>7. Ordered'
  BY <1>1, <1>4, <1>6 DEF Ordered, ctx
<1>8. ToCome(stack') = ret'.val \o TQ!Melted
  BY <1>1, <1>2, <1>4, <1>6 DEF TQ!Melted
<1>9. TQ!Returned("put", ret'.val)
  BY <1>6 DEF TQ!Returned
<1>10. TQ!PutIn
  BY <1>1, <1>5, <1>8, <1>9 DEF TQ!PutIn
<1> QED
  BY <1>7, <1>10 DEF TQ!Next

LEMMA StrOrdered ==
  ASSUME CallerMay = {}, Ordered, UngetStr \/ UngetCh \/ UngetTokText
  PROVE  Ordered' /\ TQ!Next
<1>1. \A txt \in Texts : txt \in Seq(Chars) /\ txt # <<>>
  BY PushBackConstants DEF Chars
<1>2. ASSUME NEW txt \in Texts PROVE Append(txt, SP) \in Seq(Chars) /\ Append(txt, SP) # <<>>
  <2>1. txt \in Seq(Chars) /\ SP \in Chars
    BY <1>1, CharsAre
  <2>2. Append(txt, SP) \in Seq(Chars) /\ Append(txt, SP) # <<>>
    BY ONLY <2>1, AppendProperties
  <2> QED
    BY <2>2
<1>3. \A ch \in WordChars \cup {SP} : <<ch>> \in Seq(Chars) /\ <<ch>> # <<>>
  BY DEF Chars
<1>4. CASE UngetStr
  <2>1. PICK txt \in Texts : UngetText("uls_unget_str", txt)
    BY <1>4 DEF UngetStr
  <2> QED
    BY <1>1, <2>1, TextOrdered
<1>5. CASE UngetCh
  <2>1. PICK ch \in WordChars \cup {SP} : UngetText("uls_unget_ch", <<ch>>)
    BY <1>5 DEF UngetCh
  <2>2. PICK txt \in Seq(Chars) : txt = <<ch>> /\ txt # <<>>
    BY <1>3
  <2>3. UngetText("uls_unget_ch", txt)
    BY <2>1, <2>2
  <2> QED
    BY <2>2, <2>3, TextOrdered
<1>6. CASE UngetTokText
  <2>1. PICK txt \in Texts : UngetText("uls_unget_tok", Append(txt, SP))
    BY <1>6 DEF UngetTokText
  <2>2. PICK u \in Seq(Chars) : u = Append(txt, SP) /\ u # <<>>
    BY <1>2
  <2>3. UngetText("uls_unget_tok", u)
    BY <2>1, <2>2
  <2> QED
    BY <2>2, <2>3, TextOrdered
<1> QED
  BY <1>4, <1>5, <1>6

(* Reading by character.                                                   *)
LEMMA CharFacts ==
  ASSUME CallerMay = {}, Ordered, MeltKept
  PROVE  LET st == Melt(stack)
             s  == Peeked(st)
         IN /\ ~PeekFails(st)
            /\ Linked(st) /\ st # <<>> /\ ~Head(st).ungot /\ Head(st).tok # EOF
            /\ ToCome(st) = TQ!Melted /\ TQ!Melted \in Seq(Item)
            /\ Linked(s) /\ s # <<>> /\ ~Head(s).ungot /\ Head(s).tok # EOF
            /\ ToCome(s) \in {TQ!Melted, <<SP>> \o TQ!Melted}
            /\ At(Head(st), Head(st).lptr) # NUL => s = st
            /\ At(Head(st), Head(st).lptr) = NUL => At(Head(s), Head(s).lptr) = NUL
<1> DEFINE st == Melt(stack)
           s == Peeked(st)
<1>1. /\ Linked(st) /\ st # <<>> /\ ~Head(st).ungot /\ Head(st).tok # EOF
      /\ ToCome(st) = TQ!AsText(Kept(stack)) \o ToCome(stack)
  BY MeltIs DEF Ordered
<1>2. ToCome(st) = TQ!Melted
  BY <1>1 DEF TQ!Melted
<1> HIDE DEF st
<1>3. ~PeekFails(st)
  <2>1. Head(st) \in Context /\ Sound(Head(st))
    BY <1>1, LinkOff DEF Neat
  <2> QED
    BY <2>1, SlotHolds DEF PeekFails
<1>4. ToCome(st) \in Seq(Item)
  BY <1>1, FromTop
<1>5. /\ Linked(s) /\ s # <<>> /\ Head(s).tok = Head(st).tok /\ Head(s).ungot = Head(st).ungot
      /\ ToCome(s) \in {ToCome(st), <<SP>> \o ToCome(st)}
      /\ At(Head(st), Head(st).lptr) # NUL => s = st
      /\ At(Head(st), Head(st).lptr) = NUL => At(Head(s), Head(s).lptr) = NUL
  BY <1>1, PeekedIs
<1> HIDE DEF s
<1> QED
  BY <1>1, <1>2, <1>3, <1>4, <1>5 DEF st, s

(* The first of two parts, when it is one item.                            *)
LEMMA FirstOf ==
  ASSUME NEW S, NEW x \in S, NEW r \in Seq(S)
  PROVE  <<x>> \o r # <<>> /\ Head(<<x>> \o r) = x /\ Tail(<<x>> \o r) = r
  BY InFront

LEMMA PeekOrdered ==
  ASSUME CallerMay = {}, Ordered, PeekCh
  PROVE  Ordered' /\ TQ!Next
<1> DEFINE st == Melt(stack)
           s == Peeked(st)
           ch == At(Head(st), Head(st).lptr)
<1>1. pc = "idle" /\ MeltKept
  BY DEF PeekCh, PeekOrGet
<1>2. /\ ~PeekFails(st)
      /\ Linked(st) /\ st # <<>> /\ ~Head(st).ungot /\ Head(st).tok # EOF
      /\ ToCome(st) = TQ!Melted /\ TQ!Melted \in Seq(Item)
      /\ Linked(s) /\ s # <<>> /\ ~Head(s).ungot /\ Head(s).tok # EOF
      /\ ToCome(s) \in {TQ!Melted, <<SP>> \o TQ!Melted}
      /\ ch # NUL => s = st
  BY <1>1, CharFacts
<1>3. stack' = s /\ Returns("peek_ch", CharAt(st))
  BY <1>2 DEF PeekCh, PeekOrGet
<1>4. CharAt(st) = IF ch = NUL THEN NONE ELSE <<ch>>
  BY DEF CharAt
<1>5. ch # NUL => TQ!Melted # <<>> /\ Head(TQ!Melted) = ch
  <2>1. ASSUME ch # NUL PROVE TQ!Melted # <<>> /\ Head(TQ!Melted) = ch
    <3>1. /\ ch # NUL => ch \in Chars /\ ToCome(st) = <<ch>> \o ToCome(After(st))
          /\ ToCome(After(st)) \in Seq(Item)
      BY <1>2, AfterIs
    <3> HIDE DEF ch
    <3>2. ch \in Item
      BY <2>1, <3>1, CharsAre
    <3> QED
      BY <1>2, <2>1, <3>1, <3>2, FirstOf
  <2> QED
    BY <2>1
<1> HIDE DEF st, s, ch
<1>6. Kept(stack') = NONE
  BY <1>2, <1>3 DEF Kept
<1>7. Ordered'
  BY <1>2, <1>3 DEF Ordered, ctx, Returns
<1>8. TQ!Returned("peek_ch", IF ch = NUL THEN NONE ELSE <<ch>>)
  BY <1>3, <1>4 DEF Returns, TQ!Returned
<1>9. TQ!PeekCh
  <2>1. CASE ch = NUL
    BY <1>1, <1>2, <1>3, <1>6, <1>8, <2>1 DEF TQ!PeekCh
  <2>2. CASE ch # NUL
    <3>1. ToCome(stack') = TQ!Melted /\ TQ!Returned("peek_ch", <<Head(TQ!Melted)>>) /\ TQ!Melted # <<>>
      BY <1>2, <1>3, <1>5, <1>8, <2>2
    <3> QED
      BY <1>1, <1>6, <3>1 DEF TQ!PeekCh
  <2> QED
    BY <2>1, <2>2
<1> QED
  BY <1>7, <1>9 DEF TQ!Next

LEMMA GetOrdered ==
  ASSUME CallerMay = {}, Ordered, GetCh
  PROVE  Ordered' /\ TQ!Next
<1> DEFINE st == Melt(stack)
           s == Peeked(st)
           a == After(s)
           ch == At(Head(st), Head(st).lptr)
<1>1. pc = "idle" /\ MeltKept
  BY DEF GetCh, PeekOrGet
<1>2. /\ ~PeekFails(st)
      /\ Linked(st) /\ st # <<>> /\ ~Head(st).ungot /\ Head(st).tok # EOF
      /\ ToCome(st) = TQ!Melted /\ TQ!Melted \in Seq(Item)
      /\ Linked(s) /\ s # <<>> /\ ~Head(s).ungot /\ Head(s).tok # EOF
      /\ ToCome(s) \in {TQ!Melted, <<SP>> \o TQ!Melted}
      /\ ch # NUL => s = st
      /\ ch = NUL => At(Head(s), Head(s).lptr) = NUL
  BY <1>1, CharFacts
<1>3. stack' = a /\ Returns("get_ch", CharAt(st))
  BY <1>2 DEF GetCh, PeekOrGet
<1>4. CharAt(st) = IF ch = NUL THEN NONE ELSE <<ch>>
  BY DEF CharAt
<1> HIDE DEF s
<1>5. /\ Linked(a) /\ a # <<>> /\ Head(a).tok = NONE /\ Head(a).ungot = Head(s).ungot
      /\ ToCome(a) \in Seq(Item)
  BY <1>2, AfterIs
<1>6. /\ At(Head(s), Head(s).lptr) = NUL => ToCome(a) = ToCome(s)
      /\ At(Head(s), Head(s).lptr) # NUL => /\ At(Head(s), Head(s).lptr) \in Chars
                                            /\ ToCome(s) = <<At(Head(s), Head(s).lptr)>> \o ToCome(a)
  BY <1>2, AfterIs
<1>7. /\ ch = NUL => ToCome(a) = ToCome(s)
      /\ ch # NUL => ch \in Chars /\ TQ!Melted = <<ch>> \o ToCome(a)
  BY <1>2, <1>6
<1> HIDE DEF st, a, ch
<1>8. ch # NUL => TQ!Melted # <<>> /\ Head(TQ!Melted) = ch /\ Tail(TQ!Melted) = ToCome(a) /\ ch \in WordChars \cup {SP}
  <2>1. ASSUME ch # NUL PROVE TQ!Melted # <<>> /\ Head(TQ!Melted) = ch /\ Tail(TQ!Melted) = ToCome(a)
    <3>1. ch \in Item
      BY <1>7, <2>1, CharsAre
    <3> QED
      BY <1>5, <1>7, <2>1, <3>1, FirstOf
  <2> QED
    BY <1>7, <2>1 DEF Chars
<1>9. Kept(stack') = NONE
  BY <1>2, <1>3, <1>5 DEF Kept
<1>10. Ordered'
  BY <1>2, <1>3, <1>5 DEF Ordered, ctx, Returns
<1>11. TQ!Returned("get_ch", IF ch = NUL THEN NONE ELSE <<ch>>)
  BY <1>3, <1>4 DEF Returns, TQ!Returned
<1>12. TQ!GetCh
  <2>1. CASE ch = NUL
    <3>1. ToCome(stack') \in {TQ!Melted, <<SP>> \o TQ!Melted} /\ TQ!Returned("get_ch", NONE)
      BY <1>2, <1>3, <1>7, <1>11, <2>1
    <3> QED
      BY <1>1, <1>9, <3>1 DEF TQ!GetCh
  <2>2. CASE ch # NUL
    <3>1. /\ ToCome(stack') = Tail(TQ!Melted) /\ TQ!Returned("get_ch", <<Head(TQ!Melted)>>)
          /\ TQ!Melted # <<>> /\ Head(TQ!Melted) \in WordChars \cup {SP}
      BY <1>3, <1>8, <1>11, <2>2
    <3> QED
      BY <1>1, <1>9, <3>1 DEF TQ!GetCh
  <2> QED
    BY <2>1, <2>2
<1> QED
  BY <1>10, <1>12 DEF TQ!Next

(* The end of the blanks that the text at hand begins with.                *)
LEMMA NonBlankIs ==
  ASSUME NEW c \in Context, Neat(c)
  PROVE  /\ NonBlank(c) \in Nat /\ c.lptr <= NonBlank(c) /\ NonBlank(c) <= c.lend
         /\ At(c, NonBlank(c)) # SP
         /\ \A i \in c.lptr..NonBlank(c) - 1 : At(c, i) = SP
         /\ AtNul(c) => NonBlank(c) = c.lend
         /\ At(c, c.lptr) = NUL => AtNul(c)
<1> DEFINE Ends(x) == At(c, x) # SP /\ \A i \in c.lptr..x - 1 : At(c, i) = SP
           end == EndOfText(c, c.lptr)
<1>1. /\ c.lptr \in Nat /\ c.lend \in Nat /\ c.lptr <= c.lend /\ (c.lptr = 0 => c.lend = 0)
      /\ (c.lptr > 0 => end = c.lend) /\ (At(c, c.lptr) = NUL <=> c.lptr = c.lend)
  BY LineIs
<1>2. end = c.lend
  <2>1. c.lptr = 0 => end = 0
    BY DEF EndOfText
  <2> QED
    BY <1>1, <2>1
<1>3. NonBlank(c) = CHOOSE x \in c.lptr..end : Ends(x)
  BY DEF NonBlank
<1> HIDE DEF end
<1>4. At(c, c.lend) = NUL
  BY Fields DEF At, Neat, Sound, Places
<1> DEFINE nb == {x \in c.lptr..c.lend : At(c, x) # SP}
<1>5. PICK x \in nb : \A y \in nb : x <= y
  <2>1. nb \subseteq Nat /\ c.lend \in nb
    BY <1>1, <1>4, Items
  <2> HIDE DEF nb
  <2> QED
    BY <2>1, Least
<1>6. x \in c.lptr..c.lend /\ Ends(x)
  <2>1. \A i \in c.lptr..x - 1 : i \in c.lptr..c.lend /\ i < x
    BY <1>1, <1>5
  <2> QED
    BY <1>5, <2>1
<1> HIDE DEF Ends
<1>7. NonBlank(c) \in c.lptr..c.lend /\ Ends(NonBlank(c))
  BY <1>2, <1>3, <1>6
<1>8. NonBlank(c) \in Nat /\ c.lptr <= NonBlank(c) /\ NonBlank(c) <= c.lend
  BY <1>1, <1>7
<1>9. ASSUME AtNul(c) PROVE NonBlank(c) = c.lend
  <2>1. ASSUME NonBlank(c) # c.lend PROVE FALSE
    <3>1. NonBlank(c) \in c.lptr..c.lend - 1 /\ NonBlank(c) # 0
      BY <1>1, <1>8, <2>1
    <3>2. c.mem[NonBlank(c)] # NUL
      BY <3>1 DEF Neat, Shaped
    <3> QED
      BY <1>9, <3>1, <3>2 DEF AtNul, At
  <2> QED
    BY <2>1
<1>10. ASSUME At(c, c.lptr) = NUL PROVE AtNul(c)
  <2>1. NonBlank(c) = c.lptr
    BY <1>1, <1>8, <1>10
  <2> QED
    BY <1>10, <2>1 DEF AtNul
<1> QED
  BY <1>7, <1>8, <1>9, <1>10 DEF Ends

LEMMA OnlyBlanks ==
  ASSUME NEW c \in Context, Neat(c), AtNul(c)
  PROVE  Blank(TextAt(c, c.lptr))
<1>1. /\ TextAt(c, c.lptr) \in Seq(Item) /\ Len(TextAt(c, c.lptr)) = c.lend - c.lptr
      /\ \A i \in 1..c.lend - c.lptr : TextAt(c, c.lptr)[i] = c.mem[c.lptr + i - 1]
      /\ c.lptr \in Nat /\ c.lend \in Nat /\ (c.lptr = 0 => c.lend = 0)
  BY LineIs
<1>2. \A i \in c.lptr..c.lend - 1 : At(c, i) = SP
  BY NonBlankIs
<1>3. ASSUME NEW i \in 1..c.lend - c.lptr PROVE TextAt(c, c.lptr)[i] = SP
  <2>1. c.lptr + i - 1 \in c.lptr..c.lend - 1 /\ c.lptr + i - 1 # 0
    BY <1>1
  <2>2. c.mem[c.lptr + i - 1] = SP
    BY <1>2, <2>1 DEF At
  <2> QED
    BY <1>1, <2>2
<1> QED
  BY <1>1, <1>3 DEF Blank

LEMMA BlankBoth ==
  ASSUME NEW x, NEW y, Blank(x), Blank(y)
  PROVE  Blank(x \o y)
<1>1. x \in Seq(Item) /\ y \in Seq(Item)
  BY DEF Blank
<1>2. /\ x \o y \in Seq(Item) /\ Len(x \o y) = Len(x) + Len(y) /\ Len(x) \in Nat /\ Len(y) \in Nat
      /\ \A i \in 1..Len(x) : (x \o y)[i] = x[i]
      /\ \A i \in 1..Len(y) : (x \o y)[Len(x) + i] = y[i]
  BY <1>1, PartsOf
<1>3. ASSUME NEW i \in 1..Len(x \o y) PROVE (x \o y)[i] = SP
  <2>1. CASE i <= Len(x)
    <3>1. i \in 1..Len(x)
      BY <1>2, <2>1
    <3> QED
      BY <1>2, <3>1 DEF Blank
  <2>2. CASE ~(i <= Len(x))
    <3>1. i - Len(x) \in 1..Len(y) /\ Len(x) + (i - Len(x)) = i
      BY <1>2, <2>2
    <3> QED
      BY <1>2, <3>1 DEF Blank
  <2> QED
    BY <2>1, <2>2
<1> QED
  BY <1>2, <1>3 DEF Blank

(* Behind a word no word goes on.                                          *)
LEMMA WordEnds ==
  ASSUME NEW st, Linked(st), st # <<>>, ~AtNul(Head(st)),
         NEW d \in Context, Neat(d), d.kind = Head(st).kind, d.want = Head(st).want,
         d.i = Head(st).i, d.n = Head(st).n, At(d, d.lptr) \notin WordChars
  PROVE  Bounded(Coming(d, FALSE) \o Under(Tail(st)))
<1>1. PICK u : u = Under(Tail(st)) /\ u \in Seq(Item)
  BY LinkOff, UnderType
<1> DEFINE e == Ending(d, FALSE)
<1>2. /\ TextAt(d, d.lptr) \in Seq(Item) /\ Segs(d) \in Seq(Item)
      /\ Drained(d) \in Seq(Item) /\ e \in Seq(Item)
      /\ Later(d, FALSE) \in Seq(Item) /\ Coming(d, FALSE) = TextAt(d, d.lptr) \o Later(d, FALSE)
      /\ Coming(d, FALSE) \in Seq(Item)
  BY ComingIs
<1>3. Bounded(TextAt(d, d.lptr))
  <2>1. ASSUME TextAt(d, d.lptr) # <<>> PROVE TextAt(d, d.lptr)[1] \notin WordChars
    <3>1. Len(TextAt(d, d.lptr)) = d.lend - d.lptr /\ d.lend \in Nat /\ d.lptr \in Nat /\ (d.lptr = 0 => d.lend = 0)
          /\ \A i \in 1..d.lend - d.lptr : TextAt(d, d.lptr)[i] = d.mem[d.lptr + i - 1]
      BY LineIs
    <3>2. Len(TextAt(d, d.lptr)) \in Nat \ {0}
      BY <1>2, <2>1, EmptySeq
    <3>3. 1 \in 1..d.lend - d.lptr /\ d.lptr + 1 - 1 = d.lptr /\ d.lptr # 0
      BY <3>1, <3>2
    <3>4. TextAt(d, d.lptr)[1] = At(d, d.lptr)
      BY <3>1, <3>3 DEF At
    <3> QED
      BY <3>4
  <2> QED
    BY <2>1 DEF Bounded
<1>4. Bounded(Segs(d)) /\ (Segs(d) = <<>> => ~(d.i < d.n))
  <2>1. CASE d.i < d.n
    BY <2>1, SegsLong DEF Neat
  <2>2. CASE ~(d.i < d.n)
    BY <2>2 DEF Segs, Bounded
  <2> QED
    BY <2>1, <2>2
<1>5. Bounded(Drained(d)) /\ Bounded(e)
  <2>1. <<SP>>[1] = SP /\ SP \notin WordChars /\ EOF[1] \notin WordChars
    BY Items, PushBackConstants
  <2> QED
    BY <2>1 DEF Bounded, Drained, Ending
<1>6. Bounded(Drained(d) \o e) /\ Drained(d) \o e \in Seq(Item)
  BY <1>2, <1>5, BoundFirst, ConcatProperties
<1>7. Bounded(Later(d, FALSE))
  BY <1>2, <1>4, <1>6, BoundFirst DEF Later
<1>8. Bounded(Coming(d, FALSE))
  BY <1>2, <1>3, <1>7, BoundFirst
<1>9. ASSUME Coming(d, FALSE) = <<>> PROVE Bounded(u)
  <2>1. \A s, t \in Seq(Item) : s \o t = <<>> => s = <<>> /\ t = <<>>
    BY ConcatEqualIffEmpty
  <2>2. Later(d, FALSE) = <<>>
    BY <1>2, <1>9, <2>1
  <2>3. Segs(d) = <<>> /\ Drained(d) \o e = <<>>
    BY <1>2, <1>6, <2>1, <2>2 DEF Later
  <2>4. Drained(d) = <<>> /\ e = <<>>
    BY <1>2, <2>1, <2>3
  <2>5. ~d.want /\ (IsUnget(d) => d.n # 0)
    <3>1. EOF # <<>>
      BY TokensDiffer
    <3>2. <<SP>> # <<>>
      OBVIOUS
    <3> QED
      BY <2>4, <3>1, <3>2 DEF Ending, Drained
  <2>6. CASE Tail(st) = <<>>
    BY <1>1, <2>6, LinkOff, UnderType DEF Bounded
  <2>7. CASE Tail(st) # <<>>
    <3>1. Link(Head(st), Head(Tail(st))) /\ Head(st) \in Context /\ Neat(Head(st)) /\ Linked(Tail(st))
      BY <2>7, LinkOff
    <3>2. ~Closed(Head(st))
      <4>1. ~(Head(st).i < Head(st).n)
        BY <1>4, <2>3
      <4>2. At(Head(st), Head(st).lptr) # NUL
        BY <3>1, NonBlankIs
      <4> QED
        BY <4>1, <4>2 DEF Closed
    <3>3. IsUnget(Head(st)) /\ Head(st).n > 0
      <4>1. IsUnget(Head(st)) /\ Head(st).n # 0
        BY <2>5, <3>1 DEF Link, IsUnget
      <4>2. Head(st).n \in Nat
        BY <3>1, Fields
      <4> QED
        BY <4>1, <4>2
    <3>4. Starts(Head(Tail(st))) /\ (IsUnget(Head(Tail(st))) => Head(Tail(st)).i = 0)
      BY <3>1, <3>2, <3>3 DEF Link
    <3> QED
      BY <1>1, <3>1, <3>4, Boundary
  <2> QED
    BY <2>6, <2>7
<1> HIDE DEF e
<1> QED
  BY <1>1, <1>2, <1>8, <1>9, BoundFirst

LEMMA AllWord ==
  ASSUME NEW w \in Seq(Chars), ToSet(w) \subseteq WordChars, w # <<>>
  PROVE  w \in Seq(WordChars) /\ w \in Seq(Item) /\ w \in Tokens /\ w \notin {EOF, EOI, NONE}
<1>1. Len(w) \in Nat \ {0} /\ DOMAIN w = 1..Len(w) /\ w \in [1..Len(w) -> Chars]
  BY EmptySeq, LenProperties
<1>2. \A i \in 1..Len(w) : w[i] \in WordChars
  BY <1>1 DEF ToSet
<1>3. w \in [1..Len(w) -> WordChars]
  BY <1>1, <1>2
<1>4. w \in Seq(WordChars)
  BY <1>1, <1>3
<1>5. w[1] \in WordChars
  BY <1>1, <1>2
<1> QED
  BY <1>4, <1>5, TokensDiffer, CharsAre, SeqMonotonic DEF Tokens

LEMMA ScanFacts ==
  ASSUME Ordered, pc = "gettok"
  PROVE  /\ ctx \in Context /\ Neat(ctx) /\ ctx = Head(stack) /\ ctx.tok # EOF /\ ctx.ungot = FALSE
         /\ Linked(stack) /\ stack # <<>>
         /\ ToCome(stack) = Coming(ctx, FALSE) \o Under(Tail(stack)) /\ ToCome(stack) \in Seq(Item)
         /\ Under(Tail(stack)) \in Seq(Item) /\ Kept(stack) = NONE
         /\ Tail(stack) # <<>> => Link(ctx, Head(Tail(stack)))
         /\ (Tail(stack) = <<>> => ~IsUnget(ctx) /\ Under(Tail(stack)) = <<>>)
         /\ (Tail(stack) = <<>> <=> Len(stack) = 1)
<1>1. Linked(stack) /\ stack # <<>> /\ ctx.tok # EOF /\ ~ctx.ungot
  BY DEF Ordered
<1>2. /\ ctx \in Context /\ Neat(ctx) /\ Linked(Tail(stack))
      /\ Tail(stack) # <<>> => Link(ctx, Head(Tail(stack)))
      /\ Tail(stack) = <<>> => ~IsUnget(ctx)
      /\ Tail(stack) = <<>> <=> Len(stack) = 1
  BY <1>1, LinkOff DEF ctx
<1>3. /\ ToCome(stack) = Coming(ctx, TRUE) \o Under(Tail(stack)) /\ ToCome(stack) \in Seq(Item)
  BY <1>1, FromTop DEF ctx
<1>4. Coming(ctx, TRUE) = Coming(ctx, FALSE)
  BY <1>1, <1>2, ComingIs
<1>5. Under(Tail(stack)) \in Seq(Item) /\ (Tail(stack) = <<>> => Under(Tail(stack)) = <<>>)
  BY <1>2, UnderType
<1>6. ctx.ungot = FALSE
  BY <1>1, <1>2, Fields
<1> QED
  BY <1>1, <1>2, <1>3, <1>4, <1>5, <1>6 DEF ctx, Kept

(* A word: the blanks before it and it itself are passed over.             *)
LEMMA WordOrdered ==
  ASSUME Ordered, ScanWord
  PROVE  Ordered' /\ TQ!Next
<1> DEFINE c == ctx
           p == NonBlank(c)
           u == Under(Tail(stack))
<1>1. pc = "gettok" /\ ~AtNul(c)
  BY DEF ScanWord
<1>2. PICK e \in p + 1..EndOfText(c, c.lptr) :
        LET w == SubSeq(c.mem, p, e - 1)
        IN /\ ToSet(w) \subseteq WordChars /\ At(c, e) \notin WordChars
           /\ Set([c EXCEPT !.lptr = e, !.tok = w]) /\ Returns("get_tok", w)
  BY DEF ScanWord
<1>3. /\ c \in Context /\ Neat(c) /\ c = Head(stack) /\ c.ungot = FALSE /\ Linked(stack) /\ stack # <<>>
      /\ ToCome(stack) = Coming(c, FALSE) \o u /\ ToCome(stack) \in Seq(Item) /\ u \in Seq(Item)
      /\ Kept(stack) = NONE
      /\ Tail(stack) # <<>> => Link(c, Head(Tail(stack)))
  BY <1>1, ScanFacts
<1> DEFINE w == SubSeq(c.mem, p, e - 1)
<1>4. ToSet(w) \subseteq WordChars /\ At(c, e) \notin WordChars /\ Returns("get_tok", w)
      /\ stack' = <<[c EXCEPT !.lptr = e, !.tok = w]>> \o Tail(stack)
  BY <1>2 DEF Set
<1> HIDE DEF c, u, p
<1>5. /\ c.lptr \in Nat /\ c.lend \in Nat /\ (c.lptr > 0 => EndOfText(c, c.lptr) = c.lend) /\ (c.lptr = 0 => c.lend = 0)
      /\ (At(c, c.lptr) = NUL <=> c.lptr = c.lend)
  BY <1>3, LineIs
<1>6. /\ p \in Nat /\ c.lptr <= p /\ p <= c.lend /\ \A i \in c.lptr..p - 1 : At(c, i) = SP
      /\ At(c, c.lptr) # NUL
  BY <1>1, <1>3, NonBlankIs DEF p
<1>7. c.lptr > 0 /\ EndOfText(c, c.lptr) = c.lend
  <2>1. c.lptr # 0
    BY <1>6 DEF At
  <2> QED
    BY <1>5, <2>1
<1>8. e \in Nat /\ p < e /\ e <= c.lend
  BY <1>2, <1>5, <1>6, <1>7
<1> DEFINE d0 == [c EXCEPT !.lptr = p]
           b  == SubSeq(c.mem, c.lptr, p - 1)
           d  == [d0 EXCEPT !.lptr = e]
<1>9. /\ d0 \in Context /\ Neat(d0) /\ b \in Seq(Chars) /\ b \in Seq(Item) /\ Len(b) = p - c.lptr
      /\ \A i \in 1..p - c.lptr : b[i] = c.mem[c.lptr + i - 1]
      /\ \A top \in BOOLEAN : Coming(c, top) = b \o Coming(d0, top)
  BY <1>3, <1>6, MoveNeat
<1>10. Coming(c, FALSE) = b \o Coming(d0, FALSE)
  BY <1>9
<1>11. d0.lptr = p /\ d0.lend = c.lend /\ d0.mem = c.mem
  BY <1>3 DEF Context
<1>12. /\ d.kind = c.kind /\ d.want = c.want /\ d.mem = c.mem /\ d.slot = c.slot /\ d.i = c.i /\ d.n = c.n
       /\ d.lptr = e /\ d.line = c.line /\ d.ungot = c.ungot
  BY <1>3 DEF Context
<1>13. [c EXCEPT !.lptr = e, !.tok = w] = [d EXCEPT !.tok = w]
  BY <1>3 DEF Context
<1> HIDE DEF d0
<1>14. d0.lptr <= e /\ e <= d0.lend
  BY <1>5, <1>6, <1>8, <1>11
<1>15. /\ d \in Context /\ Neat(d) /\ SubSeq(d0.mem, d0.lptr, e - 1) \in Seq(Chars)
       /\ Len(SubSeq(d0.mem, d0.lptr, e - 1)) = e - d0.lptr
       /\ \A top \in BOOLEAN : Coming(d0, top) = SubSeq(d0.mem, d0.lptr, e - 1) \o Coming(d, top)
  BY <1>8, <1>9, <1>14, MoveNeat
<1>16. SubSeq(d0.mem, d0.lptr, e - 1) = w
  BY <1>11
<1> HIDE DEF w, d
<1>17. w \in Seq(Chars) /\ Len(w) = e - p /\ Coming(d0, FALSE) = w \o Coming(d, FALSE)
  BY <1>11, <1>15, <1>16
<1>18. w # <<>>
  <2>1. Len(w) # 0
    BY <1>6, <1>8, <1>17
  <2> QED
    BY <2>1, EmptySeq
<1>19. w \in Seq(WordChars) /\ w \in Seq(Item) /\ w \in Tokens /\ w \notin {EOF, EOI, NONE}
  BY <1>4, <1>17, <1>18, AllWord
<1>20. Tail(stack) # <<>> /\ IsUnget(d) => Starts(Head(Tail(stack))) \/ (d.n > 0 => Closed(d))
  <2>1. ASSUME Tail(stack) # <<>>, IsUnget(d), ~Starts(Head(Tail(stack))), d.n > 0 PROVE Closed(d)
    <3>1. Closed(c)
      BY <1>3, <1>12, <2>1 DEF Link, IsUnget
    <3>2. c.i < c.n
      BY <1>6, <3>1 DEF Closed
    <3> QED
      BY <1>12, <3>1, <3>2 DEF Closed
  <2> QED
    BY <2>1
<1> DEFINE f == [d EXCEPT !.tok = w]
           s == <<f>> \o Tail(stack)
<1>21. /\ Linked(s) /\ s # <<>> /\ Head(s) = f /\ f.tok = w /\ f.ungot = d.ungot
       /\ ToCome(s) = Coming(d, FALSE) \o u
  <2>1. d.kind = Head(stack).kind /\ d.want = Head(stack).want
    BY <1>3, <1>12
  <2> QED
    BY <1>3, <1>15, <1>19, <1>20, <2>1, TokenInPlace DEF u
<1>22. stack' = s
  BY <1>4, <1>13
<1> HIDE DEF f, s
<1>23. Bounded(Coming(d, FALSE) \o u)
  <2>1. At(d, d.lptr) \notin WordChars
    BY <1>4, <1>12 DEF At
  <2> QED
    BY <1>1, <1>3, <1>12, <1>15, <2>1, WordEnds DEF u
<1>24. Coming(d, FALSE) \in Seq(Item) /\ ToCome(s) \in Seq(Item)
  BY <1>15, <1>21, ComingIs, FromTop
<1>25. Blank(b)
  <2>1. ASSUME NEW i \in 1..p - c.lptr PROVE b[i] = SP
    <3>1. c.lptr + i - 1 \in c.lptr..p - 1 /\ c.lptr + i - 1 # 0
      BY <1>5, <1>6, <1>7
    <3>2. c.mem[c.lptr + i - 1] = SP
      BY <1>6, <3>1 DEF At
    <3> QED
      BY <1>9, <3>2
  <2> QED
    BY <1>9, <2>1 DEF Blank
<1> HIDE DEF b
<1>26. ToCome(stack) = b \o (w \o ToCome(stack'))
  <2>1. PICK x \in Seq(Item), y \in Seq(Item) : x = b /\ y = Coming(d, FALSE)
    BY <1>9, <1>24
  <2>2. PICK z \in Seq(Item), v \in Seq(Item) : z = w /\ v = u
    BY <1>3, <1>19
  <2>3. (x \o (z \o y)) \o v = x \o (z \o (y \o v))
    <3>1. PICK k \in Seq(Item) : k = z \o y
      BY ConcatProperties
    <3>2. (x \o k) \o v = x \o (k \o v)
      BY ONLY SMTT(30), ItemsAssociate, x \in Seq(Item), k \in Seq(Item), v \in Seq(Item)
    <3>3. (z \o y) \o v = z \o (y \o v)
      BY ONLY SMTT(30), ItemsAssociate, z \in Seq(Item), y \in Seq(Item), v \in Seq(Item)
    <3> QED
      BY <3>1, <3>2, <3>3
  <2> QED
    BY <1>3, <1>10, <1>17, <1>21, <1>22, <2>1, <2>2, <2>3
<1>27. Kept(stack') = NONE
  BY <1>3, <1>12, <1>21, <1>22 DEF Kept
<1>28. TQ!TakeWord
  BY <1>1, <1>3, <1>4, <1>18, <1>19, <1>21, <1>22, <1>23, <1>24, <1>25, <1>26, <1>27, WordStep
<1>29. Ordered'
  BY <1>3, <1>4, <1>12, <1>19, <1>21, <1>22 DEF Ordered, ctx, Returns
<1> QED
  BY <1>28, <1>29 DEF TQ!Next

(* The end of a segment: the literal after it is delivered.                *)
LEMMA SegmentEndOrdered ==
  ASSUME Ordered, ScanSegmentEnd
  PROVE  Ordered' /\ TQ!Next
<1> DEFINE c == ctx
           q == c.slot[c.i].q
           u == Under(Tail(stack))
           d == NextSegment(c)
           b == TextAt(c, c.lptr)
<1>1. pc = "gettok" /\ AtNul(c) /\ c.i < c.n
  BY DEF ScanSegmentEnd
<1>2. /\ c \in Context /\ Neat(c) /\ c = Head(stack) /\ c.ungot = FALSE /\ Linked(stack) /\ stack # <<>>
      /\ ToCome(stack) = Coming(c, FALSE) \o u /\ ToCome(stack) \in Seq(Item) /\ u \in Seq(Item)
      /\ Kept(stack) = NONE
      /\ Tail(stack) # <<>> => Link(c, Head(Tail(stack)))
  BY <1>1, ScanFacts
<1>3. q \in Literals /\ q \notin {NoLit, NilTok}
  BY <1>1, <1>2, SlotHolds DEF Neat
<1>4. stack' = <<[d EXCEPT !.tok = <<q>>]>> \o Tail(stack) /\ Returns("get_tok", <<q>>)
  BY <1>3 DEF ScanSegmentEnd, Set
<1> HIDE DEF c, u
<1>5. /\ d \in Context /\ Neat(d) /\ d.kind = c.kind /\ d.ungot = c.ungot /\ d.want = c.want /\ d.n = c.n
      /\ \A top \in BOOLEAN : Later(c, top) = <<q>> \o Coming(d, top)
      /\ Closed(c) => Closed(d)
  BY <1>1, <1>2, NextNeat
<1> HIDE DEF d
<1>6. Later(c, FALSE) = <<q>> \o Coming(d, FALSE)
  BY <1>5
<1> HIDE DEF q
<1>7. q \in Item /\ q \notin WordChars \cup {SP} /\ <<q>> \in Tokens /\ <<q>> \in Seq(Item) /\ <<q>> \notin {EOF, EOI, NONE}
  <2>1. q \in Item /\ q \notin WordChars \cup {SP} /\ <<q>> # NONE /\ <<q>> # EOF /\ <<q>> \in Seq(Item)
    BY <1>3, Items, PushBackConstants
  <2>2. <<q>> # EOI
    <3>1. EOI[1] \notin Literals
      BY TokensDiffer
    <3>2. <<q>>[1] = q
      OBVIOUS
    <3> QED
      BY <1>3, <3>1, <3>2
  <2>3. <<q>> \in Tokens
    BY <1>3 DEF Tokens
  <2> QED
    BY <2>1, <2>2, <2>3
<1> DEFINE f == [d EXCEPT !.tok = <<q>>]
           s == <<f>> \o Tail(stack)
<1>8. /\ Linked(s) /\ s # <<>> /\ Head(s) = f /\ f.tok = <<q>> /\ f.ungot = d.ungot
      /\ ToCome(s) = Coming(d, FALSE) \o u
  <2>1. d.kind = Head(stack).kind /\ d.want = Head(stack).want
    BY <1>2, <1>5
  <2>2. Tail(stack) # <<>> /\ IsUnget(d) => Starts(Head(Tail(stack))) \/ (d.n > 0 => Closed(d))
    BY <1>2, <1>5 DEF Link, IsUnget
  <2>3. PICK t \in Tokens : t = <<q>> /\ t \in Seq(Item) /\ t \notin {EOF, EOI}
    BY <1>7
  <2>4. LET g == [d EXCEPT !.tok = t]
            z == <<g>> \o Tail(stack)
        IN /\ Linked(z) /\ z # <<>> /\ Head(z) = g /\ g.tok = t /\ g.ungot = d.ungot
           /\ ToCome(z) = Coming(d, FALSE) \o Under(Tail(stack))
    <3>1. /\ Linked(stack) /\ stack # <<>> /\ d \in Context /\ Neat(d)
          /\ t \in Tokens /\ t \in Seq(Item) /\ t \notin {EOF, EOI}
      BY <1>2, <1>5, <2>3
    <3> QED
      BY ONLY <2>1, <2>2, <3>1, TokenInPlace
  <2> QED
    BY <2>3, <2>4 DEF u
<1>9. stack' = s
  BY <1>4
<1> HIDE DEF f, s
<1>10. Blank(b) /\ b \in Seq(Item) /\ Coming(c, FALSE) = b \o Later(c, FALSE)
  BY <1>1, <1>2, OnlyBlanks, ComingIs
<1>11. Coming(d, FALSE) \in Seq(Item) /\ ToCome(s) \in Seq(Item)
  BY <1>5, <1>8, ComingIs, FromTop
<1> HIDE DEF b
<1>12. ToCome(stack) = b \o (<<q>> \o ToCome(stack'))
  <2>1. PICK x \in Seq(Item), y \in Seq(Item), o \in Seq(Item) : x = b /\ y = Coming(d, FALSE) /\ o = <<q>>
    BY <1>7, <1>10, <1>11
  <2>2. PICK v \in Seq(Item) : v = u
    BY <1>2
  <2>3. (x \o (o \o y)) \o v = x \o (o \o (y \o v))
    <3>1. PICK k \in Seq(Item) : k = o \o y
      BY ConcatProperties
    <3>2. (x \o k) \o v = x \o (k \o v)
      BY ONLY SMTT(30), ItemsAssociate, x \in Seq(Item), k \in Seq(Item), v \in Seq(Item)
    <3>3. (o \o y) \o v = o \o (y \o v)
      BY ONLY SMTT(30), ItemsAssociate, o \in Seq(Item), y \in Seq(Item), v \in Seq(Item)
    <3> QED
      BY <3>1, <3>2, <3>3
  <2> QED
    BY <1>2, <1>6, <1>8, <1>9, <1>10, <2>1, <2>2, <2>3
<1>13. Kept(stack') = NONE
  BY <1>2, <1>5, <1>8, <1>9 DEF Kept
<1>14. TQ!TakeItem
  BY <1>1, <1>2, <1>4, <1>7, <1>9, <1>10, <1>11, <1>12, <1>13, ItemStep
<1>15. Ordered'
  BY <1>2, <1>4, <1>5, <1>7, <1>8, <1>9 DEF Ordered, ctx, Returns
<1> QED
  BY <1>14, <1>15 DEF TQ!Next

(* The end of what is at hand: EOF or EOI, or on to the context below.     *)
LEMMA FillOrdered ==
  ASSUME IInv, Ordered, ScanFill
  PROVE  Ordered' /\ (TQ!Next \/ UNCHANGED TQ!vars)
<1> DEFINE c == ctx
           u == Under(Tail(stack))
           d == ClearAndFill(c)
           b == TextAt(c, c.lptr)
<1>1. pc = "gettok" /\ AtNul(c) /\ c.i >= c.n
  BY DEF ScanFill
<1>2. /\ c \in Context /\ Neat(c) /\ c = Head(stack) /\ c.ungot = FALSE /\ Linked(stack) /\ stack # <<>>
      /\ ToCome(stack) = Coming(c, FALSE) \o u /\ ToCome(stack) \in Seq(Item) /\ u \in Seq(Item)
      /\ Kept(stack) = NONE
      /\ Tail(stack) # <<>> => Link(c, Head(Tail(stack)))
      /\ (Tail(stack) = <<>> => ~IsUnget(c) /\ u = <<>>)
      /\ (Tail(stack) = <<>> <=> Len(stack) = 1)
  BY <1>1, ScanFacts
<1>3. /\ c.want => /\ stack' = <<[d EXCEPT !.tok = EOF]>> \o Tail(stack)
                   /\ Returns("get_tok", EOF)
      /\ ~c.want /\ Len(stack) = 1 => /\ stack' = <<[d EXCEPT !.tok = EOI]>> \o Tail(stack)
                                      /\ Returns("get_tok", EOI)
      /\ ~c.want /\ Len(stack) # 1 => stack' = Tail(stack) /\ pc' = pc /\ ret' = ret
  BY DEF ScanFill, Set
<1> HIDE DEF c, u
<1>4. /\ d \in Context /\ Neat(d) /\ d.kind = c.kind /\ d.ungot = c.ungot /\ d.want = c.want
      /\ d.i = c.i /\ d.n = 0 /\ At(d, d.lptr) = NUL
      /\ \A top \in BOOLEAN : Later(c, top) = Drained(c) \o Ending(c, top)
  BY <1>1, <1>2, ClearNeat
<1>5. Later(c, FALSE) = Drained(c) \o Ending(c, FALSE)
  BY <1>4
<1>6. /\ Blank(b) /\ b \in Seq(Item) /\ Coming(c, FALSE) = b \o Later(c, FALSE)
      /\ Drained(c) \in Seq(Item) /\ Ending(c, FALSE) \in Seq(Item)
  BY <1>1, <1>2, OnlyBlanks, ComingIs
<1> HIDE DEF b, d
<1>7. ~IsUnget(c) => /\ ToCome(stack) = (b \o Ending(c, FALSE)) \o u
                     /\ ToCome(stack) = b \o (Ending(c, FALSE) \o u)
  <2>1. ASSUME ~IsUnget(c) PROVE ToCome(stack) = (b \o Ending(c, FALSE)) \o u
    <3>1. Drained(c) = <<>>
      BY <2>1 DEF Drained
    <3>2. Later(c, FALSE) = Ending(c, FALSE)
      BY <1>5, <1>6, <3>1, ConcatEmptySeq
    <3> QED
      BY <1>2, <1>6, <3>2
  <2>2. PICK x \in Seq(Item), y \in Seq(Item), v \in Seq(Item) : x = b /\ y = Ending(c, FALSE) /\ v = u
    BY <1>2, <1>6
  <2>3. (x \o y) \o v = x \o (y \o v)
    BY ONLY ConcatAssociative, x \in Seq(Item), y \in Seq(Item), v \in Seq(Item)
  <2> QED
    BY <2>1, <2>2, <2>3
<1>8. ASSUME NEW t \in {EOF, EOI}, ~IsUnget(c), t = EOF <=> c.want,
             t = EOI => Tail(stack) = <<>>,
             stack' = <<[d EXCEPT !.tok = t]>> \o Tail(stack), Returns("get_tok", t)
      PROVE  Ordered' /\ ToCome(stack') = u /\ Kept(stack') = NONE
  <2> DEFINE f == [d EXCEPT !.tok = t, !.ungot = FALSE]
             s == <<f>> \o Tail(stack)
  <2>1. stack' = s
    <3>1. [d EXCEPT !.tok = t] = f
      BY <1>2, <1>4 DEF Context
    <3> QED
      BY <1>8, <3>1
  <2>2. t \in Tokens /\ t \in Seq(Item) /\ (t = EOF => d.want) /\ t # NONE
    BY <1>4, <1>8, Items, TokensDiffer DEF Tokens
  <2>3. Spent(d)
    <3>1. c.i \in Nat
      BY <1>2, Fields
    <3> QED
      BY <1>4, <1>8, <3>1 DEF Spent, IsUnget
  <2>4. Marked(f, d, t, FALSE)
    BY <1>4, <2>2, <2>3, TokenMarked
  <2>5. f.kind = c.kind /\ f.want = c.want
    BY <1>4 DEF Context
  <2> HIDE DEF f
  <2>6. f \in Context /\ Neat(f) /\ f.tok = t /\ f.ungot = FALSE
    BY <2>4 DEF Marked
  <2>7. Coming(f, TRUE) = <<>>
    <3>1. Spent(f)
      BY <2>6 DEF Neat, Shaped
    <3>2. Coming(f, TRUE) = Ending(f, TRUE)
      BY <2>6, <3>1, SpentIs
    <3> QED
      BY <1>8, <2>5, <2>6, <3>2 DEF Ending
  <2>8. /\ Linked(s) /\ s # <<>> /\ Head(s) = f
        /\ ToCome(s) = Coming(f, TRUE) \o u
    <3>1. f.kind = Head(stack).kind /\ f.want = Head(stack).want /\ ~IsUnget(f)
      BY <1>2, <1>8, <2>5 DEF IsUnget
    <3>2. f.tok # EOI \/ Tail(stack) = <<>>
      BY <1>8, <2>6
    <3> QED
      BY <1>2, <2>6, <3>1, <3>2, InPlace DEF u
  <2> HIDE DEF s
  <2>9. ToCome(s) = u
    BY <1>2, <2>7, <2>8, ConcatEmptySeq
  <2>10. Ordered'
    BY <1>8, <2>1, <2>2, <2>6, <2>8 DEF Ordered, ctx, Returns
  <2>11. Kept(s) = NONE
    BY <2>6, <2>8 DEF Kept
  <2> QED
    BY <2>1, <2>9, <2>10, <2>11
<1>9. CASE c.want
  <2>1. ~IsUnget(c)
    BY <1>2, <1>9 DEF Neat, Shaped, Buffer
  <2>2. EOF # EOI /\ stack' = <<[d EXCEPT !.tok = EOF]>> \o Tail(stack) /\ Returns("get_tok", EOF)
    BY <1>3, <1>9, Items
  <2>3. Ordered' /\ ToCome(stack') = u /\ Kept(stack') = NONE
    BY <1>8, <1>9, <2>1, <2>2
  <2>4. Ending(c, FALSE) = EOF
    BY <1>9 DEF Ending
  <2> DEFINE t == EOF[1]
  <2>5. EOF = <<t>> /\ t \in Item /\ t \notin WordChars \cup {SP}
    BY TokensDiffer DEF Item
  <2> HIDE DEF t
  <2>6. ToCome(stack) = b \o (<<t>> \o ToCome(stack'))
    BY <1>7, <2>1, <2>3, <2>4, <2>5
  <2>7. Returns("get_tok", <<t>>) /\ ToCome(stack') \in Seq(Item) /\ Kept(stack') = Kept(stack)
    BY <1>2, <2>2, <2>3, <2>5
  <2>8. TQ!TakeItem
    BY <1>1, <1>2, <1>6, <2>5, <2>6, <2>7, ItemStep
  <2> QED
    BY <2>3, <2>8 DEF TQ!Next
<1>10. CASE ~c.want /\ Len(stack) = 1
  <2>1. ~IsUnget(c) /\ u = <<>> /\ Tail(stack) = <<>>
    BY <1>2, <1>10
  <2>2. stack' = <<[d EXCEPT !.tok = EOI]>> \o Tail(stack) /\ Returns("get_tok", EOI) /\ EOF # EOI
    BY <1>3, <1>10, Items
  <2>3. Ordered' /\ ToCome(stack') = u /\ Kept(stack') = NONE
    BY <1>8, <1>10, <2>1, <2>2
  <2>4. Ending(c, FALSE) = <<>>
    BY <1>10 DEF Ending
  <2>5. ToCome(stack) = b
    BY <1>6, <1>7, <2>1, <2>4, ConcatEmptySeq
  <2>6. TQ!TakeEoi
    BY <1>1, <1>2, <1>6, <2>1, <2>2, <2>3, <2>5, EoiStep
  <2> QED
    BY <2>3, <2>6 DEF TQ!Next
<1>11. CASE ~c.want /\ Len(stack) # 1
  <2>1. stack' = Tail(stack) /\ pc' = pc /\ ret' = ret /\ Tail(stack) # <<>>
    BY <1>2, <1>3, <1>11
  <2>2. Linked(Tail(stack)) /\ Head(Tail(stack)).tok # EOF /\ ~Head(Tail(stack)).ungot
    BY <1>2, <2>1, LinkOff DEF Link
  <2>3. ToCome(Tail(stack)) = u
    BY <2>1, <2>2, FromTop DEF u
  <2>4. Kept(stack') = Kept(stack)
    BY <1>2, <2>1, <2>2 DEF Kept
  <2>5. Ordered'
    BY <1>1, <2>1, <2>2 DEF Ordered, ctx
  <2>6. Ending(c, FALSE) = <<>>
    BY <1>11 DEF Ending
  <2>7. Later(c, FALSE) = Drained(c)
    BY <1>5, <1>6, <2>6, ConcatEmptySeq
  <2>8. Blank(Drained(c))
    <3>1. /\ <<SP>> \in Seq(Item) /\ Len(<<SP>>) = 1 /\ \A i \in 1..1 : <<SP>>[i] = SP
          /\ <<>> \in Seq(Item) /\ Len(<<>>) = 0 /\ \A i \in 1..0 : FALSE
      BY Items
    <3> QED
      BY <3>1 DEF Blank, Drained
  <2>9. Blank(b \o Drained(c))
    BY <1>6, <2>8, BlankBoth
  <2>10. ToCome(stack) = (b \o Drained(c)) \o ToCome(stack')
    BY <1>2, <1>6, <2>1, <2>3, <2>7
  <2>11. PICK x : x = b \o Drained(c) /\ Blank(x)
    BY <2>9
  <2>12. TQ!Skip \/ UNCHANGED TQ!vars
    BY <1>1, <1>2, <2>1, <2>3, <2>4, <2>10, <2>11, SkipStep
  <2> QED
    BY <2>5, <2>12 DEF TQ!Next
<1> QED
  BY <1>9, <1>10, <1>11

LEMMA NextOrdered ==
  ASSUME CallerMay = {}, IInv, Ordered, [Next]_vars
  PROVE  Ordered' /\ (TQ!Next \/ UNCHANGED TQ!vars)
<1>1. CASE GetTokSticky
  BY <1>1, StickyOrdered
<1>2. CASE GetTokUngot
  BY <1>2, UngotOrdered
<1>3. CASE GetTok
  BY <1>3, GetTokOrdered
<1>4. CASE ScanWord
  BY <1>4, WordOrdered
<1>5. CASE ScanSegmentEnd
  BY <1>5, SegmentEndOrdered
<1>6. CASE ScanFill
  BY <1>6, FillOrdered
<1>7. CASE UngetCurrent
  BY <1>7, UngetOrdered
<1>8. CASE UngetStr \/ UngetCh \/ UngetTokText
  BY <1>8, StrOrdered
<1>9. ~UngetTok
  BY Items DEF UngetTok, CallerKeeps
<1>10. CASE PeekCh
  BY <1>10, PeekOrdered
<1>11. CASE GetCh
  BY <1>11, GetOrdered
<1>12. CASE UNCHANGED vars
  <2>1. stack' = stack /\ pc' = pc /\ ret' = ret
    BY <1>12 DEF vars
  <2>2. Ordered'
    BY <2>1 DEF Ordered, ctx
  <2> QED
    BY <2>1, <2>2, Stutters
<1> QED
  BY <1>1, <1>2, <1>3, <1>4, <1>5, <1>6, <1>7, <1>8, <1>9, <1>10, <1>11, <1>12 DEF Next
-----------------------------------------------------------------------------
(* -------- The theorem of the order -------- *)

(* The caller of the theorem: text is put over none that is still to be    *)
(* read, no literal is put back, and the sources above the lowest one want *)
(* their EOF.  Of memory that no code has written nothing is assumed.      *)
EofsWanted == \A st \in InitialStacks : \A k \in 1..Len(st) - 1 : st[k].want
CarefulCaller == CallerMay = {} /\ EofsWanted

LEMMA FilledNeat ==
  ASSUME NEW c \in Context, Filled(c), Sound(c)
  PROVE  Neat(c) /\ ~IsUnget(c) /\ c.tok = NONE /\ ~c.ungot
<1>1. /\ c.kind # "unget" /\ c.tok = NONE /\ ~c.ungot /\ c.lptr = 1
      /\ c.mem \in Seq(Chars \cup {NUL}) /\ \A p \in 1..c.lend - 1 : c.mem[p] # NUL
  <2>1. WordChars \cup {SP, NUL} = Chars \cup {NUL}
    BY DEF Chars
  <2> QED
    BY <2>1 DEF Filled
<1>2. NONE \in Tokens /\ NONE \notin {EOF, EOI}
  BY TokensDiffer DEF Tokens
<1> QED
  BY <1>1, <1>2 DEF Neat, Shaped, IsUnget

LEMMA InitOrdered ==
  ASSUME EofsWanted, IInv, Init
  PROVE  Ordered /\ TQ!Init
<1>1. /\ stack \in Seq({c \in Context : Filled(c)}) /\ stack # <<>>
      /\ pc = "idle" /\ ret = [call |-> "none", val |-> NONE]
      /\ \A k \in 1..Len(stack) - 1 : stack[k].want
  BY SourcesFilled DEF Init, EofsWanted
<1>2. stack \in Seq(Context) /\ \A k \in 1..Len(stack) : Sound(stack[k])
  BY DEF IInv, Good
<1>3. Len(stack) \in Nat \ {0}
  BY <1>1, <1>2, EmptySeq, LenProperties
<1>4. ASSUME NEW k \in 1..Len(stack)
      PROVE  stack[k] \in Context /\ Neat(stack[k]) /\ ~IsUnget(stack[k]) /\ stack[k].tok = NONE /\ ~stack[k].ungot
  <2>1. stack[k] \in {c \in Context : Filled(c)}
    BY <1>1
  <2>2. PICK c \in Context : c = stack[k] /\ Filled(c) /\ Sound(c)
    BY <1>2, <2>1
  <2> QED
    BY <2>2, FilledNeat
<1>5. NONE \notin {EOF, EOI}
  BY TokensDiffer
<1>6. ASSUME NEW k \in 1..Len(stack) - 1 PROVE Link(stack[k], stack[k + 1])
  <2>1. k \in 1..Len(stack) /\ k + 1 \in 1..Len(stack)
    BY <1>3
  <2>2. /\ stack[k].tok = NONE /\ stack[k + 1].tok = NONE /\ ~stack[k + 1].ungot
        /\ ~IsUnget(stack[k]) /\ ~IsUnget(stack[k + 1])
    BY <1>4, <2>1
  <2> QED
    BY <1>1, <1>5, <2>2 DEF Link
<1>7. Linked(stack)
  <2>1. Len(stack) \in 1..Len(stack)
    BY <1>3
  <2> QED
    BY <1>2, <1>4, <1>6, <2>1 DEF Linked
<1>8. ctx.tok = NONE /\ ~ctx.ungot
  <2>1. ctx = stack[1] /\ 1 \in 1..Len(stack)
    BY <1>2, <1>3, <1>1, HeadAndTail DEF ctx
  <2> QED
    BY <1>4, <2>1
<1>9. Ordered
  BY <1>1, <1>7, <1>8 DEF Ordered
<1>10. Kept(stack) = NONE
  BY <1>8 DEF Kept, ctx
<1>11. TQ!Init
  BY <1>1, <1>10 DEF TQ!Init
<1> QED
  BY <1>9, <1>11

(* What is put back (tokens, texts, characters) is delivered before what   *)
(* was to come, whole, once and in order, whichever buffers and contexts   *)
(* it is kept in and whatever bytes they held: the push-back calls         *)
(* implement the queue of TextQueue.                                       *)
THEOREM PutBackDelivered == CarefulCaller => (Spec => PutBackFirst /\ DeliversPutBack)
<1> SUFFICES ASSUME CarefulCaller PROVE Spec => PutBackFirst /\ DeliversPutBack
  OBVIOUS
<1> DEFINE Excused == LiteralPutBack(stack) \/ LiteralPutBack(stack') \/ TQ!Next
<1>0. CallerMay = {} /\ EofsWanted
  BY DEF CarefulCaller
<1>1. Init => IInv /\ Ordered /\ TQ!Init
  BY <1>0, InitKeeps, InitOrdered
<1>2. IInv /\ Ordered /\ [Next]_vars => IInv' /\ Ordered' /\ (TQ!Next \/ UNCHANGED TQ!vars)
  BY <1>0, NextKeeps, NextOrdered
<1>3. IInv /\ Ordered /\ [Next]_vars => [TQ!Next]_TQ!vars /\ [Excused]_(TQ!vars)
  BY <1>2
<1> QED
  BY <1>1, <1>2, <1>3, PTL DEF Spec, PutBackFirst, DeliversPutBack, TQ!Spec
=============================================================================
