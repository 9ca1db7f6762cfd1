------------------------------ MODULE TokenSpec ------------------------------
(***************************************************************************)
(* Loading a language specification: how uls_create() turns the lines of a *)
(* .ulc file (reserved names renamed, quote types, token lines of four     *)
(* kinds) and of a .uld file (renamings) into the table of tokens, and how *)
(* uls_destroy() releases it.                                              *)
(*                                                                         *)
(* A name is a number, ordered as strcmp() orders the names; 0 is the      *)
(* empty name.  A token is a record in "heap"; "arr" is tokdef_vx_array,   *)
(* its first NRsvd entries the reserved tokens until a .uld is read,       *)
(* "onech" the table of one-character tokens, "view" the token of each     *)
(* keyword and "quotes" the number each quote mark was declared with.      *)
(***************************************************************************)
EXTENDS Naturals, Integers, Sequences, FiniteSets, SequencesExt, Functions

CONSTANTS
  Rsvd,       \* the names of the reserved tokens, in the order of their slots
  RsvdId,     \* ... and their numbers (uls_xcontext_init)
  Names,      \* the names a line may use
  Words,      \* keywords of more than one character, quote marks included
  Chars,      \* the one-character keywords
  Code,       \* ... their character codes
  Dflt,       \* the characters that are tokens though no line names them
  Numbers,    \* the numbers a line may give
  AUTO,       \* the line has no number
  MaxLines    \* bound: lines of one load, those of the .uld included

NRsvd == Len(Rsvd)

ASSUME TokenSpecAssumption ==
  /\ Rsvd \in Seq(Nat \ {0}) /\ NRsvd > 0 /\ IsInjective(Rsvd)
  /\ RsvdId \in Seq(Int) /\ Len(RsvdId) = NRsvd /\ \A r \in 1..NRsvd : RsvdId[r] <= 0
  /\ IsFiniteSet(Chars) /\ Code \in [Chars -> Nat \ {0}] /\ IsInjective(Code)
  /\ Dflt \subseteq Chars /\ Names \subseteq Nat \ {0} /\ Numbers \subseteq Int

VARIABLES heap, arr, onech, view, quotes, seed, phase, lines, nuld, freed, past

table == <<heap, arr, onech, view, quotes>>
vars == <<table, seed, phase, lines, nuld, freed, past>>

(***************************************************************************)
(* "past" is history: the keywords the lines asked for, and the habits     *)
(* under which the code promises less (see the properties).                *)
(***************************************************************************)
Past == [asked : SUBSET (Words \X Names), clash : BOOLEAN, shared : BOOLEAN,
         stopped : BOOLEAN, renamed : BOOLEAN, moved : BOOLEAN,
         bare : BOOLEAN]

Token(id, name, kws, flags) ==
  [id |-> id, name |-> name, aliases |-> {}, base |-> kws, flags |-> flags]

Init ==
  /\ heap = [i \in 1..NRsvd |-> Token(RsvdId[i], Rsvd[i], <<>>, {"RSVD"})]
  /\ arr = [i \in 1..NRsvd |-> i]
  /\ onech = [c \in Chars |-> 0]
  /\ view = [w \in Words |-> 0] /\ quotes = <<>>
  /\ seed = 0 /\ phase = "head" /\ lines = 0 /\ nuld = 0 /\ freed = <<>>
  /\ past = [asked |-> {}, clash |-> FALSE, shared |-> FALSE,
             stopped |-> FALSE, renamed |-> FALSE, moved |-> FALSE,
             bare |-> FALSE]

(***************************************************************************)
(* The searches of uls_conf.c: linear, over the reserved entries, over the *)
(* rest or over both; the first that fits, 0 when none does.               *)
(***************************************************************************)
Bears(t, n) == heap[t].name = n \/ n \in heap[t].aliases
RSVD == 1..NRsvd
REGULAR == (NRsvd + 1)..Len(arr)
BOTH == 1..Len(arr)

First(fit) ==
  IF fit = {} THEN 0 ELSE arr[CHOOSE i \in fit : \A j \in fit : i <= j]

FindByName(n, area) == First({i \in area : Bears(arr[i], n)})
FindById(id, area) == First({i \in area : heap[arr[i]].id = id})
IsReserved(n) == \E t \in RSVD : heap[t].name = n

WithNameReplaced(tok, n) == [tok EXCEPT !.name = n]

(* uls_add_tokdef_vx_name(): the first name, else one alias more.          *)
WithName(tok, n) ==
  IF tok.name = 0 THEN [tok EXCEPT !.name = n]
                  ELSE [tok EXCEPT !.aliases = @ \cup {n}]

(* gen_next_tok_id(): the number given, the character's, or the next.      *)
NextId(num, code) ==
  IF num # AUTO THEN num ELSE IF code # 0 THEN code ELSE seed
NextSeed(num, code) ==
  IF num # AUTO THEN num + 1 ELSE IF code # 0 THEN seed ELSE seed + 1

Coded(id) == \E c \in Chars : Code[c] = id

Note(p) == past' = p
Refuse == phase' = "refused" /\ UNCHANGED <<table, past>>

Line == phase = "body" /\ lines < MaxLines /\ lines' = lines + 1

(***************************************************************************)
(* The header.  RENAME: gives a reserved token another name; QUOTE_TYPE:   *)
(* declares a mark with its number and, if it names one, makes the token.  *)
(* Bound: each mark is declared once.                                      *)
(***************************************************************************)
HeaderLine == phase = "head" /\ lines < MaxLines /\ lines' = lines + 1

Rename(n, n2) ==
  /\ HeaderLine
  /\ LET t == FindByName(n, RSVD)
     IN \/ t = 0 /\ Refuse
        \/ /\ t # 0 /\ heap' = [heap EXCEPT ![t].name = n2]
           /\ Note([past EXCEPT !.clash = @ \/ FindByName(n2, BOTH) # 0])
           /\ UNCHANGED <<arr, onech, view, quotes, phase>>
  /\ UNCHANGED <<seed, nuld, freed>>

NotForQuote(n, num) == FindById(num, RSVD) # 0 \/ FindByName(n, BOTH) # 0

QuoteType(w, n, num) ==
  /\ HeaderLine /\ w \notin DOMAIN quotes
  /\ LET taken == num \in Range(quotes) \/ (n # 0 /\ NotForQuote(n, num))
     IN \/ taken /\ Refuse
        \/ /\ ~taken
           /\ quotes' = [m \in DOMAIN quotes \cup {w} |-> IF m = w THEN num ELSE quotes[m]]
           /\ IF n = 0 THEN UNCHANGED <<heap, arr, view>>
              ELSE /\ heap' = Append(heap, Token(num, n, <<w>>, {}))
                   /\ arr' = Append(arr, Len(heap) + 1)
                   /\ view' = [view EXCEPT ![w] = Len(heap) + 1]
           /\ Note([past EXCEPT
                !.asked = IF n = 0 THEN @ ELSE @ \cup {<<w, n>>},
                !.moved = @ \/ Coded(num), !.bare = @ \/ n = 0])
           /\ UNCHANGED <<onech, phase>>
  /\ UNCHANGED <<seed, nuld, freed>>

(* "%%" ends the header: reset_tokid_seed().                               *)
StartBody ==
  /\ phase = "head" /\ phase' = "body"
  /\ seed' = 1 + (CHOOSE m \in {heap[t].id : t \in RSVD} :
                    \A t \in RSVD : heap[t].id <= m)
  /\ UNCHANGED <<table, lines, nuld, freed, past>>

(***************************************************************************)
(* The token lines.  __ulc_proc_line__reserved(): another number for a     *)
(* reserved token, unless a token of the body has it.                      *)
(***************************************************************************)
ReservedLine(n, num) ==
  /\ Line /\ IsReserved(n)
  /\ seed' = NextSeed(num, 0)
  /\ LET id == NextId(num, 0)
         t == First({r \in RSVD : heap[r].name = n})
     IN \/ FindById(id, REGULAR) # 0 /\ Refuse
        \/ /\ FindById(id, REGULAR) = 0
           /\ heap' = [heap EXCEPT ![t].id = id]
           /\ UNCHANGED <<arr, onech, view, quotes, phase>>
           /\ Note([past EXCEPT !.moved = @ \/ Coded(id)])
  /\ UNCHANGED <<nuld, freed>>

(* __ulc_proc_line__userdef(): a name without a keyword.                   *)
UserLine(n, num) ==
  /\ Line /\ ~IsReserved(n)
  /\ LET t == FindByName(n, BOTH)
         id == NextId(num, 0)
         u == FindById(id, BOTH)
     IN \/ /\ t # 0 /\ num \notin {AUTO, heap[t].id}
           /\ Refuse /\ UNCHANGED seed
        \/ /\ t # 0 /\ num \in {AUTO, heap[t].id}
           /\ UNCHANGED <<table, seed, phase, past>>
        \/ /\ t = 0 /\ seed' = NextSeed(num, 0)
           /\ IF u = 0
                THEN /\ heap' = Append(heap, Token(id, n, <<>>, {}))
                     /\ arr' = Append(arr, Len(heap) + 1)
                ELSE /\ heap' = [heap EXCEPT ![u] = WithName(@, n)]
                     /\ UNCHANGED arr
           /\ Note([past EXCEPT !.clash = @ \/ (u \in RSVD),
                                !.moved = @ \/ Coded(id)])
           /\ UNCHANGED <<onech, view, quotes, phase>>
  /\ UNCHANGED <<nuld, freed>>

(* __ulc_proc_line__1char(): a token of one character.                     *)
CharToken(n, num, c) ==   \* the token the line names: its slot, the heap and array
  LET t == FindByName(n, BOTH)
      id == NextId(num, Code[c])
      u == FindById(id, REGULAR)
      refer(k) == [heap EXCEPT ![k].flags = @ \cup {"REFERRED"}]
  IN IF t # 0 THEN [vx |-> t, heap |-> refer(t), arr |-> arr]
     ELSE IF u # 0
     THEN [vx |-> u, heap |-> [refer(u) EXCEPT ![u] = WithName(@, n)], arr |-> arr]
     ELSE [vx |-> Len(heap) + 1,
           heap |-> Append(heap, Token(id, n, <<>>,
                      IF id = Code[c] THEN {"CHRMAP"} ELSE {"REFERRED"})),
           arr |-> Append(arr, Len(heap) + 1)]

CharLine(n, c, num) ==
  /\ Line /\ ~IsReserved(n)
  /\ LET t == FindByName(n, BOTH)
         new == CharToken(n, num, c)
         id == new.heap[new.vx].id
         mismatch == t # 0 /\ num \notin {AUTO, heap[t].id}
         taken == onech[c] \notin {0, new.vx}   \* by another token
     IN /\ heap' = new.heap /\ arr' = new.arr /\ UNCHANGED <<view, quotes>>
        /\ seed' = IF t = 0 THEN NextSeed(num, Code[c]) ELSE seed
        /\ \/ /\ mismatch \/ taken
              /\ phase' = "refused" /\ UNCHANGED onech
              /\ Note([past EXCEPT !.stopped = TRUE])
           \/ /\ ~mismatch /\ ~taken
              /\ onech' = [onech EXCEPT ![c] = new.vx]
              /\ Note([past EXCEPT
                   !.shared = @ \/ \E d \in Chars \ {c} : onech[d] = new.vx,
                   !.moved = @ \/ FindById(id, RSVD) # 0
                               \/ \E d \in Chars \ {c} : Code[d] = id])
              /\ UNCHANGED phase
  /\ UNCHANGED <<nuld, freed>>

(* __ulc_proc_line__regular(): a keyword for a token, old or new.          *)
WordLine(n, w, num) ==
  /\ Line /\ ~IsReserved(n)
  /\ LET grp == FindByName(n, REGULAR)
         id == IF grp # 0 THEN heap[grp].id ELSE NextId(num, 0)
         old == IF grp # 0 THEN grp ELSE FindById(id, REGULAR)
         mismatch == grp # 0 /\ num \notin {AUTO, heap[grp].id}
         t == IF view[w] # 0 THEN view[w]           \* a keyword already known
              ELSE IF old # 0 THEN old ELSE Len(heap) + 1
         named == IF old = 0 /\ view[w] = 0
                    THEN Append(heap, Token(id, n, <<>>, {}))
                  ELSE IF grp # 0 THEN heap
                  ELSE [heap EXCEPT ![t] = WithName(@, n)]
     IN \/ /\ mismatch \/ FindById(id, RSVD) # 0
           /\ Refuse
           /\ seed' = IF grp = 0 THEN NextSeed(num, 0) ELSE seed
        \/ /\ ~mismatch /\ FindById(id, RSVD) = 0
           /\ seed' = IF grp = 0 THEN NextSeed(num, 0) ELSE seed
           /\ heap' = IF view[w] = 0 THEN [named EXCEPT ![t].base = Append(@, w)]
                                     ELSE named
           /\ arr' = IF t > Len(heap) THEN Append(arr, t) ELSE arr
           /\ view' = [view EXCEPT ![w] = t]
           /\ Note([past EXCEPT
                !.asked = IF view[w] # 0 /\ grp # 0 THEN @ ELSE @ \cup {<<w, n>>},
                !.moved = @ \/ (old = 0 /\ Coded(id))])
           /\ UNCHANGED <<onech, quotes, phase>>
  /\ UNCHANGED <<nuld, freed>>

ByIdUnsorted(s) == s

(***************************************************************************)
(* The .uld: uld_prepare_names() moves the tokens without a name to the    *)
(* end and sorts the rest by name; each line is found by a binary search   *)
(* over that part, which a renaming leaves out of order.                   *)
(***************************************************************************)
(* uls_quick_sort_vptr(): the entries of s at the places "at", in the      *)
(* order of their keys.  It is a heap sort, which leaves equal keys in any *)
(* order; here they stay as they stand.                                    *)
Arranged(s, at, key) ==
  LET place == [i \in at |->
        Cardinality({j \in at : key[j] < key[i] \/ (key[j] = key[i] /\ j <= i)})]
  IN [k \in 1..Cardinality(at) |-> s[CHOOSE i \in at : place[i] = k]]
AsTheyStand(s, at) == Arranged(s, at, [i \in DOMAIN s |-> i])

ByName(s) == Arranged(s, DOMAIN s, [i \in DOMAIN s |-> heap[s[i]].name])
ById(s) == Arranged(s, DOMAIN s, [i \in DOMAIN s |-> heap[s[i]].id])
Named(t) == heap[t].name # 0

OpenUld ==
  /\ phase = "body" /\ phase' = "uld"
  /\ LET named == {i \in DOMAIN arr : Named(arr[i])}
     IN /\ arr' = ByName(AsTheyStand(arr, named)) \o AsTheyStand(arr, DOMAIN arr \ named)
        /\ nuld' = Cardinality(named)
  /\ UNCHANGED <<heap, onech, view, quotes, seed, lines, freed, past>>

(* uls_bi_search_vptr(), as a function of the interval left; cmp compares  *)
(* an entry with what is looked for.                                       *)
Search(s, cmp) ==
  LET last == Len(cmp)
      f[i \in (1..(last + 1)) \X (0..last)] ==   \* low, high
        IF i[1] > i[2] THEN 0
        ELSE LET mid == ((i[1] - 1) + (i[2] - 1)) \div 2 + 1
             IN IF cmp[mid] < 0 THEN f[<<mid + 1, i[2]>>]
                ELSE IF cmp[mid] > 0 THEN f[<<i[1], mid - 1>>] ELSE s[mid]
  IN f[<<1, last>>]

UldFind(n) == Search(arr, [k \in 1..nuld |-> heap[arr[k]].name - n])

(* uld_proc_line(): n is found, renamed to n2 (0: keeps its name),         *)
(* renumbered, and given an alias it must not have yet (0: none).          *)
UldLine(n, n2, num, alias) ==
  /\ phase = "uld" /\ lines < MaxLines /\ lines' = lines + 1
  /\ n2 # 0 \/ num # AUTO
  /\ LET t == UldFind(n)
         id == IF num = AUTO THEN heap[t].id ELSE num
     IN \/ t = 0 /\ Refuse
        \/ /\ t # 0
           /\ heap' = [heap EXCEPT
                ![t].name = IF n2 = 0 THEN @ ELSE n2,
                ![t].id = id,
                ![t].aliases = @ \cup ({alias} \ {0})]
           /\ phase' = IF alias \in heap[t].aliases THEN "refused" ELSE phase
           /\ Note([past EXCEPT
                !.renamed = @ \/ n2 \notin {0, heap[t].name},
                !.moved = @ \/ (id # heap[t].id
                     /\ (\/ "CHRMAP" \in heap[t].flags \/ Coded(id)
                         \/ heap[t].id \in Range(quotes)))])
           /\ UNCHANGED <<arr, onech, view, quotes>>
  /\ UNCHANGED <<seed, nuld, freed>>

(* __uld_post_names(): back to the order of the numbers, which must differ.*)
CloseUld ==
  /\ phase = "uld"
  /\ arr' = ById(arr)
  /\ phase' = IF \E i \in 2..Len(arr) : heap[arr'[i]].id = heap[arr'[i - 1]].id
                THEN "refused" ELSE "read"
  /\ UNCHANGED <<heap, onech, view, quotes, seed, lines, nuld, freed, past>>

NoUld ==
  /\ phase = "body" /\ phase' = "read"
  /\ UNCHANGED <<table, seed, lines, nuld, freed, past>>

(***************************************************************************)
(* The end of uls_init(): the reserved tokens must differ; the characters  *)
(* that are their own tokens leave the array, those no line named are made *)
(* into tokens, and the array is sorted by number.                         *)
(***************************************************************************)
RsvdDiffer ==
  \A r, s \in RSVD :
    r # s => heap[r].name # heap[s].name /\ heap[r].id # heap[s].id

(* __rearrange_1char_toks() goes over the entries behind the first NRsvd.  *)
Rearranged ==
  AsTheyStand(arr, {i \in DOMAIN arr : i <= NRsvd \/ "CHRMAP" \notin heap[arr[i]].flags})

Free == SetToSeq({c \in Dflt : onech[c] = 0})

Finish ==
  /\ phase = "read"
  /\ \/ /\ ~RsvdDiffer
        /\ phase' = "refused" /\ UNCHANGED <<table, past>>
     \/ /\ RsvdDiffer
        /\ phase' = "loaded"
        /\ heap' = heap \o [k \in 1..Len(Free) |->
                              Token(Code[Free[k]], 0, <<>>, {"CHRMAP"})]
        /\ onech' = [c \in Chars |->
             IF \E k \in 1..Len(Free) : Free[k] = c
               THEN Len(heap) + (CHOOSE k \in 1..Len(Free) : Free[k] = c)
               ELSE onech[c]]
        /\ arr' = ById(Rearranged)
        /\ UNCHANGED <<view, quotes, past>>
  /\ UNCHANGED <<seed, lines, nuld, freed>>

(* uls_find_tokdef_vx(): by number in the array, else as a character.      *)
FindVx(id) ==
  LET t == Search(arr, [k \in 1..Len(arr) |-> heap[arr[k]].id - id])
  IN IF t # 0 THEN t
     ELSE IF \E c \in Chars : Code[c] = id
     THEN onech[CHOOSE c \in Chars : Code[c] = id] ELSE 0

ReleasesAll(t) ==
  Cardinality({i \in DOMAIN arr : arr[i] = t}) + Cardinality({c \in Chars : onech[c] = t})

(***************************************************************************)
(* free_tokdef_array() and uls_deinit_1char_table(): what the array holds  *)
(* but for the characters' tokens, then what each character holds.         *)
(***************************************************************************)
Releases(t) ==
  (IF {"CHRMAP", "REFERRED"} \cap heap[t].flags = {}
     THEN Cardinality({i \in DOMAIN arr : arr[i] = t}) ELSE 0)
  + Cardinality({c \in Chars : onech[c] = t})

Destroy ==
  /\ phase \in {"loaded", "refused"} /\ phase' = "gone"
  /\ freed' = [t \in DOMAIN heap |-> Releases(t)]
  /\ UNCHANGED <<table, seed, lines, nuld, past>>

Numbered == Numbers \cup {AUTO}

RenameAny == \E n \in Range(Rsvd), n2 \in Names : Rename(n, n2)
QuoteTypeAny == \E w \in Words, n \in Names \cup {0}, num \in Numbers : QuoteType(w, n, num)
ReservedLineAny == \E n \in Range(Rsvd) \cup Names, num \in Numbered : ReservedLine(n, num)
UserLineAny == \E n \in Names, num \in Numbered : UserLine(n, num)
CharLineAny == \E n \in Names, c \in Chars, num \in Numbered : CharLine(n, c, num)
WordLineAny == \E n \in Names, w \in Words, num \in Numbered : WordLine(n, w, num)
UldLineAny ==
  \E n \in Names \cup Range(Rsvd), n2 \in Names \cup {0}, num \in Numbered,
     alias \in Names \cup {0} : UldLine(n, n2, num, alias)

Next ==
  \/ RenameAny \/ QuoteTypeAny \/ StartBody
  \/ ReservedLineAny \/ UserLineAny \/ CharLineAny \/ WordLineAny
  \/ OpenUld \/ UldLineAny \/ CloseUld \/ NoUld \/ Finish \/ Destroy

Spec == Init /\ [][Next]_vars

-----------------------------------------------------------------------------
Live == Range(arr) \cup (Range(onech) \ {0})

(* A keyword a line gave to a token stays with a token of that name,       *)
(* whatever the later lines of the specification say.                      *)
KeywordsKept ==
  phase \in {"head", "body"} =>
    \A p \in past.asked : view[p[1]] # 0 /\ Bears(view[p[1]], p[2])

(* What the tables are looked up for is there, and once.  While the body is*)
(* read no two tokens bear the same name, unless a RENAME: chose a taken   *)
(* one or a line without a keyword named a reserved token by its number: a *)
(* keyword line looks for its name among the tokens of the body only.  In  *)
(* a loaded table the number of a token leads back to the token, so no two *)
(* share one, and the number of a quote mark leads to a token: the scanner *)
(* does not look whether there is one.  Unless a number used is the code of*)
(* a character or is taken from a quote mark ("moved"), and, for the marks,*)
(* unless a QUOTE_TYPE: line names no token ("bare").  A line of the .uld  *)
(* finds the token it names until a line has renamed one: the search goes  *)
(* on over a table that is no longer sorted.                               *)
LookupsAgree ==
  /\ phase = "body" /\ ~past.clash =>
       \A i, j \in DOMAIN arr : \A n \in Names :
         Bears(arr[i], n) /\ Bears(arr[j], n) => i = j
  /\ phase = "loaded" /\ ~past.moved =>
       /\ \A t \in Live : FindVx(heap[t].id) = t
       /\ past.bare \/ \A w \in DOMAIN quotes : FindVx(quotes[w]) # 0
  /\ phase = "uld" /\ ~past.renamed =>
       \A i \in 1..nuld : LET t == UldFind(heap[arr[i]].name)
                          IN t # 0 /\ heap[t].name = heap[arr[i]].name

(* Destroying the analyser releases every token once, with two exceptions: *)
(* a token that several characters share is released by each of them, and  *)
(* when the load stopped at a line that had already reserved a token for a *)
(* character, it is not released at all.  No token is listed twice.        *)
Holders(t) == {c \in Chars : onech[c] = t}
FreedOnce ==
  /\ IsInjective(arr)
  /\ phase = "gone" => \A t \in DOMAIN heap :
       \/ freed[t] = 1
       \/ past.shared /\ freed[t] > 1 /\ freed[t] = Cardinality(Holders(t))
       \/ past.stopped /\ freed[t] = 0 /\ Holders(t) = {}
=============================================================================
