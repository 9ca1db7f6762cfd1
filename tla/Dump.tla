-------------------------------- MODULE Dump --------------------------------
(***************************************************************************)
(* What is written of a loaded specification.  Of ulc2class the constants: *)
(* which tokens uls_generate_tokdef_file() collects from the tables, in    *)
(* which order, and how they are written, each with its number or as an    *)
(* enumerator whose number is left to the compiler.  Of uls_dump.c the     *)
(* lists of the tokens, by number and by character, the YAML document of   *)
(* ulc2yaml as far as tokens go, and the sample of a .uld.  A line of a    *)
(* list is a record of what it says of a token: number, name, keyword; 0   *)
(* and "none" stand for what it leaves out.                                *)
(***************************************************************************)
EXTENDS TokenSpec

CONSTANTS
  Section   \* an enumerator whose number is a multiple of it starts a section

Groups == {"reserved", "quote", "regular"}   \* ULS_FL_WANT_*_TOKS

(* filter_to_print_tokdef(), asked for tokens with a keyword only.         *)
GroupOf(t) ==
  IF IsReserved(heap[t].name) THEN "reserved"
  ELSE IF \E i \in DOMAIN heap[t].base : heap[t].base[i] \in DOMAIN quotes
  THEN "quote" ELSE "regular"

Wanted(t, groups) == Named(t) /\ (heap[t].base = <<>> \/ GroupOf(t) \in groups)

OneChars == LET cs == SetToSeq(Chars) IN [k \in DOMAIN cs |-> onech[cs[k]]]
OfChars == SelectSeq(OneChars, LAMBDA t : t # 0 /\ "CHRMAP" \in heap[t].flags /\ Named(t))

(* collect_printable_list_of_tokdef_vx(), sorted by number.                *)
Printable(groups) == ById(SelectSeq(arr, LAMBDA t : Wanted(t, groups)) \o OfChars)

Constant(t, n, told) == [name |-> n, id |-> heap[t].id, told |-> told]
Synonyms(t) == LET s == SetToSeq(heap[t].aliases) IN [k \in DOMAIN s |-> Constant(t, s[k], TRUE)]

(* Each constant with its number, the aliases of a token behind it.        *)
AsConstants(list) ==
  FlattenSeq([k \in DOMAIN list |-> <<Constant(list[k], heap[list[k]].name, TRUE)>> \o Synonyms(list[k])])

NumberTold_FirstOnly(list, k) == k = 1 \/ heap[list[k]].id % Section = 0

(* An enumerator is given its number unless it follows on the one before.  *)
NumberTold(list, k) ==
  LET id == heap[list[k]].id
      previous == heap[list[IF k = 1 THEN 1 ELSE k - 1]].id
  IN id % Section = 0 \/ previous + 1 # id
AsEnumerators(list) ==
  FlattenSeq([k \in DOMAIN list |->
    <<Constant(list[k], heap[list[k]].name, NumberTold(list, k))>> \o Synonyms(list[k])])

-----------------------------------------------------------------------------
(* What a compiler makes of it: an enumerator without a number has the one *)
(* before it, plus 1.                                                      *)
Compiled(written) ==
  LET value[k \in 0..Len(written)] ==
        IF k = 0 THEN -1 ELSE IF written[k].told THEN written[k].id ELSE value[k - 1] + 1
  IN {<<written[k].name, value[k]>> : k \in DOMAIN written}

NamesOf(t) == {heap[t].name} \cup heap[t].aliases
Mine(t, groups) ==
  Named(t) /\ (GroupOf(t) \in groups \/ heap[t].base = <<>> \/ "CHRMAP" \in heap[t].flags)

NamesApart ==
  /\ \A t \in Live : heap[t].name \notin heap[t].aliases
  /\ \A t, u \in Live : t # u => NamesOf(t) \cap NamesOf(u) \subseteq {0}

(* The constants of a generated class are the tokens of its analyser: for  *)
(* each name of a token of a group asked for, once, the number with which  *)
(* the analyser returns that token, also where the number is left to the   *)
(* compiler.  Unless the lines moved a number onto a character's or a      *)
(* mark's, let two characters share a token, or gave a name twice.         *)
ConstantsMeant ==
  phase = "loaded" /\ ~past.moved /\ ~past.shared /\ NamesApart =>
    \A groups \in {Groups, {"reserved"}} :
      LET list == Printable(groups)
          meant == UNION {NamesOf(t) \X {t} : t \in {u \in Live : Mine(u, groups)}}
      IN \A written \in {AsConstants(list), AsEnumerators(list)} :
           /\ Compiled(written) = {<<p[1], heap[p[2]].id>> : p \in meant}
           /\ Len(written) = Cardinality(meant)
           /\ \A c \in Compiled(written) : FindVx(c[2]) # 0 /\ Bears(FindVx(c[2]), c[1])

-----------------------------------------------------------------------------
(* -------- uls_dump.c -------- *)

Says(id, name, keyw) == [id |-> id, name |-> name, keyw |-> keyw]
First1(t) == IF heap[t].base = <<>> THEN "none" ELSE heap[t].base[1]
Rest(t) == IF heap[t].base = <<>> THEN <<>> ELSE Tail(heap[t].base)

(* uls_dump_tokdef_vx(): number, name and first keyword; the other names;  *)
(* the other keywords.                                                     *)
VxDump(t) ==
  {Says(heap[t].id, heap[t].name, First1(t))}
    \cup {Says(heap[t].id, n, "none") : n \in heap[t].aliases}
    \cup {Says(heap[t].id, 0, w) : w \in Range(Rest(t))}

ListDump == UNION {VxDump(t) : t \in Range(arr)}
NamesDump == UNION {{Says(heap[t].id, n, "none") : n \in {heap[t].name} \cup heap[t].aliases} : t \in Range(arr)}
RsvdDump == {Says(heap[t].id, heap[t].name, "none") : t \in RSVD}
CharsDump ==   \* the tokens with a name below their characters
  [c \in {d \in Chars : onech[d] # 0} |->
     [id |-> heap[onech[c]].id,
      vx |-> IF Named(onech[c]) THEN VxDump(onech[c]) ELSE {}]]

(* uls_dump_tokdef_sorted() stops the program if a number of the table     *)
(* does not lead back to its token.                                        *)
SortedDumpPanics == \E t \in Range(arr) : FindVx(heap[t].id) # t

(* dump_tokdef__yaml(): an entry for the token, one for each other name    *)
(* with the first keyword again, one without a name for each other keyword.*)
YamlToken(t) ==
  LET others == SetToSeq(heap[t].aliases)
  IN <<Says(heap[t].id, heap[t].name, First1(t))>>
       \o [k \in DOMAIN others |-> Says(heap[t].id, others[k], First1(t))]
       \o [k \in DOMAIN Rest(t) |-> Says(heap[t].id, 0, Rest(t)[k])]
YamlTokens == FlattenSeq([k \in DOMAIN arr |-> YamlToken(arr[k])])
YamlRenames == {<<Rsvd[r], heap[r].name>> : r \in {q \in RSVD : heap[q].name # Rsvd[q]}}

(* uld_dump_sample(): the lines, commented out, that change nothing.       *)
UldSample ==
  LET named == SelectSeq(arr, Named)
  IN [k \in DOMAIN named |-> [name |-> heap[named[k]].name, id |-> heap[named[k]].id]]

-----------------------------------------------------------------------------
Keyworded(list) == {<<s.keyw, s.id>> : s \in {e \in list : e.keyw # "none"}}
KeywordsOf(ts) == UNION {Range(heap[t].base) \X {heap[t].id} : t \in ts}
NamesIn(list) == {<<s.name, s.id>> : s \in {e \in list : e.name # 0}}
NamesMeant(ts) == UNION {(NamesOf(t) \ {0}) \X {heap[t].id} : t \in ts}

(* What is printed of a loaded specification is the specification: the     *)
(* list of tokens and the map of characters say every name and every       *)
(* keyword with the number the analyser returns, each keyword its own; the *)
(* YAML document says them of all tokens but those of one character, which *)
(* it leaves out with the keywords they got from later lines; the reserved *)
(* tokens are those a RENAME: of the document gives; and a line of the     *)
(* .uld sample names one token and the number it has.  No dump stops the   *)
(* program unless a number was moved onto a character's.                   *)
DumpsMeant ==
  phase = "loaded" =>
    LET all == ListDump \cup UNION {CharsDump[c].vx : c \in DOMAIN CharsDump}
        yaml == Range(YamlTokens)
        spoken == {t \in Live : Named(t) \/ t \in Range(arr)}
        byName == ByName(SetToSeq({t \in Live : Named(t)}))
    IN /\ Keyworded(all) = KeywordsOf(spoken)
       /\ Keyworded(yaml) = KeywordsOf(Range(arr))
       /\ {<<w, heap[view[w]].id>> : w \in {v \in Words : view[v] # 0}} = Keyworded(all)
       /\ NamesIn(all) = NamesMeant(spoken)
       /\ NamesIn(yaml) = NamesMeant(Range(arr)) /\ NamesIn(NamesDump) = NamesMeant(Range(arr))
       /\ \A c \in DOMAIN CharsDump : CharsDump[c].id = heap[onech[c]].id
       /\ \A r \in RSVD : \E s \in RsvdDump :
            s.name = (IF \E p \in YamlRenames : p[1] = Rsvd[r]
                      THEN (CHOOSE p \in YamlRenames : p[1] = Rsvd[r])[2] ELSE Rsvd[r])
       /\ NamesApart => \A k \in DOMAIN UldSample :
            LET l == UldSample[k]
                t == Search(byName, [i \in DOMAIN byName |-> heap[byName[i]].name - l.name])
            IN t # 0 /\ heap[t].name = l.name /\ heap[t].id = l.id
       /\ ~past.moved => ~SortedDumpPanics

(* Whatever is printed of a specification, constants or lines, says what   *)
(* the analyser does.                                                      *)
PrintedMeant == ConstantsMeant /\ DumpsMeant
=============================================================================
