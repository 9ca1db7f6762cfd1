------------------------------ MODULE WideTmpls ------------------------------
(***************************************************************************)
(* Lists of template variables, as programs keep them before a stream is   *)
(* pushed (src/src/uls_stream.c): the plain list of the core, the list for *)
(* wide characters that keeps a shadow of each variable beside it          *)
(* (src/ulscompat/uls_istream_wstr.c), and the two maps of the C++ class   *)
(* UlsTmplList, which are exported to a plain list.  What a stream replays *)
(* is what the plain list holds.                                           *)
(***************************************************************************)
EXTENDS Integers, Sequences, FiniteSets, SequencesExt, Functions

CONSTANTS
  TmplNames,     \* names of variables
  NoName,        \* the name "", which the wide list makes NULL of
  TmplValues,    \* texts of values
  LongValues,    \* those that do not fit into a buffer of 128 bytes
  Unshown,       \* those that the locale cannot show
  TmplUnset,     \* NULL, for a value
  Gone,          \* what is read through a pointer to freed memory
  MaxTmplCalls   \* bound: the calls of a behaviour

VARIABLES
  list,    \* uls_tmpl_list_t: whether it copies its texts, its room, its variables
  ext,     \* the shadows, by index: numbers of buffers; <<>> for a plain list
  bufs,    \* the buffers of shadows: [val, wide, moved]
  maps,    \* UlsTmplList: hashtbl and whashtbl
  meant,   \* what the program gave each variable of the list last
  twice,   \* the variables that were added again, and those set after they
  reset,   \*   were added
  apart,    \* the variables of UlsTmplList set narrowly after they were set
  exported, \* the last export, and whether the list was empty before it
  tcalls

tmplVars == <<list, ext, bufs, maps, meant, twice, reset, apart, exported, tcalls>>

Empty == [n \in {} |-> TmplUnset]
IsWide == list.wide
IndexOf(name) == SelectInSeq(list.items, LAMBDA t : t.name = name)
\* tmpl_list->tmpls.slots[].sval: a text of the list or the caller, or what
\* the buffer of a shadow holds now.
Own(val) == [at |-> 0, val |-> val]
At(b) == [at |-> b, val |-> TmplUnset]
Sval(t) == IF t.sval.at = 0 THEN t.sval.val
           ELSE IF bufs[t.sval.at].moved THEN Gone ELSE bufs[t.sval.at].val
uls_get_tmpl_value(name) == IF IndexOf(name) = 0 THEN TmplUnset ELSE Sval(list.items[IndexOf(name)])

\* uls_add_tmpl(): a name that is there gets the value; a new one needs room.
uls_add_tmpl(l, name, sval) ==
  LET k == SelectInSeq(l.items, LAMBDA t : t.name = name)
  IN IF k = 0 /\ Len(l.items) >= l.room THEN l
     ELSE IF k > 0 THEN [l EXCEPT !.items[k].sval = sval]
     ELSE [l EXCEPT !.items = Append(@, [name |-> name, sval |-> sval])]
Takes(name) == IndexOf(name) # 0 \/ Len(list.items) < list.room

\* uls_reset_tmpls() keeps the variables there is room for.
uls_reset_tmpls(l, n) == [l EXCEPT !.room = n, !.items = SubSeq(@, 1, IF Len(@) < n THEN Len(@) ELSE n)]

TCalling == tcalls < MaxTmplCalls /\ tcalls' = tcalls + 1
Means(name, val) == meant' = [n \in DOMAIN meant \cup {name} |-> IF n = name THEN val ELSE meant[n]]

(* -------- the plain list -------- *)

Add(name, val) ==
  /\ TCalling /\ ~IsWide
  /\ list' = uls_add_tmpl(list, name, Own(val))
  /\ IF Takes(name) THEN Means(name, val) ELSE UNCHANGED meant
  /\ UNCHANGED <<ext, bufs, maps, twice, reset, apart, exported>>

uls_set_tmpl_value(name, val) ==
  /\ TCalling /\ ~IsWide /\ IndexOf(name) # 0
  /\ list' = [list EXCEPT !.items[IndexOf(name)].sval = Own(val)]
  /\ Means(name, val)
  /\ UNCHANGED <<ext, bufs, maps, twice, reset, apart, exported>>

Reset(n) ==
  /\ TCalling /\ ~IsWide
  /\ list' = uls_reset_tmpls(list, n)
  /\ meant' = Restrict(meant, {list'.items[k].name : k \in DOMAIN list'.items})
  /\ UNCHANGED <<ext, bufs, maps, twice, reset, apart, exported>>

(* -------- the list for wide characters -------- *)

\* __set_tmpl_value_wstr(): a text that cannot be shown leaves the buffer as
\* it is; NULL leaves it too, and a longer text moves it.
Shadowed(b, val) ==
  IF val \in Unshown THEN b
  ELSE IF val = TmplUnset THEN [b EXCEPT !.wide = TmplUnset]
  ELSE [val |-> val, wide |-> val, moved |-> b.moved \/ val \in LongValues]
\* In a new one csz_text() makes a text of NULL.
Fresh(val) == [val |-> IF val = TmplUnset THEN "" ELSE val, wide |-> val, moved |-> FALSE]

\* uls_add_tmpl_wstr(): the shadow goes to the place after the last variable,
\* although the core finds a variable of the same name at another.
uls_add_tmpl_wstr(name, val) ==
  /\ TCalling /\ IsWide
  /\ IF Len(list.items) >= list.room THEN UNCHANGED <<list, ext, bufs, meant, twice, reset>>
     ELSE LET b == Len(bufs) + 1
              shadow == IF val \in Unshown THEN [val |-> "", wide |-> TmplUnset, moved |-> FALSE] ELSE Fresh(val)
          IN /\ bufs' = Append(bufs, shadow)
             /\ ext' = [k \in 1..Len(list.items) + 1 |-> IF k <= Len(list.items) THEN ext[k] ELSE b]
             /\ IF val \in Unshown \/ name = NoName THEN UNCHANGED <<list, meant, twice, reset>>
                ELSE /\ list' = uls_add_tmpl(list, name, IF list.dup THEN Own(shadow.val) ELSE At(b))
                     /\ twice' = IF IndexOf(name) = 0 THEN twice ELSE twice \cup {name}
                     /\ reset' = reset \ {name}
                     /\ Means(name, val)
  /\ UNCHANGED <<maps, apart, exported>>

\* uls_set_tmpl_value_wstr() sets the shadow and not the variable.
uls_set_tmpl_value_wstr(name, val) ==
  /\ TCalling /\ IsWide /\ IndexOf(name) # 0
  /\ LET b == ext[IndexOf(name)]
     IN bufs' = [bufs EXCEPT ![b] = Shadowed(@, val)]
  /\ IF val \in Unshown THEN UNCHANGED <<meant, reset>>
     ELSE Means(name, val) /\ reset' = reset \cup {name}
  /\ UNCHANGED <<list, ext, maps, twice, apart, exported>>
\* uls_get_tmpl_value_wstr(): the value is that of the shadow.
uls_get_tmpl_value_wstr(name) == IF IndexOf(name) = 0 THEN TmplUnset ELSE bufs[ext[IndexOf(name)]].wide

\* uls_reset_tmpls_wstr() makes an empty list of it, that copies as before.
uls_reset_tmpls_wstr(n) ==
  /\ TCalling /\ IsWide
  /\ list' = [list EXCEPT !.room = n, !.items = <<>>]
  /\ ext' = <<>> /\ bufs' = <<>> /\ meant' = Empty /\ twice' = {} /\ reset' = {}
  /\ UNCHANGED <<maps, apart, exported>>

(* -------- UlsTmplList -------- *)

With(map, name, val) == [n \in DOMAIN map \cup {name} |-> IF n = name THEN val ELSE map[n]]
UlsTmplList_setValue(name, val) ==
  /\ TCalling
  /\ maps' = [maps EXCEPT !.narrow = With(@, name, val)]
  /\ apart' = apart \cup {name}
  /\ UNCHANGED <<list, ext, bufs, meant, twice, reset, exported>>
\* The wide one sets both, and throws when the first is done.
UlsTmplList_setValue_Wide(name, val) ==
  /\ TCalling
  /\ maps' = [narrow |-> IF val \in Unshown THEN maps.narrow ELSE With(maps.narrow, name, val),
              wide   |-> With(maps.wide, name, val)]
  /\ apart' = IF val \in Unshown THEN apart ELSE apart \ {name}
  /\ UNCHANGED <<list, ext, bufs, meant, twice, reset, exported>>
\* getValue(): a text of a copy of the variable, which is gone on return: the
\* caller may still see it.
UlsTmplList_getValue(kind, name) == IF name \in DOMAIN maps[kind] THEN {maps[kind][name], Gone} ELSE {TmplUnset}
UlsTmplList_clear ==
  /\ TCalling
  /\ maps' = [narrow |-> Empty, wide |-> Empty] /\ apart' = {}
  /\ UNCHANGED <<list, ext, bufs, meant, twice, reset, exported>>

\* exportTmpls(): room for as many, then one after the other, as a list takes
\* them. The texts it gives are gone when it returns.
Exported_Fresh(l, map) ==              \* mutant: no room is made
  FoldLeft(LAMBDA a, name : uls_add_tmpl(a, name, Own(IF l.dup THEN map[name] ELSE Gone)), l, SetToSeq(DOMAIN map))
Exported(l, map) ==
  FoldLeft(LAMBDA a, name : uls_add_tmpl(a, name, Own(IF l.dup THEN map[name] ELSE Gone)),
           uls_reset_tmpls(l, Cardinality(DOMAIN map)), SetToSeq(DOMAIN map))
UlsTmplList_exportTmpls ==
  /\ TCalling /\ ~IsWide
  /\ list' = Exported(list, maps.narrow)
  /\ exported' = [n |-> Cardinality(DOMAIN maps.narrow), clean |-> list.items = <<>>, map |-> maps.narrow, at |-> tcalls']
  /\ meant' = [n \in {list'.items[k].name : k \in DOMAIN list'.items} |->
                 IF n \in DOMAIN maps.narrow THEN maps.narrow[n] ELSE meant[n]]
  /\ UNCHANGED <<ext, bufs, maps, twice, reset, apart>>

TmplInit ==
  /\ list \in [dup : BOOLEAN, wide : BOOLEAN, room : 0..2, items : {<<>>}]
  /\ ext = <<>> /\ bufs = <<>> /\ meant = Empty /\ twice = {} /\ reset = {} /\ apart = {}
  /\ maps = [narrow |-> Empty, wide |-> Empty]
  /\ exported = [n |-> 0, clean |-> FALSE, map |-> Empty, at |-> 0]
  /\ tcalls = 0

TmplStep ==
  \/ \E name \in TmplNames, val \in TmplValues \cup {TmplUnset} :
       \/ Add(name, val) \/ uls_set_tmpl_value(name, val)
       \/ uls_add_tmpl_wstr(name, val) \/ uls_set_tmpl_value_wstr(name, val)
  \/ \E name \in TmplNames, val \in TmplValues : UlsTmplList_setValue(name, val) \/ UlsTmplList_setValue_Wide(name, val)
  \/ \E n \in 0..2 : Reset(n) \/ uls_reset_tmpls_wstr(n)
  \/ UlsTmplList_clear \/ UlsTmplList_exportTmpls

-----------------------------------------------------------------------------
(* -------- properties -------- *)

Variables == {list.items[k].name : k \in DOMAIN list.items}

\* A wide program reads the value it gave, unless it added the variable twice.
WideReadsMeant == IsWide =>
  \A name \in Variables : uls_get_tmpl_value_wstr(name) = meant[name] \/ name \in twice

\* A stream replays the value the program gave: not if a wide program set it
\* after it was added, or gave NULL; and not, if the list does not copy, the
\* one of a C++ program.
StreamHasMeant ==
  \A name \in Variables :
    \/ uls_get_tmpl_value(name) = meant[name]
    \/ IsWide /\ (name \in reset \/ meant[name] = TmplUnset)
    \/ uls_get_tmpl_value(name) = Gone /\ ~list.dup /\ ~IsWide /\ exported.at > 0

\* Memory that is gone is read from lists only that do not copy.
CopiesStay == list.dup => \A name \in Variables : uls_get_tmpl_value(name) # Gone

\* The first call on an empty list exports all; else those it takes.
ExportsAll ==
  (exported.at = tcalls /\ exported.at > 0 /\ exported.clean) => Len(list.items) = exported.n

\* The values of UlsTmplList in both kinds of characters are the same: not if
\* the wide one was refused, or the narrow one alone was set later.
MapsAgree == \A name \in DOMAIN maps.wide :
  \/ maps.wide[name] \in Unshown \/ name \in apart
  \/ UlsTmplList_getValue("narrow", name) = UlsTmplList_getValue("wide", name)

TmplsAgree == MapsAgree /\ WideReadsMeant /\ StreamHasMeant /\ CopiesStay /\ ExportsAll
=============================================================================
