----------------------------- MODULE SpecFiles ------------------------------
(***************************************************************************)
(* Where a specification is read from: the search for its file, the chain  *)
(* of the specifications it inherits ("#@ulc-1.0:PARENT"), the headers and *)
(* then the bodies of the chain from the eldest down, and every FILE that  *)
(* is opened and closed on the way (uls_conf.c, ulc_load()).               *)
(*                                                                         *)
(* A file is a directory and a name.  Its first line says what it is and   *)
(* what it inherits; a line behind it is "attr" (a known attribute, or a   *)
(* renaming), "word" (the line of a token), "note" (begins with two        *)
(* slashes), "mark" (%%) or "bad" (refused wherever it is read).           *)
(***************************************************************************)
EXTENDS Naturals, Sequences, FiniteSets, SequencesExt, Functions

CONSTANTS
  SpecNames,      \* names of specifications, with their directory if any
  Base,           \* ... the last part of each
  NoName,         \* the file inherits nothing
  NoSpec,         \* a name that is not the name of a specification
  Texts,          \* what may stand behind the first line: [lines, last]
  SpecPath, FilePath, \* the directories a name, and a path, is looked for in
  Holds,          \* the names there are files of in each directory
  Asked           \* what uls_create() is called for: [typ, name, uld, ulf]

ASSUME SpecFilesAssumption ==
  /\ SpecNames \subseteq DOMAIN Base /\ NoName \notin SpecNames
  /\ \A t \in Texts : t.last \in {"eof", "fail"}

VARIABLES
  conf,           \* the call
  stage,
  disk,           \* what was found in the files opened so far
  chain,          \* hdr->fp_stack and fp_stack_top: the eldest is the last
  ptr,            \* the entry whose header is read
  fin,            \* the file whose body is read, taken off the chain
  lno,            \* the line number that a message would give
  handles, closes, \* FILEs opened, and how often each was closed
  uldfp, ulffp,   \* two of them, or 0
  applied,        \* lines that were carried out
  lost            \* the line a header without a mark ended with, if any
filesVars == <<conf, stage, disk, chain, ptr, fin, lno, handles, closes, uldfp, ulffp,
               applied, lost>>
reader == <<ptr, fin, lno, applied, lost>>

NoFile == [file |-> <<>>, tag |-> NoName, h |-> 0, pos |-> 0, linenum |-> 0]

FilesInit ==
  /\ conf \in Asked /\ stage = "start"
  /\ disk = <<>> /\ chain = <<>> /\ ptr = 0 /\ fin = NoFile /\ lno = 0
  /\ handles = <<>> /\ closes = <<>> /\ uldfp = 0 /\ ulffp = 0
  /\ applied = <<>> /\ lost = {}

(***************************************************************************)
(* uls_get_ulc_path(): the first directory of the path that has the file.  *)
(***************************************************************************)
Found(path, n) ==
  LET ds == {i \in DOMAIN path : n \in Holds[path[i]]}
  IN IF ds = {} THEN <<>> ELSE <<path[CHOOSE i \in ds : \A j \in ds : i <= j], n>>

Finds(file, t) == disk' = IF file \in DOMAIN disk THEN disk ELSE disk @@ (file :> t)
FirstLines == [parent : SpecNames \cup {NoName, NoSpec}, ok : BOOLEAN]
Contents == {[parent |-> f.parent, ok |-> f.ok, lines |-> t.lines, last |-> t.last] :
               f \in {g \in FirstLines : g.ok \/ g.parent = NoName}, t \in Texts}

Opened(names) == handles' = handles \o names /\ closes' = closes \o [k \in DOMAIN names |-> 0]
Closed(hs) == closes' = [h \in DOMAIN closes |-> IF h \in hs THEN closes[h] + 1 ELSE closes[h]]
Handles(s) == {s[k].h : k \in DOMAIN s}       \* release_ulc_fp_stack()
Others == {uldfp, ulffp}

FileEntry(file, tag, h) == [NoFile EXCEPT !.file = file, !.tag = tag, !.h = h]

(***************************************************************************)
(* __load_ulc_from_config_files(): a name, the path of a file, or a .uld   *)
(* whose first line has the name of the specification it renames.  The     *)
(* .ulf is looked for beside the file that was found.                      *)
(***************************************************************************)
Create ==
  /\ stage = "start"
  /\ LET file == Found(IF conf.typ = "path" THEN FilePath ELSE SpecPath, conf.name)
         ulds == IF conf.typ = "uld" THEN <<"uld">> ELSE <<>>
         ulfs == IF conf.ulf THEN <<"ulf">> ELSE <<>>
     IN \/ /\ conf.uld = "nospec" \/ file = <<>>     \* the .uld is closed
           /\ stage' = "refused"
           /\ handles' = ulds /\ closes' = [k \in DOMAIN ulds |-> 1]
           /\ UNCHANGED <<disk, chain, uldfp, ulffp>>
        \/ /\ conf.uld # "nospec" /\ file # <<>>
           /\ stage' = "chain"
           /\ Opened(ulds \o <<file>> \o ulfs)
           /\ uldfp' = Len(ulds)
           /\ ulffp' = IF conf.ulf THEN Len(ulds) + 2 ELSE 0
           /\ chain' = <<FileEntry(file, Base[conf.name], Len(ulds) + 1)>>
           /\ \E t \in Contents : Finds(file, t)
  /\ UNCHANGED <<conf, reader>>

(***************************************************************************)
(* ulc_read_header(), first half.  The entries pushed are in fp_stack_top  *)
(* only, hdr->fp_stack is still the first one: a failure releases that.    *)
(***************************************************************************)
Youngest == <<chain[1]>>
Eldest == Last(chain)
FirstLine == disk[Eldest.file]
Tags == {chain[k].tag : k \in DOMAIN chain}        \* ulc_find_fp_list()
Parent == Found(SpecPath, FirstLine.parent)

Extend ==
  /\ stage = "chain" /\ FirstLine.ok /\ FirstLine.parent \in SpecNames \ Tags
  /\ Parent # <<>>
  /\ Opened(<<Parent>>)
  /\ chain' = Append([chain EXCEPT ![Len(chain)].linenum = 1],
                     FileEntry(Parent, FirstLine.parent, Len(handles) + 1))
  /\ \E t \in Contents : Finds(Parent, t)
  /\ UNCHANGED <<conf, stage, uldfp, ulffp, reader>>

ChainFails ==
  /\ stage = "chain"
  /\ ~FirstLine.ok \/ FirstLine.parent \in Tags \cup {NoSpec}
     \/ (FirstLine.parent \in SpecNames /\ Parent = <<>>)
  /\ stage' = "refused"
  /\ Closed(Handles(Youngest) \cup Others)
  /\ UNCHANGED <<conf, disk, chain, handles, uldfp, ulffp, reader>>

ChainEnds ==
  /\ stage = "chain" /\ FirstLine.ok /\ FirstLine.parent = NoName
  /\ stage' = "head"
  /\ chain' = [chain EXCEPT ![Len(chain)].linenum = 1]
  /\ ptr' = Len(chain) /\ lno' = 1
  /\ UNCHANGED <<conf, disk, fin, handles, closes, uldfp, ulffp, applied, lost>>

(***************************************************************************)
(* Second half: the headers, the eldest's first.  "%%" goes on to the next *)
(* one; a line that is no attribute, or the end of the file, ends them all.*)
(***************************************************************************)
At(e) == LET t == disk[e.file]
         IN IF e.pos < Len(t.lines) THEN t.lines[e.pos + 1] ELSE t.last
LineOf(e) == <<e.file, e.pos + 1>>

\* ulc_load() takes the eldest's file off the chain and goes on with it.
ToBody(from) ==
  /\ stage' = "body"
  /\ fin' = Last(from) /\ lno' = Last(from).linenum
  /\ chain' = Front(from)

HeadAttr ==
  /\ stage = "head" /\ At(chain[ptr]) = "attr"
  /\ applied' = Append(applied, LineOf(chain[ptr]))
  /\ chain' = [chain EXCEPT ![ptr].pos = @ + 1] /\ lno' = lno + 1
  /\ UNCHANGED <<conf, stage, disk, ptr, fin, handles, closes, uldfp, ulffp, lost>>

Marked_KeepsNumber == [chain EXCEPT ![ptr].pos = @ + 1]   \* mutant: linenum stays 1
Marked == [chain EXCEPT ![ptr].pos = @ + 1, ![ptr].linenum = lno + 1]

HeadMark ==
  /\ stage = "head" /\ At(chain[ptr]) = "mark"
  /\ IF ptr = 1 THEN ToBody(Marked)
     ELSE chain' = Marked /\ lno' = chain[ptr - 1].linenum /\ UNCHANGED <<stage, fin>>
  /\ ptr' = ptr - 1
  /\ UNCHANGED <<conf, disk, handles, closes, uldfp, ulffp, applied, lost>>

HeadStops ==
  /\ stage = "head" /\ At(chain[ptr]) \in {"word", "note", "eof"}
  /\ IF At(chain[ptr]) = "eof" THEN ToBody(chain) /\ UNCHANGED lost
     ELSE /\ ToBody([chain EXCEPT ![ptr].pos = @ + 1])
          /\ lost' = {LineOf(chain[ptr])}
  /\ ptr' = 0
  /\ UNCHANGED <<conf, disk, handles, closes, uldfp, ulffp, applied>>

HeadFails ==
  /\ stage = "head" /\ At(chain[ptr]) \in {"bad", "fail"}
  /\ stage' = "refused"
  /\ Closed(Handles(chain) \cup Others)
  /\ UNCHANGED <<conf, disk, chain, handles, uldfp, ulffp, reader>>

(***************************************************************************)
(* ulc_load(): the bodies.                                                 *)
(***************************************************************************)
BodyLine ==
  /\ stage = "body" /\ At(fin) \in {"word", "note"}
  /\ applied' = IF At(fin) = "word" THEN Append(applied, LineOf(fin)) ELSE applied
  /\ fin' = [fin EXCEPT !.pos = @ + 1] /\ lno' = lno + 1
  /\ UNCHANGED <<conf, stage, disk, chain, ptr, handles, closes, uldfp, ulffp, lost>>

BodyEnds ==
  /\ stage = "body" /\ At(fin) = "eof"
  /\ Closed({fin.h})
  /\ IF chain = <<>> THEN stage' = "names" /\ fin' = NoFile /\ UNCHANGED <<chain, lno>>
     ELSE ToBody(chain)
  /\ UNCHANGED <<conf, disk, ptr, handles, uldfp, ulffp, applied, lost>>

\* The file being read is on no list any more.
BodyReleases == Handles(chain) \cup Others
BodyFails ==
  /\ stage = "body" /\ At(fin) \in {"attr", "mark", "bad", "fail"}
  /\ stage' = "refused"
  /\ Closed(BodyReleases)
  /\ UNCHANGED <<conf, disk, chain, handles, uldfp, ulffp, reader>>

(* The .uld, closed whatever it says, then the .ulf.                       *)
LoadNames ==
  /\ stage = "names"
  /\ \/ conf.uld = "bad" /\ stage' = "refused" /\ Closed({uldfp})
     \/ conf.uld # "bad" /\ stage' = "loaded" /\ Closed(Others)
  /\ UNCHANGED <<conf, disk, chain, handles, uldfp, ulffp, reader>>

LoadStep ==
  \/ Create \/ Extend \/ ChainFails \/ ChainEnds
  \/ HeadAttr \/ HeadMark \/ HeadStops \/ HeadFails
  \/ BodyLine \/ BodyEnds \/ BodyFails \/ LoadNames

FilesSpec == FilesInit /\ [][LoadStep]_filesVars

-----------------------------------------------------------------------------
(* What a chain of files means, said of the files: the attributes of each, *)
(* the eldest first, then the tokens of each in the same order.            *)
Lineage ==   \* from the file asked for to the eldest
  LET file == Found(IF conf.typ = "path" THEN FilePath ELSE SpecPath, conf.name)
      from[k \in 1..(Cardinality(DOMAIN disk) + 1), f \in DOMAIN disk] ==
        IF disk[f].parent = NoName \/ k = Cardinality(DOMAIN disk) + 1 THEN <<f>>
        ELSE <<f>> \o from[k + 1, Found(SpecPath, disk[f].parent)]
  IN from[1, file]

LinesOf(f, kind) ==
  SelectSeq([k \in DOMAIN disk[f].lines |-> <<f, k>>],
            LAMBDA l : disk[f].lines[l[2]] = kind)
Of(kind) == FlattenSeq([k \in DOMAIN Lineage |-> LinesOf(Reverse(Lineage)[k], kind)])

(* A specification that is accepted is the attributes of all its files and *)
(* then their tokens, from the one that inherits nothing down to the one   *)
(* asked for: the failure of a header to end with "%%" can lose one line   *)
(* of a token and no other, and what a message says of a line is its       *)
(* number, unless a header ended without "%%" (uls_conf.c:2838-2931,       *)
(* uls_core.c:437-490).                                                    *)
HeadersThenBodies ==
  /\ stage = "loaded" =>
       applied = Of("attr") \o SelectSeq(Of("word"), LAMBDA l : l \notin lost)
  /\ stage = "head" => lno = chain[ptr].pos + 1
  /\ stage = "body" /\ (\A f \in DOMAIN disk : "mark" \in Range(disk[f].lines)) /\ lost = {}
       => lno = fin.pos + 1

(* No FILE is closed twice, and when uls_create() returns all are closed,  *)
(* but for three cases: the files of the ancestors when the chain cannot be*)
(* completed, the file whose body is refused or cannot be read, and the    *)
(* .ulf when the .uld is refused (uls_conf.c:2856-2893, uls_core.c:463-505)*)
FilesClosed ==
  /\ \A h \in DOMAIN closes : closes[h] <= 1
  /\ stage \in {"loaded", "refused"} =>
       \A h \in DOMAIN closes : closes[h] = 0 =>
         /\ stage = "refused"
         /\ \/ ptr = 0 /\ fin = NoFile /\ \E k \in 2..Len(chain) : chain[k].h = h
            \/ h = fin.h
            \/ h = ulffp /\ conf.uld = "bad"

(* A chain of files is read in order, and its FILEs are closed.            *)
ChainLoaded == HeadersThenBodies /\ FilesClosed
=============================================================================
