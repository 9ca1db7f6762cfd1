---------------------------- MODULE StreamHeader ----------------------------
(***************************************************************************)
(* How a stream of tokens is begun and how a file is recognised: the       *)
(* header uls_create_ostream() writes (src/src/uls_ostream.c), with the    *)
(* lines of the .uld that renumbered the writer's tokens, and what         *)
(* uls_open_istream() makes of a file or of a pipe (src/src/uls_istream.c),*)
(* header or raw text.                                                     *)
(*                                                                         *)
(* A file is a sequence of units: pieces of the magic line, of the header, *)
(* of the blocks behind it, of the body, and bytes of raw text.  read() on *)
(* a file returns what was asked for; on a pipe it stops at a cut.         *)
(***************************************************************************)
EXTENDS Integers, Sequences, FiniteSets, SequencesExt

CONSTANTS
  MagicLen, HdrLen,  \* units of the magic line, and lines of the header
  BlkLen,            \* lines of a block of 512 bytes (ULS_BIN_BLKSIZ)
  Writers,           \* [name, ren, told, type, tag] of the analyser and the call
  Foreign,           \* headers that no ostream of this version writes
  RawTexts,          \* [fmt, bom, text] of files that are no streams
  Rooms,             \* how many units a disk takes
  CutSets,           \* where the reads of a pipe stop
  Starts,            \* how far a file has been read before it is opened
  Installed,         \* the tokens of each specification the reader can find
  Nil

Smaller(i, j) == IF i < j THEN i ELSE j
HdrSiz == MagicLen + HdrLen
Hole   == <<"hole">>
Token(k) == <<"token", k>>
Magic  == [i \in 1..MagicLen |-> <<"magic", i>>]
Fill   == <<"fill">>
Boundary == <<"boundary">>
Line(attr, val) == <<"line", attr, val>>

VARIABLES
  by,        \* the file: a writer's, a foreign header or a raw text
  fd,        \* the descriptor: kind, room (writing), cuts and pos (reading)
  creation,      \* the writer's call: "create", "remap", "header", "made", "refused", "closed"
  file,      \* what the descriptor holds
  istr,      \* uls_istream_t, and how far uls_open_istream() has come
  left       \* what a refused opening never releases

openVars == <<by, fd, creation, file, istr, left>>

NoIstr == [at |-> "none", filetype |-> "raw", subtype |-> "", ver |-> "now", spec |-> <<>>,
           tag |-> <<>>, lines |-> <<>>, firstline |-> <<>>, uls |-> Nil, why |-> ""]

-----------------------------------------------------------------------------
(* Raw text: its units, and what a decoder makes of units.                 *)
NUL == "nul"
Width(fmt, c) == CASE fmt = 16 -> 2 [] fmt = 32 -> 4 [] OTHER -> IF c = "wide" THEN 3 ELSE 1
CharUnits(e, c) ==
  [i \in 1..Width(e.fmt, c) |-> IF c = NUL THEN <<"byte", "00">> ELSE <<"char", e.fmt, e.reverse, c, i>>]
Enc(fmt, reverse) == [fmt |-> fmt, reverse |-> reverse]
Bytes(bs) == [i \in DOMAIN bs |-> <<"byte", bs[i]>>]
Bom(e) == Bytes(CASE e.fmt = 32 /\ ~e.reverse -> <<"FF", "FE", "00", "00">>
                  [] e.fmt = 32 /\ e.reverse -> <<"00", "00", "FE", "FF">>
                  [] e.fmt = 16 /\ ~e.reverse -> <<"FF", "FE">>
                  [] e.fmt = 16 /\ e.reverse -> <<"FE", "FF">>
                  [] OTHER -> <<"EF", "BB", "BF">>)
RawUnits(r) == (IF r.bom THEN Bom(r.enc) ELSE <<>>) \o FlattenSeq([k \in DOMAIN r.text |-> CharUnits(r.enc, r.text[k])])

Broken == "?"
Decoded(e, us) ==
  LET CharAt(i) == {c \in {NUL, "wide", "x", "y"} : IsPrefix(CharUnits(e, c), SubSeq(us, i, Len(us)))}
      From[i \in 1..Len(us) + 1] ==
        IF i > Len(us) THEN <<>>
        ELSE IF CharAt(i) = {} THEN <<Broken>>
        ELSE LET c == CHOOSE c \in CharAt(i) : TRUE IN <<c>> \o From[i + Width(e.fmt, c)]
  IN From[1]

(* get_rawfile_subtype() on a little-endian host: the longest mark first.  *)
Marks == <<Enc(32, TRUE), Enc(32, FALSE), Enc(8, FALSE), Enc(16, TRUE), Enc(16, FALSE)>>
get_rawfile_subtype(line) ==
  LET found == {k \in DOMAIN Marks : IsPrefix(Bom(Marks[k]), line)}
  IN IF found = {} THEN [enc |-> Enc(8, FALSE), fpos |-> 0]
     ELSE LET e == Marks[CHOOSE k \in found : \A j \in found : k <= j] IN [enc |-> e, fpos |-> Len(Bom(e))]

-----------------------------------------------------------------------------
(* __uls_create_ostream().  The lines of the .uld are in the xcontext of   *)
(* the writer; those of a class that ulc2class generated are there too,    *)
(* but not counted (told = FALSE).                                         *)
Types == {"BIN/LITTLE", "BIN/BIG", "TEXT/ASCII"}
Counted(w) == IF w.told THEN Len(w.ren) ELSE 0
Blocks_NoMark(n) == (n + BlkLen - 1) \div BlkLen      \* mutant: no room for the boundary
Blocks(n) == (n + 1 + BlkLen - 1) \div BlkLen
NBlocks(w) == IF Counted(w) > 0 THEN Blocks(Counted(w)) ELSE 0
RemapUnits(w) ==
  [i \in 1..NBlocks(w) * BlkLen |->
     CASE i = NBlocks(w) * BlkLen -> Boundary
       [] i <= Len(w.ren) -> <<"ren", w.ren[i]>>
       [] OTHER -> Fill]
HeaderLines(w) ==
  LET lines == <<Line("FILE_VERSION:", "now"), Line("SPEC:", w.name), Line("TYPE:", w.type), Line("TAG:", w.tag)>>
               \o IF Counted(w) > 0 THEN <<Line("TOKEN_REMAP:", [n |-> Counted(w), blocks |-> NBlocks(w)])>> ELSE <<>>
  IN lines \o [i \in 1..HdrLen - Len(lines) - 1 |-> Fill] \o <<Boundary>>

(* What is in the file after a write at off, and what did not fit.         *)
Fitting(us) == SubSeq(us, 1, Smaller(Len(us), fd.room))
Put(off, us) ==
  [i \in 1..(IF Len(file) < off + Len(us) THEN off + Len(us) ELSE Len(file)) |->
     CASE i > off /\ i <= off + Len(us) -> us[i - off]
       [] i <= Len(file) -> file[i]
       [] OTHER -> Hole]
Written(off, us, next) ==
  /\ file' = Put(off, Fitting(us))
  /\ fd' = [fd EXCEPT !.room = @ - Len(Fitting(us))]
  /\ creation' = IF Len(us) <= fd.room THEN next ELSE "refused"
Seekable == fd.kind = "disk"

CreateStart ==
  /\ creation = "create"
  /\ creation' = CASE by.type \notin Types -> "refused" [] Counted(by) > 0 -> "remap" [] OTHER -> "header"
  /\ UNCHANGED <<by, fd, file, istr, left>>

write_uld_to_ostream ==
  /\ creation = "remap"
  /\ IF Seekable THEN Written(HdrSiz, RemapUnits(by), "header")
     ELSE creation' = "refused" /\ UNCHANGED <<fd, file>>
  /\ UNCHANGED <<by, istr, left>>

(* The header goes to a pipe too, but the call fails then.                 *)
save_istr_hdrbuf ==
  /\ creation = "header"
  /\ LET us == Magic \o HeaderLines(by)
     IN IF Seekable THEN Written(0, us, "made") ELSE Written(Len(file), us, "refused")
  /\ UNCHANGED <<by, istr, left>>

(* Two tokens at the place the header leaves the descriptor at.            *)
PrintTokens ==
  /\ creation = "made"
  /\ file' = Put(HdrSiz + NBlocks(by) * BlkLen, Fitting(<<Token(1), Token(2)>>))
  /\ creation' = "closed"
  /\ UNCHANGED <<by, fd, istr, left>>

-----------------------------------------------------------------------------
(* uls_open_istream().                                                     *)
Reading(n) ==
  LET end  == Smaller(fd.pos + n, Len(file))
      cuts == {c \in fd.cuts : c > fd.pos /\ c < end}
      stop == IF cuts = {} THEN end ELSE CHOOSE c \in cuts : \A d \in cuts : c <= d
  IN SubSeq(file, fd.pos + 1, stop)
Advanced(us) == fd' = [fd EXCEPT !.pos = @ + Len(us)]

OpenFirst ==
  /\ creation \in {"refused", "closed"} /\ istr.at = "none"
  /\ \E kind \in {"disk", "pipe"}, cuts \in CutSets, start \in Starts :
       /\ kind = "disk" => cuts = {}
       /\ kind = "pipe" \/ by.kind # "raw" => start = 0
       /\ start <= Len(file)
       /\ fd' = [kind |-> kind, room |-> 0, cuts |-> cuts, pos |-> start, start |-> start]
  /\ istr' = [istr EXCEPT !.at = "magic"]
  /\ UNCHANGED <<by, creation, file, left>>

(* No magic line: raw text, whose beginning is read again, or kept.        *)
OpenRaw ==
  /\ istr.at = "magic"
  /\ LET line == Reading(MagicLen)
         sub  == get_rawfile_subtype(line)
     IN /\ line # Magic
        /\ istr' = [istr EXCEPT !.at = "opened", !.subtype = sub.enc, !.firstline = IF Seekable THEN <<>> ELSE line]
        /\ fd' = [fd EXCEPT !.pos = IF Seekable THEN sub.fpos ELSE @ + Len(line)]
  /\ UNCHANGED <<by, creation, file, left>>

Refuse(why, what) ==
  /\ istr' = [istr EXCEPT !.at = "failed", !.why = why]
  /\ left' = left \cup what \cup (IF istr.uls = Nil THEN {} ELSE {"uls"})

OpenHeader ==
  /\ istr.at = "magic" /\ Reading(MagicLen) = Magic
  /\ LET us == SubSeq(file, fd.pos + MagicLen + 1, Smaller(fd.pos + HdrSiz, Len(file)))
         cut == \E c \in fd.cuts : c > fd.pos + MagicLen /\ c < fd.pos + HdrSiz
     IN /\ fd' = [fd EXCEPT !.pos = @ + HdrSiz]
        /\ IF cut \/ Len(us) < HdrLen THEN Refuse("cut", {})
           ELSE istr' = [istr EXCEPT !.at = "lines", !.filetype = "uls", !.lines = us] /\ UNCHANGED left
  /\ UNCHANGED <<by, creation, file>>

(* uls_create() by the reader: of a name, or of a .uld that renames tokens.*)
MakeLex(spec, ren) ==
  IF spec \notin DOMAIN Installed \/ \E k \in DOMAIN ren : ren[k].from \notin Installed[spec] THEN Nil
  ELSE [spec |-> spec, ren |-> ren]

(* parse_uls_hdr() on one line: a value is one word (splitstr()).          *)
Word(ws) == SubSeq(ws, 1, Smaller(1, Len(ws)))
At(unit) == istr.at = "lines" /\ istr.lines # <<>> /\ Head(istr.lines)[1] = unit
AtLine(attr) == At("line") /\ Head(istr.lines)[2] = attr
Val  == Head(istr.lines)[3]
Rest == Tail(istr.lines)

SimpleLine ==
  /\ \/ At("fill") /\ istr' = [istr EXCEPT !.lines = Rest]
     \/ AtLine("FILE_VERSION:") /\ Val # "none" /\ istr' = [istr EXCEPT !.lines = Rest, !.ver = Val]
     \/ AtLine("SPEC:") /\ istr' = [istr EXCEPT !.lines = Rest, !.spec = Word(Val)]
     \/ AtLine("TYPE:") /\ Val \in Types /\ istr' = [istr EXCEPT !.lines = Rest, !.subtype = Val]
     \/ AtLine("TAG:") /\ istr' = [istr EXCEPT !.lines = Rest, !.tag = Word(Val)]
  /\ UNCHANGED <<by, fd, creation, file, left>>

BadLine ==
  /\ \/ AtLine("FILE_VERSION:") /\ Val = "none"
     \/ AtLine("TYPE:") /\ Val \notin Types
     \/ AtLine("unknown:")
     \/ At("hole")
     \/ istr.at = "lines" /\ istr.lines = <<>>      \* No header boundary found!
  /\ Refuse("line", {})
  /\ UNCHANGED <<by, fd, creation, file>>

(* The first n lines of the blocks, or those before a boundary; Nil when   *)
(* the blocks end first.                                                   *)
RenLines(us, n) ==
  LET ends == {i \in DOMAIN us : us[i] = Boundary}
      upto == IF ends = {} THEN n ELSE Smaller(n, (CHOOSE i \in ends : \A j \in ends : i <= j) - 1)
  IN IF upto > Len(us) THEN Nil
     ELSE LET lines == SelectSeq(SubSeq(us, 1, upto), LAMBDA u : u[1] = "ren")
          IN [k \in DOMAIN lines |-> lines[k][2]]

RemapLine ==
  /\ AtLine("TOKEN_REMAP:")
  /\ LET want == Val.blocks * BlkLen
         us   == Reading(want)
         ren  == RenLines(us, Val.n)
     IN /\ Advanced(us)
        /\ CASE Len(us) < want -> Refuse("cut", {"remap_buff"})
             [] Len(us) = want /\ ren = Nil -> Refuse("line", {"remap_buff"})
             [] OTHER ->
                  \/ Refuse("tempfile", {})
                  \/ /\ istr' = [istr EXCEPT !.lines = Rest, !.uls = IF @ = Nil THEN MakeLex(istr.spec, ren) ELSE @]
                     /\ UNCHANGED left
  /\ UNCHANGED <<by, creation, file>>

OpenEnd ==
  /\ At("boundary")
  /\ istr' = [istr EXCEPT !.at = "opened", !.uls = IF @ = Nil THEN MakeLex(istr.spec, <<>>) ELSE @]
  /\ UNCHANGED <<by, fd, creation, file, left>>

-----------------------------------------------------------------------------
OpenInit ==
  /\ istr = NoIstr /\ left = {}
  /\ by \in Writers \cup Foreign \cup RawTexts
  /\ fd \in [kind : {"disk", "pipe"}, room : Rooms, cuts : {{}}, pos : {0}, start : {0}]
  /\ by.kind # "writer" => fd.kind = "disk" /\ \A r \in Rooms : r <= fd.room
  /\ creation = IF by.kind = "writer" THEN "create" ELSE "closed"
  /\ file = CASE by.kind = "writer" -> <<>>
              [] by.kind = "foreign" -> Magic \o by.lines \o by.blocks \o <<Token(1)>>
              [] by.kind = "raw" -> RawUnits(by)

OpenStep ==
  \/ CreateStart \/ write_uld_to_ostream \/ save_istr_hdrbuf \/ PrintTokens
  \/ OpenFirst \/ OpenRaw \/ OpenHeader \/ SimpleLine \/ BadLine \/ RemapLine \/ OpenEnd
-----------------------------------------------------------------------------
(* A stream that was created, and whose first reads are not cut, is opened *)
(* with the writer's type, and with its specification, its tag and the     *)
(* numbers it gave its tokens, at its first token.  But of names and tags  *)
(* of several words the first one is left, renamings of a generated class  *)
(* are lost, and so are those the reader's copy of the specification       *)
(* refuses.  It is refused only where a read was cut or the temporary file *)
(* failed, and taken for raw text only where the very first read was cut.  *)
(* A creation that failed leaves a file that is refused, raw, or a stream  *)
(* without a token (uls_ostream.c:409-505, uls_istream.c:599-699).         *)
Ours   == by.kind = "writer"
Opened == istr.at = "opened"
CutIn(m, n) == Len(file) < n \/ \E c \in fd.cuts : m < c /\ c < n
StreamUnderstood == Ours /\ istr.at \in {"opened", "failed"} =>
  /\ Opened /\ istr.filetype = "uls" =>
       /\ istr.subtype = by.type /\ istr.spec = Word(by.name) /\ istr.tag = Word(by.tag)
       /\ IF creation = "refused" THEN fd.pos >= Len(file)
          ELSE SubSeq(file, fd.pos + 1, Len(file)) \in {<<>>, <<Token(1)>>, <<Token(1), Token(2)>>}
       /\ IF istr.uls = Nil THEN istr.spec \notin DOMAIN Installed
          ELSE /\ istr.uls.spec = istr.spec
               /\ istr.uls.ren = by.ren \/ ~by.told \/ MakeLex(istr.spec, by.ren) = Nil
  /\ Opened /\ istr.filetype = "raw" => creation = "refused" \/ CutIn(0, MagicLen)
  /\ istr.at = "failed" =>
       creation = "refused" \/ istr.why = "tempfile" \/ CutIn(MagicLen, HdrSiz + NBlocks(by) * BlkLen)

(* A raw text arrives whole and decoded, although its beginning was read   *)
(* to see whether it is a stream.  But from a pipe it does not when it has *)
(* a byte order mark, or when that first read ends inside a character; nor *)
(* from a file with such a mark that had been read before; and a NUL after *)
(* the mark of UTF-16 is taken for the mark of UTF-32 (uls_istream.c:167-  *)
(* 220, 630-644).                                                          *)
RawTaken == Decoded(Enc(8, FALSE), istr.firstline) \o Decoded(istr.subtype, SubSeq(file, fd.pos + 1, Len(file)))
NulAfterMark == by.bom /\ by.enc = Enc(16, FALSE) /\ by.text # <<>> /\ by.text[1] = NUL
RawWhole == by.kind = "raw" /\ Opened =>
  \/ RawTaken = by.text
  \/ NulAfterMark
  \/ Seekable /\ fd.start > 0 /\ by.bom
  \/ ~Seekable /\ (by.bom \/ Broken \in ToSet(Decoded(Enc(8, FALSE), istr.firstline)))

(* The beginning of every file, stream or text, is understood.             *)
OpenedAsWritten == StreamUnderstood /\ RawWhole
=============================================================================
