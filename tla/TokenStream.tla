---------------------------- MODULE TokenStream -----------------------------
(***************************************************************************)
(* A token stream (a uls-file): uls_ostream_t packs tokens, and the lines  *)
(* and tags they come from, into records (uls_ostream.c), and a context    *)
(* that reads the file unpacks them again: xcontext_binfd_filler() and     *)
(* xcontext_txtfd_filler() (uls_context.c) and uls_gettok_bin()            *)
(* (uls_istream.c).  The writer may crash, or run out of space on disk; a  *)
(* reader opens what is there.                                             *)
(*                                                                         *)
(* Abstractions.  A record is its token, its text and its line; the bytes  *)
(* it takes are counted.  Texts have no blanks and no digits: in one that  *)
(* has, get_txthdr_2() may find what it takes for records.  The two byte   *)
(* orders of binary streams are one format.  Left out are the file's header*)
(* and the suffix of numbers.  A disk that is full stays full.             *)
(***************************************************************************)
EXTENDS Integers, Sequences, SequencesExt

CONSTANTS
  Scripts,    \* what callers write: sequences of calls, each a record
              \* with op "print", "linenum", "start" or "giveup"
  Formats,    \* the formats among "bin" and "txt"
  TextLen,    \* the length of each text and tag
  Templates,  \* of each template variable: the set of its value, a
              \* sequence of packets; the empty set if it has none
  Spaces,     \* the bytes a disk may have left
  FlushAt,    \* the 1024 of __flush_uls_stream_buffer()
  BufSiz      \* ULS_INPUT_BUFSIZ

EOI == "EOI"
EOF == "EOF"
ERR == "ERR"
LINENUM == "LINENUM"
TMPL == "TMPL"
NoTag == "no tag"       \* a NULL pointer
Torn == "torn"          \* bytes of the header and a part of the text
FileTag == "file"       \* the path of the file, the tag its reader begins with

ULS_BIN_RECHDR_SZ == 8
ULS_TXT_RECHDR_SZ == 32
TxtHdrLen == 12         \* "%5d %5d" and a blank

ASSUME SizesOK ==
  /\ Formats \subseteq {"bin", "txt"} /\ Spaces \subseteq Nat
  /\ FlushAt \in Nat /\ BufSiz \in Nat /\ BufSiz >= ULS_TXT_RECHDR_SZ
  /\ \A t \in DOMAIN TextLen : TextLen[t] \in Nat

Note(tag, line) == [tag |-> tag, line |-> line]
Tok(tok, txt, note) == [tok |-> tok, txt |-> txt, note |-> note]

VARIABLES
  fmt,        \* the format of the stream
  ostr,       \* uls_ostream_t, the call that runs and the calls to come
  disk,       \* the records of the file, and how many bytes of them it has
  given,      \* the tokens given to the writer so far
  inp,        \* uls_input_t of the reader, its file and its raw buffer
  ctx,        \* uls_context_t of the reader
  delivered   \* the tokens uls_get_tok() has delivered

vars == <<fmt, ostr, disk, given, inp, ctx, delivered>>
writer == <<fmt, ostr, disk, given>>

Roundup(n, m) == ((n + m - 1) \div m) * m
Least(i, j) == IF i < j THEN i ELSE j
Most(i, j) == IF i < j THEN j ELSE i

Rec(tok, txt, line, len) == [tok |-> tok, txt |-> txt, line |-> line, len |-> len]
RecSize(r) == IF fmt = "bin" THEN ULS_BIN_RECHDR_SZ + Roundup(r.len + 1, 4)
              ELSE TxtHdrLen + r.len + 1
Size(rs) ==
  LET upTo[i \in 0..Len(rs)] == IF i = 0 THEN 0 ELSE upTo[i - 1] + RecSize(rs[i])
  IN upTo[Len(rs)]

Init ==
  /\ fmt \in Formats
  /\ ostr \in [pc : {"idle"}, calls : Scripts, src : {<<>>}, numbering : {FALSE},
               last : {Note("", 0)}, note : {Note(FileTag, 1)}, out : {<<>>},
               told : {FALSE}, err : {FALSE}]
  /\ disk \in [recs : {<<>>}, size : {0}, space : Spaces]
  /\ given = <<>>
  /\ inp = [st |-> "none", next |-> 1, n |-> 0, siz |-> BufSiz, left |-> 0]
  /\ ctx = [st |-> "fill", zbuf |-> <<>>, note |-> Note(FileTag, 1)]
  /\ delivered = <<>>
-----------------------------------------------------------------------------
(* The packets, and __flush_uls_stream_buffer().                           *)
uls_make_packet(tok, txt) == Rec(tok, txt, 0, TextLen[txt])

(* The text is the line number, here of one digit, and the tag if there is *)
(* one; a tag of no length is written by uls_make_pkt__txt_lno() only.     *)
uls_make_packet_linenum(note) ==
  LET tag == IF fmt = "bin" /\ note.tag = "" THEN NoTag ELSE note.tag
  IN Rec(LINENUM, tag, note.line, IF tag = NoTag THEN 1 ELSE 2 + TextLen[tag])

EofRec == Rec(EOF, "", 0, 3)           \* "<line> <length of the tag>"
EoiRec == Rec(EOI, "", 0, 0)

Flushed_Keeps(d, out, force) ==        \* mutant: the buffer is not reset
  IF Size(out) <= FlushAt /\ ~force THEN [disk |-> d, out |-> out, ok |-> TRUE]
  ELSE [disk |-> [d EXCEPT !.recs = @ \o out,
                           !.size = Least(@ + Size(out), d.space)],
        out |-> out, ok |-> d.size + Size(out) <= d.space]
Flushed(d, out, force) ==
  LET ok == d.size + Size(out) <= d.space
  IN IF Size(out) <= FlushAt /\ ~force THEN [disk |-> d, out |-> out, ok |-> TRUE]
     ELSE [disk |-> [d EXCEPT !.recs = @ \o out,
                              !.size = Least(@ + Size(out), d.space)],
           out |-> IF ok THEN <<>> ELSE out, ok |-> ok]

(* The caller of a call that failed makes no other one but the last, and   *)
(* marks the stream with ULS_STREAM_ERR or not (write_uls_files() does).   *)
Failing(o) ==
  {[o EXCEPT !.pc = "idle", !.calls = <<>>, !.src = <<>>,
             !.told = TRUE, !.err = mark] : mark \in BOOLEAN}

Idle(op) == ostr.pc = "idle" /\ ostr.calls # <<>> /\ Head(ostr.calls).op = op
call == Head(ostr.calls)

PrintRecord(rec, note) ==                    \* what both printing calls do
  LET f == Flushed(disk, Append(ostr.out, rec), FALSE)
      o == [ostr EXCEPT !.calls = Tail(@), !.out = f.out, !.note = note]
  IN /\ disk' = f.disk
     /\ ostr' \in IF f.ok THEN {o} ELSE Failing(o)
     /\ UNCHANGED <<fmt, inp, ctx, delivered>>

PrintTok ==                            \* __uls_print_tok()
  /\ Idle("print")
  /\ PrintRecord(uls_make_packet(call.tok, call.txt), ostr.note)
  /\ given' = Append(given, Tok(call.tok, call.txt, ostr.note))

PrintTokLinenum ==                     \* __uls_print_tok_linenum()
  /\ Idle("linenum")
  /\ PrintRecord(uls_make_packet_linenum(call.note),
           Note(IF call.note.tag = NoTag THEN ostr.note.tag ELSE call.note.tag,
                call.note.line))
  /\ UNCHANGED given
GiveUp ==                              \* print_tmpl_stream_file() got ERR from
  /\ Idle("giveup")                    \* its source
  /\ ostr' \in Failing(ostr)
  /\ UNCHANGED <<fmt, disk, given, inp, ctx, delivered>>
-----------------------------------------------------------------------------
(* uls_start_stream(): what was printed and not flushed yet is dropped; the*)
(* last tag and line are such that the first token has them written.       *)
StartStream ==
  /\ Idle("start")
  /\ ostr' = [ostr EXCEPT !.pc = "start", !.calls = Tail(@), !.out = <<>>,
                !.src = call.src, !.numbering = call.numbering,
                !.last = Note(IF call.src[1].note.tag = "" THEN "?" ELSE "", 0)]
  /\ UNCHANGED <<fmt, disk, given, inp, ctx, delivered>>

Starting(tok) ==
  ostr.pc = "start" /\ ostr.src # <<>> /\ Head(ostr.src).tok = tok

Linenum(t) ==
  IF ~ostr.numbering THEN <<>>
  ELSE IF t.note.tag # ostr.last.tag THEN <<uls_make_packet_linenum(t.note)>>
  ELSE IF t.note.line # ostr.last.line
    THEN <<uls_make_packet_linenum(Note(NoTag, t.note.line))>>
  ELSE <<>>

StartTok ==
  /\ ostr.pc = "start" /\ ostr.src # <<>> /\ Head(ostr.src).tok # ERR
  /\ LET t == Head(ostr.src)
         rec == IF t.tok = EOF THEN EofRec ELSE uls_make_packet(t.tok, t.txt)
         note == IF ostr.numbering THEN t.note ELSE ostr.note
         f == Flushed(disk, ostr.out \o Linenum(t) \o <<rec>>, FALSE)
         o == [ostr EXCEPT !.src = Tail(@), !.out = f.out, !.note = note,
                           !.last = IF ostr.numbering THEN t.note ELSE @]
     IN /\ disk' = f.disk
        /\ ostr' \in IF f.ok THEN {o} ELSE Failing([o EXCEPT !.out = <<>>])
        /\ given' = IF t.tok = EOF THEN given
                    ELSE Append(given, Tok(t.tok, t.txt, note))
  /\ UNCHANGED <<fmt, inp, ctx, delivered>>

StartEoi ==                            \* uls_get_tok() returned EOI
  /\ ostr.pc = "start" /\ ostr.src = <<>>
  /\ LET f == Flushed(disk, ostr.out, TRUE)
         o == [ostr EXCEPT !.pc = "idle", !.out = <<>>]
     IN disk' = f.disk /\ ostr' \in IF f.ok THEN {o} ELSE Failing(o)
  /\ UNCHANGED <<fmt, given, inp, ctx, delivered>>

StartErr ==                            \* it returned ERR
  /\ Starting(ERR)
  /\ ostr' \in Failing([ostr EXCEPT !.out = <<>>])
  /\ given' = Append(given, Head(ostr.src))
  /\ UNCHANGED <<fmt, disk, inp, ctx, delivered>>
-----------------------------------------------------------------------------
(* uls_destroy_ostream(): EOF, EOI, and __uls_finalize_ostream(), whose    *)
(* failure is not reported, writes EOI again and what is left.             *)
DestroyOStream_Always ==               \* mutant: does not look at ULS_STREAM_ERR
  /\ ostr.pc = "idle" /\ ostr.calls = <<>>
  /\ disk' = Flushed(disk, ostr.out \o <<EofRec, EoiRec, EoiRec>>, TRUE).disk
  /\ ostr' = [ostr EXCEPT !.pc = "closed", !.out = <<>>]
  /\ UNCHANGED <<fmt, given, inp, ctx, delivered>>
DestroyOStream ==
  /\ ostr.pc = "idle" /\ ostr.calls = <<>>
  /\ LET eof == Flushed(disk, Append(ostr.out, EofRec), FALSE)
         eoi == Flushed(eof.disk, Append(eof.out, EoiRec), FALSE)
         fin == Flushed(eoi.disk, Append(eoi.out, EoiRec), TRUE)
     IN IF ~eof.ok \/ ~eoi.ok
          THEN /\ disk' = IF eof.ok THEN eoi.disk ELSE eof.disk
               /\ ostr' = [ostr EXCEPT !.pc = "closed", !.told = TRUE]
        ELSE /\ disk' = IF ostr.err THEN eoi.disk ELSE fin.disk
             /\ ostr' = [ostr EXCEPT !.pc = "closed", !.out = <<>>]
  /\ UNCHANGED <<fmt, given, inp, ctx, delivered>>

Crash ==
  /\ ostr.pc \in {"idle", "start"}
  /\ ostr' = [ostr EXCEPT !.pc = "closed", !.told = TRUE, !.out = <<>>]
  /\ UNCHANGED <<fmt, disk, given, inp, ctx, delivered>>

Open ==                                \* uls_push_istream()
  /\ ostr.pc = "closed" /\ inp.st = "none"
  /\ inp' = [inp EXCEPT !.st = "open", !.left = disk.size]
  /\ UNCHANGED <<writer, ctx, delivered>>
-----------------------------------------------------------------------------
(* The reader fills its packet buffer.  A read takes all that fits or that *)
(* there is; a record begins at rawbuf_ptr.                                *)
Filling(f) == inp.st = "open" /\ ctx.st = "fill" /\ ctx.zbuf = <<>> /\ fmt = f
Got == Least(inp.siz - inp.n, inp.left)
Buffered == inp.n + Got
Next1 == disk.recs[inp.next]

FillErr ==                             \* set_err_tok()
  /\ ctx' = [ctx EXCEPT !.st = "err"]
  /\ UNCHANGED <<writer, inp, delivered>>

(* insert_txt_record_into_stream() and its like in the two checkers of     *)
(* binary records, which keep a template variable that has no value.       *)
IsVar(tok, txt) == tok = TMPL /\ txt \in DOMAIN Templates
ValueOf(txt) == CHOOSE v \in Templates[txt] : TRUE

Packets(r) ==
  IF ~IsVar(r.tok, r.txt) THEN <<r>>
  ELSE IF Templates[r.txt] = {} THEN (IF fmt = "bin" THEN <<r>> ELSE <<>>)
  ELSE [i \in DOMAIN ValueOf(r.txt) |->
          Rec(ValueOf(r.txt)[i].tok, ValueOf(r.txt)[i].txt, 0, 0)]

Parsed(m, siz, n, left) ==
  LET packets == FlattenSeq([i \in 1..m |-> Packets(disk.recs[inp.next + i - 1])])
  IN /\ inp' = [inp EXCEPT !.next = @ + m, !.n = n, !.siz = siz, !.left = left]
     /\ ctx' = [ctx EXCEPT !.zbuf = packets,
                           !.st = IF packets = <<>> THEN "err" ELSE @]
     /\ UNCHANGED <<writer, delivered>>

(* The records that are whole in n bytes, each found where at least min    *)
(* bytes are left.                                                         *)
UpTo(m) == Size(SubSeq(disk.recs, inp.next, inp.next + m - 1))
WholeIn(n, min) ==
  Max({m \in 0..(Len(disk.recs) - inp.next + 1) :
         UpTo(m) <= n /\ (m > 0 => n - UpTo(m - 1) >= min)})

(* xcontext_binfd_filler(): nothing left before an EOI is "NO-EOI", less   *)
(* than a header is "incorrect format error!".                             *)
BinNone == Filling("bin") /\ Buffered < ULS_BIN_RECHDR_SZ /\ FillErr

(* __check_rec_boundary_bin(): a first record that is not whole is read to *)
(* its end.                                                                *)
Missing == RecSize(Next1) - Buffered

BinLarge ==
  /\ Filling("bin") /\ Buffered >= ULS_BIN_RECHDR_SZ /\ Missing > 0
  /\ IF inp.left - Got < Missing THEN FillErr
     ELSE Parsed(1, Most(inp.siz, RecSize(Next1)), 0, inp.left - Got - Missing)

BinMany ==
  /\ Filling("bin") /\ Buffered >= ULS_BIN_RECHDR_SZ /\ Missing <= 0
  /\ LET m == WholeIn(Buffered, 0)
     IN Parsed(m, inp.siz, Buffered - UpTo(m), inp.left - Got)

(* xcontext_txtfd_filler(): when nothing more comes, what is left is taken *)
(* apart by get_txthdr_2(), which takes the text to begin where its header *)
(* does: the bytes that are there may be as many as the text has.  If they *)
(* are not it looks for a header within the text: "record truncated!".     *)
Misread == inp.n >= TxtHdrLen - 1 /\ inp.n - Next1.len \in {0, 1}

TxtTorn ==
  /\ Filling("txt") /\ Got = 0 /\ inp.n > 0 /\ Misread
  /\ inp' = [inp EXCEPT !.next = @ + 1, !.n = 0]
  /\ ctx' = [ctx EXCEPT !.zbuf = <<[Next1 EXCEPT !.txt = Torn]>>]
  /\ UNCHANGED <<writer, delivered>>

TxtEnd_Again ==                        \* mutant: it reads again
  /\ Filling("txt") /\ Got = 0
  /\ IF inp.n = 0 THEN FillErr ELSE UNCHANGED vars
TxtEnd ==
  Filling("txt") /\ Got = 0 /\ (inp.n > 0 => ~Misread) /\ FillErr

TxtTaken == WholeIn(Buffered, ULS_TXT_RECHDR_SZ)

(* Too little for a record; or one that "must include at least one record".*)
TxtWider == IF Buffered < ULS_TXT_RECHDR_SZ THEN inp.siz
            ELSE Roundup(inp.siz + Next1.len + 1, BufSiz)
TxtMore ==
  /\ Filling("txt") /\ Got > 0 /\ TxtTaken = 0
  /\ inp' = [inp EXCEPT !.n = Buffered, !.left = @ - Got, !.siz = TxtWider]
  /\ UNCHANGED <<writer, ctx, delivered>>

TxtMany ==
  /\ Filling("txt") /\ Got > 0
  /\ LET m == TxtTaken
     IN m > 0 /\ Parsed(m, inp.siz, Buffered - UpTo(m), inp.left - Got)
-----------------------------------------------------------------------------
(* uls_gettok_bin(): the next packet.                                      *)
Getting == ctx.st = "fill" /\ ctx.zbuf # <<>>
Packet == Head(ctx.zbuf)

GetLinenum ==
  /\ Getting /\ Packet.tok = LINENUM
  /\ ctx' = [ctx EXCEPT !.zbuf = Tail(@), !.note =
       Note(IF Packet.txt = NoTag THEN @.tag ELSE Packet.txt, Packet.line)]
  /\ UNCHANGED <<writer, inp, delivered>>

(* uls_get_tok() pops the context whether EOF is wanted or not.            *)
GetEnd ==
  /\ Getting /\ Packet.tok \in {EOF, EOI}
  /\ ctx' = [ctx EXCEPT !.zbuf = <<>>, !.st = "eof"]
  /\ UNCHANGED <<writer, inp, delivered>>

GetToken ==
  /\ Getting /\ Packet.tok \notin {EOF, EOI, LINENUM}
  /\ delivered' = Append(delivered, Tok(Packet.tok, Packet.txt, ctx.note))
  /\ ctx' = [ctx EXCEPT !.zbuf = Tail(@)]
  /\ UNCHANGED <<writer, inp>>

Write == PrintTok \/ PrintTokLinenum \/ GiveUp \/ StartStream \/ StartTok \/ StartEoi
         \/ StartErr \/ DestroyOStream
Read == Open \/ BinNone \/ BinLarge \/ BinMany \/ TxtTorn \/ TxtEnd \/ TxtMore
        \/ TxtMany \/ GetLinenum \/ GetEnd \/ GetToken
Ended == ctx.st \in {"eof", "err"} /\ UNCHANGED vars
Next == Write \/ Crash \/ Read \/ Ended

(* The reader's calls run to their end, and it takes all tokens there are. *)
Spec == Init /\ [][Next]_vars /\ WF_vars(Read)
-----------------------------------------------------------------------------
(* What a reader is to deliver for the tokens that were given: of a        *)
(* variable without a value the binary formats deliver the name, the text  *)
(* format nothing.                                                         *)
NoValue(t) == IsVar(t.tok, t.txt) /\ Templates[t.txt] = {}
Expanded(t) ==
  IF NoValue(t) THEN (IF fmt = "bin" THEN <<t>> ELSE <<>>)
  ELSE IF ~IsVar(t.tok, t.txt) THEN <<t>>
  ELSE [i \in DOMAIN ValueOf(t.txt) |->
          Tok(ValueOf(t.txt)[i].tok, ValueOf(t.txt)[i].txt, t.note)]
Promised == FlattenSeq([i \in DOMAIN given |-> Expanded(given[i])])

Bare(ts) == [i \in DOMAIN ts |-> <<ts[i].tok, ts[i].txt>>]

(* However the writer flushes and the reader's buffer cuts the file, tokens*)
(* come out as they went in: none missing between others, none twice, the  *)
(* template variables replaced, uls_get_lineno() and uls_get_tag() those of*)
(* the token written.  Not promised: the token that get_txthdr_2() makes of*)
(* a text record that was cut, and an empty tag in a binary stream.        *)
Intact == SelectSeq(delivered, LAMBDA t : t.txt # Torn)
SameNote(note, promised) ==
  /\ note.line = promised.line
  /\ note.tag = promised.tag \/ (fmt = "bin" /\ promised.tag = "")
ReplayedInOrder ==
  /\ IsPrefix(Bare(Intact), Bare(Promised))
  /\ \A i \in DOMAIN delivered \cap DOMAIN Promised :
       SameNote(delivered[i].note, Promised[i].note)

(* A reader gets to EOF only if it had every token, or the writer's caller *)
(* was told of a failure or crashed and did not mark the stream with       *)
(* ULS_STREAM_ERR: uls_destroy_ostream() may write EOF before it looks at  *)
(* the mark.  It gets to ERR only if something is missing on the disk, or  *)
(* in the text format for a variable without a value (a fill with nothing  *)
(* else in it is taken for the end): however small the reader's buffer.    *)
EndsTruly ==
  /\ ctx.st = "eof" =>
       Bare(delivered) = Bare(Promised) \/ (ostr.told /\ ~ostr.err)
  /\ ctx.st = "err" =>
       \/ ostr.pc # "closed" \/ ostr.told \/ disk.size # Size(disk.recs)
       \/ fmt = "txt" /\ \E i \in DOMAIN given : NoValue(given[i])

(* A reader gets to EOF or to ERR, of a truncated file too.                *)
ReaderEnds == inp.st = "open" ~> ctx.st \in {"eof", "err"}
=============================================================================
