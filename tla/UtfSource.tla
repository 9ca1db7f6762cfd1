----------------------------- MODULE UtfSource ------------------------------
(***************************************************************************)
(* The source under the input buffer: uls_utf_inbuf_t decodes the words of *)
(* a UTF-8, UTF-16 or UTF-32 file into characters (utf8_enc.c), and        *)
(* uls_fill_utf8buf() encodes them as UTF-8 at the end of the raw buffer,  *)
(* the decoded words in place of the bytes to come.  uls_input_read() and  *)
(* uls_input_refill_buffer() repeat it (uls_input.c).                      *)
(*                                                                         *)
(* Abstractions.  A character is the number of words it has in the file    *)
(* and of bytes it has in UTF-8; the bytes in the raw buffer are known by  *)
(* the place in the file of the character they belong to.  Files are well  *)
(* formed up to their end, where the last character may be cut.  A read of *)
(* the descriptor takes all that fits or that there is (uls_readn()).      *)
(***************************************************************************)
EXTENDS Integers, Sequences, FiniteSets, SequencesExt

CONSTANTS
  Files,     \* [chars : sequence of [words, width], cut, fails]
  WrdBuf,    \* bytesbuf_siz, in words
  BufSiz,    \* ULS_INPUT_BUFSIZ
  WchSiz,    \* sizeof(uls_wch_t)
  ChMax,     \* ULS_UTF8_CH_MAXLEN
  Requests   \* n_req_bytes of uls_input_refill_buffer()

ASSUME FilesOK ==
  \A f \in Files :
    /\ f.chars \in Seq([words : 1..4, width : 1..ChMax])
    /\ f.fails \in BOOLEAN
    /\ f.cut # 0 => f.chars # <<>> /\ f.cut \in 1..(Last(f.chars).words - 1)
ASSUME BufsOK ==
  /\ WrdBuf \in Nat /\ WrdBuf >= 4
  /\ WchSiz \in Nat /\ ChMax \in 1..WchSiz
  /\ BufSiz \in Nat /\ BufSiz % WchSiz = 0 /\ BufSiz > ChMax
  /\ Requests \subseteq 1..(BufSiz - ChMax + 1)

VARIABLES
  file,   \* the file the descriptor is open on
  inp,    \* uls_utf_inbuf_t: words read, characters decoded, wch_buffered
  raw,    \* the bytes of inp->rawbuf
  isrc,   \* the flags of the source, ULS_ISRC_FL_EOF and ULS_ISRC_FL_ERR
  pc,     \* the loop that runs, "idle" between the calls
  call,   \* n_req_bytes, and what the loops of the call have so far
  taken   \* the bytes the reader has taken from the buffer

vars == <<file, inp, raw, isrc, pc, call, taken>>

Roundup(n, m) == ((n + m - 1) \div m) * m
WordsUpto[k \in 0..Len(file.chars)] ==
  IF k = 0 THEN 0 ELSE WordsUpto[k - 1] + file.chars[k].words
FileWords == WordsUpto[Len(file.chars)] - file.cut
n_wrds(u) == u.read - WordsUpto[u.decoded]

(* The bytes of characters, each known by its place in the file.           *)
Bytes(cs) ==
  FlattenSeq([k \in DOMAIN cs |-> [b \in 1..file.chars[cs[k]].width |-> cs[k]]])
Whole == {k \in DOMAIN file.chars : k < Len(file.chars) \/ file.cut = 0}
Encoded == Bytes([k \in 1..Cardinality(Whole) |-> k])

NoCall == [req |-> 0, at0 |-> 0, len0 |-> 0, want |-> 0, got |-> <<>>]

Init ==
  /\ file \in Files
  /\ inp = [read |-> 0, decoded |-> 0, is_eof |-> 0, wch_buffered |-> 0]
  /\ raw = <<>>
  /\ isrc = [eof |-> FALSE, err |-> FALSE]
  /\ pc = "idle" /\ call = NoCall /\ taken = <<>>

Len0 == Len(raw)
-----------------------------------------------------------------------------
(* The reader takes bytes, and asks for more than there are.               *)
Take ==
  /\ pc = "idle"
  /\ \E n \in 1..Len0 :
       /\ taken' = taken \o SubSeq(raw, 1, n)
       /\ raw' = SubSeq(raw, n + 1, Len0)
  /\ UNCHANGED <<file, inp, isrc, pc, call>>

(* uls_input_refill_buffer(): what is asked for leaves room for the longest*)
(* character, so the buffer does not grow.                                 *)
Refill ==
  /\ pc = "idle" /\ ~isrc.err
  /\ \E n \in Requests :
       n > Len0 /\ call' = [NoCall EXCEPT !.req = n, !.at0 = Len0]
  /\ pc' = "read"
  /\ UNCHANGED <<file, inp, raw, isrc, taken>>

(* Back from uls_input_read(), which returned what came since at0.         *)
RefillDone_Waits == Len0 >= call.req   \* mutant: waits for what does not come
RefillDone == Len0 = call.at0 \/ Len0 >= call.req

RefillEnds ==
  /\ pc = "refill" /\ RefillDone
  /\ pc' = "idle" /\ call' = NoCall
  /\ UNCHANGED <<file, inp, raw, isrc, taken>>

RefillAgain ==
  /\ pc = "refill" /\ ~RefillDone
  /\ pc' = "read" /\ call' = [call EXCEPT !.at0 = Len0]
  /\ UNCHANGED <<file, inp, raw, isrc, taken>>

(* uls_input_read(): one round of its loop.                                *)
Read ==
  /\ pc = "read"
  /\ pc' = IF isrc.eof THEN "refill" ELSE "fill"
  /\ call' = [call EXCEPT !.len0 = Len0]
  /\ UNCHANGED <<file, inp, raw, isrc, taken>>

(* uls_fill_utf8buf() returned -1: both flags are set.                     *)
FillFailed ==
  /\ isrc' = [eof |-> TRUE, err |-> TRUE]
  /\ pc' = "idle" /\ call' = NoCall
  /\ UNCHANGED <<file, inp, raw, taken>>

(* It returned: uls_fill_fd_isrc_utf8() takes no byte more for the end of  *)
(* the file if is_eof is set, and uls_input_read() goes on if there is room*)
(* and something came.                                                     *)
AtEof_NoInput(u) == TRUE               \* mutant: no byte more is EOF
AtEof(u) == u.is_eof > 0

FillReturned ==
  /\ isrc' = [isrc EXCEPT !.eof = @ \/ (Len0 = call.len0 /\ AtEof(inp))]
  /\ pc' = IF Len0 > call.len0 /\ Len0 < BufSiz THEN "read" ELSE "refill"
  /\ UNCHANGED <<file, raw, taken>>
-----------------------------------------------------------------------------
(* uls_fill_utf8buf(): one round of its loops asks for as many characters  *)
(* as the rest of the buffer holds in uls_wch_t, or for one if none fits.  *)
InPlaceAt_Unaligned == (Len0 \div WchSiz) * WchSiz \* mutant: rounds down
InPlaceAt == Roundup(Len0, WchSiz)
InPlace == InPlaceAt + ChMax <= BufSiz

Wanted == IF InPlace THEN (BufSiz - InPlaceAt) \div WchSiz ELSE 1

FillDrain ==
  /\ pc = "fill" /\ (InPlace \/ Len0 < BufSiz)
  /\ pc' = "drain"
  /\ call' = [call EXCEPT
       !.want = Wanted,
       !.got = IF inp.wch_buffered = 0 THEN <<>> ELSE <<inp.wch_buffered>>]
  /\ inp' = [inp EXCEPT !.wch_buffered = 0]
  /\ UNCHANGED <<file, raw, isrc, taken>>

FillFull ==
  /\ pc = "fill" /\ ~InPlace /\ Len0 >= BufSiz
  /\ FillReturned /\ UNCHANGED <<inp, call>>

(* fill_utf8_buf() and its likes for UTF-16 and UTF-32.                    *)
RawRoom == WrdBuf - n_wrds(inp)

TooFewWords == n_wrds(inp) < 4

RawFilled ==
  LET rest == FileWords - inp.read
      rc   == IF rest < RawRoom THEN rest ELSE RawRoom
      read == [inp EXCEPT !.read = @ + rc, !.is_eof = IF rc = 0 THEN 1 ELSE 0]
  IN IF ~TooFewWords \/ inp.is_eof # 0 THEN {inp}
     ELSE {read} \cup (IF file.fails THEN {[inp EXCEPT !.is_eof = -1]} ELSE {})

(* dec_utf8_buf(): the whole characters among the words, at most max.      *)
Decodable(u, max) ==
  LET ns == {n \in 0..max : u.decoded + n <= Len(file.chars)
                            /\ WordsUpto[u.decoded + n] <= u.read}
  IN CHOOSE n \in ns : \A m \in ns : m <= n

(* uls_utf_drain_inbuf(): one round of its loop.                           *)
DrainRound ==
  /\ pc = "drain" /\ Len(call.got) < call.want
  /\ \E u \in RawFilled :
       LET n == Decodable(u, call.want - Len(call.got))
       IN /\ u.is_eof >= 0 /\ n > 0
          /\ inp' = [u EXCEPT !.decoded = @ + n]
          /\ call' = [call EXCEPT !.got = @ \o [k \in 1..n |-> u.decoded + k]]
  /\ UNCHANGED <<file, raw, isrc, pc, taken>>

DrainEnd ==                            \* n_wrds <= 0, or all that was wanted
  /\ pc = "drain"
  /\ IF Len(call.got) >= call.want THEN inp' = inp
     ELSE inp' \in {u \in RawFilled : u.is_eof >= 0 /\ n_wrds(u) = 0}
  /\ pc' = "encode"
  /\ UNCHANGED <<file, raw, isrc, call, taken>>

DrainFails ==                          \* the descriptor failed, or a character
  /\ pc = "drain" /\ Len(call.got) < call.want   \* is cut at the end of the file
  /\ \E u \in RawFilled :
       u.is_eof < 0 \/ (n_wrds(u) > 0 /\ Decodable(u, 1) = 0)
  /\ FillFailed
-----------------------------------------------------------------------------
(* Back in uls_fill_utf8buf(), with the characters in call.got.            *)
EncodeNone ==
  /\ pc = "encode" /\ call.got = <<>>
  /\ FillReturned /\ UNCHANGED <<inp, call>>

Fits == Len0 + Len(Bytes(call.got)) <= BufSiz

Encode ==                              \* uls_fill_utf8str()
  /\ pc = "encode" /\ call.got # <<>> /\ Fits
  /\ raw' = raw \o Bytes(call.got)
  /\ pc' = "fill" /\ call' = [call EXCEPT !.want = 0, !.got = <<>>]
  /\ UNCHANGED <<file, inp, isrc, taken>>

EncodeKeeps ==                         \* the character waits for more room
  /\ pc = "encode" /\ call.got # <<>> /\ ~Fits
  /\ FillReturned
  /\ call' = [call EXCEPT !.want = 0, !.got = <<>>]
  /\ inp' = [inp EXCEPT !.wch_buffered = call.got[1]]

InCall == RefillEnds \/ RefillAgain \/ Read \/ FillDrain \/ FillFull
          \/ DrainRound \/ DrainEnd \/ DrainFails
          \/ EncodeNone \/ Encode \/ EncodeKeeps
Next == Take \/ Refill \/ InCall

(* The call runs to its end; whether it is made is up to the reader.       *)
Spec == Init /\ [][Next]_vars /\ WF_vars(InCall)
-----------------------------------------------------------------------------
(* The reader takes the characters of the file in their order, none twice  *)
(* and none missing between others, however the buffers divide them.       *)
InOrder == IsPrefix(taken \o raw, Encoded)

(* The decoded words lie in the raw buffer ahead of the bytes encoded from *)
(* them: no byte is written over a word that is still to be encoded, and   *)
(* neither buffer holds more than it has room for.                         *)
InPlaceSafe ==
  /\ Len0 <= BufSiz /\ n_wrds(inp) \in 0..WrdBuf
  /\ pc = "encode" /\ InPlace =>
       /\ InPlaceAt + WchSiz * Len(call.got) <= BufSiz
       /\ \A j \in DOMAIN call.got :
            Len0 + Len(Bytes(SubSeq(call.got, 1, j))) <= InPlaceAt + WchSiz * j

(* At EOF every character has reached the buffer (README:17, "It can       *)
(* tokenize the input file which encoded by UTF-8").                       *)
CompleteAtEof == isrc.eof /\ ~isrc.err => taken \o raw = Encoded

(* What may be missing at EOF is a character of several bytes that had no  *)
(* room in the buffer, and less than four words after it; an error is      *)
(* reported only for a read that failed or a file cut within a character.  *)
EndsTruly ==
  /\ isrc.eof /\ ~isrc.err /\ taken \o raw # Encoded =>
       /\ inp.wch_buffered # 0 /\ file.chars[inp.wch_buffered].width > 1
       /\ inp.is_eof = 1 /\ n_wrds(inp) < 4
       /\ taken \o raw = Bytes([k \in 1..(inp.wch_buffered - 1) |-> k])
  /\ isrc.err => file.fails \/ file.cut > 0

(* uls_input_refill_buffer() returns, and with the bytes that the comments *)
(* and literals of the filler count on unless the source ended or failed:  *)
(* its loops do not wait for ever on a buffer without room.                *)
RefillReturns ==
  pc # "idle" ~> pc = "idle" /\ (Len0 >= call.req \/ isrc.eof \/ isrc.err)

(* Both together: the file is decoded in place, in order and with nothing   *)
(* overwritten before it is read.                                          *)
DecodedInPlace == InOrder /\ InPlaceSafe
=============================================================================
