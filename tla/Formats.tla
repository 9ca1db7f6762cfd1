------------------------------ MODULE Formats -------------------------------
(* Formatted output, uls_lf_sprintf.c: the flags and the names of           *)
(* conversions, what each of them makes of its argument, and one round of   *)
(* the loop of __uls_lf_vxprintf(). A text is a sequence of characters.     *)
EXTENDS Integers, SequencesExt

CONSTANTS IntBits,     \* width of int and unsigned int
          LongBits,    \* width of long and long long
          PtrDigits,   \* 2 * sizeof(void *)
          NameSiz,     \* ULS_LF_PERCENT_NAMESIZ
          DflPrecision \* ULS_LF_DFL_FLOAT_PRECISION

ASSUME FormatsConstants ==
  /\ {IntBits, LongBits, PtrDigits, NameSiz} \subseteq Nat \ {0}
  /\ IntBits <= LongBits
  /\ DflPrecision \in Nat

Digit == <<"0", "1", "2", "3", "4", "5", "6", "7", "8", "9">>
Upper == Digit \o <<"A", "B", "C", "D", "E", "F">>
Lower == Digit \o <<"a", "b", "c", "d", "e", "f">>

At(fmt, i) == IF i <= Len(fmt) THEN fmt[i] ELSE "NUL"
Times(ch, n) == [i \in 1 .. n |-> ch]
\* The place behind the characters of `set' from i on.
Past(fmt, i, set) == Min({j \in i .. Max({i, Len(fmt) + 1}) : At(fmt, j) \notin set})

(* -------- flags, width and precision -------- *)

\* The number in decimal digits (__uls_lf_skip_atou).
Atou(digits) ==
  LET val[k \in 0 .. Len(digits)] ==
        IF k = 0 THEN 0
        ELSE 10 * val[k - 1] + (CHOOSE d \in 0 .. 9 : Digit[d + 1] = digits[k])
  IN val[Len(digits)]

\* The number from i to j, or "*", of a width or a precision.
Number(fmt, i, j, none) ==
  [star |-> At(fmt, i) = "*",
   num  |-> IF j > i /\ At(fmt, i) # "*" THEN Atou(SubSeq(fmt, i, j - 1)) ELSE none]
PastNumber(fmt, i) ==
  IF At(fmt, i) = "*" THEN i + 1 ELSE Past(fmt, i, Range(Digit))

\* What stands behind '%', up to the name. A '-' takes a '0' back, but not
\* when there is a precision.
uls_pars_perfmt(fmt, i) ==
  LET w     == Past(fmt, i, {"-", "+", "#", "0"})
      dot   == PastNumber(fmt, w)
      p     == IF At(fmt, dot) = "." THEN dot + 1 ELSE dot
      end   == IF p > dot THEN PastNumber(fmt, p) ELSE dot
      given == {fmt[k] : k \in i .. w - 1}
  IN [flags |-> IF "-" \in given /\ p = dot THEN given \ {"0"} ELSE given,
      width |-> Number(fmt, w, dot, -1),
      prec  |-> IF p > dot THEN Number(fmt, p, end, DflPrecision)
                ELSE [star |-> FALSE, num |-> DflPrecision],
      next  |-> end]

(* -------- the names of conversions -------- *)

\* Names of one to NameSiz characters: a list searched in order, by prefix,
\* and tables by length, searched for the longest name.
DefaultMap ==
  [linear |-> <<[name |-> <<"s">>, proc |-> "s"], [name |-> <<"c">>, proc |-> "c"],
                [name |-> <<"d">>, proc |-> "d"], [name |-> <<"u">>, proc |-> "u"],
                [name |-> <<"f">>, proc |-> "f"], [name |-> <<"l", "d">>, proc |-> "ld"],
                [name |-> <<"l", "u">>, proc |-> "lu"], [name |-> <<"l", "f">>, proc |-> "f"],
                [name |-> <<"l", "l", "d">>, proc |-> "ld"],
                [name |-> <<"l", "l", "u">>, proc |-> "lu"],
                [name |-> <<"L", "d">>, proc |-> "ld"], [name |-> <<"L", "u">>, proc |-> "lu"],
                [name |-> <<"p">>, proc |-> "p"]>>,
   sorted |-> <<"x">> :> "x" @@ <<"X">> :> "X" @@ <<"o">> :> "o" @@ <<"e">> :> "e"
           @@ <<"g">> :> "g" @@ <<"l", "x">> :> "lx" @@ <<"l", "X">> :> "lX"
           @@ <<"L", "x">> :> "lx" @@ <<"L", "X">> :> "lX" @@ <<"l", "e">> :> "e"
           @@ <<"l", "g">> :> "g" @@ <<"l", "l", "x">> :> "lx" @@ <<"l", "l", "X">> :> "lX"
           @@ <<"S">> :> "s" @@ <<"l", "s">> :> "s" @@ <<"w", "s">> :> "s" @@ <<"h", "s">> :> "s"]

\* A nil procedure stands for the one that the tables of the default map
\* have: its list is not searched.
get_default_convspec(dfl, name) ==
  IF name \in DOMAIN dfl.sorted THEN dfl.sorted[name] ELSE "null"

Named(map, name) == {k \in DOMAIN map.linear : map.linear[k].name = name}
Registered(dfl, map, name, proc) ==
  LET p == IF proc = "nil" THEN get_default_convspec(dfl, name) ELSE proc
  IN IF Named(map, name) # {}
     THEN [map EXCEPT !.linear[Min(Named(map, name))].proc = p]
     ELSE [map EXCEPT !.sorted = (name :> p) @@ @]
IsName(name) == Len(name) \in 1 .. NameSiz /\ " " \notin Range(name)
uls_lf_register_convspec(dfl, map, name, proc) ==
  IF IsName(name) THEN Registered(dfl, map, name, proc) ELSE map

\* The maps of the logs: err_log() takes the analyser from the arguments,
\* uls_log() has it.
uls_add_default_convspecs(map) ==
  [map EXCEPT !.sorted = (<<"w">> :> "coord" @@ <<"t">> :> "tokname" @@ <<"k">> :> "keyword") @@ @]
uls_add_default_log_convspecs(map) ==
  [map EXCEPT !.sorted = (<<"w">> :> "logcoord" @@ <<"t">> :> "logtokname"
                          @@ <<"k">> :> "logkeyword") @@ @]

Listed(fmt, i, map) ==
  {k \in DOMAIN map.linear : IsPrefix(map.linear[k].name, SubSeq(fmt, i, Len(fmt)))}
Tabled(fmt, i, map) ==
  {n \in 1 .. NameSiz : /\ {At(fmt, i + k) : k \in 0 .. n - 1} \cap {" ", "NUL"} = {}
                        /\ SubSeq(fmt, i, i + n - 1) \in DOMAIN map.sorted}
find_convspec(fmt, i, map) ==
  CASE Listed(fmt, i, map) # {} ->
         LET e == map.linear[Min(Listed(fmt, i, map))]
         IN [proc |-> e.proc, next |-> i + Len(e.name)]
    [] Listed(fmt, i, map) = {} /\ Tabled(fmt, i, map) # {} ->
         LET n == Max(Tabled(fmt, i, map))
         IN [proc |-> map.sorted[SubSeq(fmt, i, i + n - 1)], next |-> i + n]
    [] OTHER -> [proc |-> "none", next |-> i]

(* -------- the texts of conversions -------- *)

\* An argument has one of the fields int, str, dbl and uls. Each text below
\* is one call of the port's puts; puts of nothing are not made.
NonEmpty(texts) == SelectSeq(texts, LAMBDA t : t # <<>>)

Numstr(n, digits, base) ==
  LET f[m \in 0 .. n] == IF m < base THEN <<digits[m + 1]>>
                         ELSE Append(f[m \div base], digits[(m % base) + 1])
  IN f[n]

uls_lf_puts_prefix(flags) ==
  (CASE "minus" \in flags -> <<"-">> [] "minus" \notin flags /\ "+" \in flags -> <<"+">>
     [] OTHER -> <<>>)
  \o (IF "hex" \in flags THEN <<"0", "x">> ELSE <<>>)

uls_lf_fill_numstr(pf, numstr) ==
  LET prefix == uls_lf_puts_prefix(pf.flags)
      fill == pf.width.num - Len(prefix) - Len(numstr)
  IN NonEmpty(CASE "-" \in pf.flags -> <<prefix, numstr, Times(" ", fill)>>
                [] "-" \notin pf.flags /\ "0" \in pf.flags -> <<prefix, Times("0", fill), numstr>>
                [] OTHER -> <<Times(" ", fill), prefix, numstr>>)

uls_lf_fill_mbstr(pf, str) ==
  LET fill == pf.width.num - Len(str)
  IN NonEmpty(CASE "-" \in pf.flags -> <<str, Times(" ", fill)>>
                [] "-" \notin pf.flags /\ "0" \in pf.flags -> <<Times("0", fill), str>>
                [] OTHER -> <<Times(" ", fill), str>>)

With(pf, flags) == [pf EXCEPT !.flags = @ \cup flags]

\* INT_MIN is negated to itself, and is right as an unsigned number.
fmtproc_d(pf, num, bits) ==
  IF num < 0
  THEN uls_lf_fill_numstr(With(pf, {"minus"}), Numstr((-num) % 2^bits, Digit, 10))
  ELSE uls_lf_fill_numstr(pf, Numstr(num, Digit, 10))
fmtproc_u(pf, num, bits) == uls_lf_fill_numstr(pf, Numstr(num % 2^bits, Digit, 10))
fmtproc_x(pf, num, bits, digits) ==
  uls_lf_fill_numstr(With(pf, IF "#" \in pf.flags THEN {"hex"} ELSE {}),
                     Numstr(num % 2^bits, digits, 16))
fmtproc_o(pf, num, bits) == uls_lf_fill_numstr(pf, Numstr(num % 2^bits, Digit, 8))
fmtproc_p(pf, num) ==
  LET prefix == IF "#" \in pf.flags THEN {"hex"} ELSE {}
  IN uls_lf_fill_numstr([With(pf, {"0"} \cup prefix) EXCEPT !.flags = @ \ {"-"},
                           !.width.num = PtrDigits + 2 * Cardinality(prefix)],
                        Numstr(num % 16^PtrDigits, Upper, 16))

(* -------- numbers with a point (uls_lf_percent_f.c) -------- *)

\* A number is its sign with the digits before and after the point, without
\* zeros at the ends.
DropZeros(ds) == SubSeq(ds, 1, Max({0} \cup {k \in DOMAIN ds : ds[k] # "0"}))
FirstZeros(ds) == Past(ds, 1, {"0"}) - 1

\* Up to n_precision digits after the point, and the power of ten.
uls_lf_double2digits(x, prec) ==
  CASE x.ip = <<>> /\ x.fp = <<>> -> [str |-> <<"0">>, expo |-> 1]
    [] x.ip = <<>> /\ x.fp # <<>> ->
         LET z == FirstZeros(x.fp)
         IN [str |-> DropZeros(SubSeq(x.fp, z + 1, Min({Len(x.fp), Max({z + 1, prec})}))),
             expo |-> -z]
    [] OTHER -> [str |-> DropZeros(x.ip \o SubSeq(x.fp, 1, Min({Len(x.fp), prec}))),
                 expo |-> Len(x.ip)]

pad_zeros(n, flags) ==
  CASE "0" \in flags -> Times("0", n)
    [] "0" \notin flags /\ "#" \in flags -> Times(" ", n)
    [] OTHER -> <<>>

Sign(neg) == IF neg THEN <<"-">> ELSE <<>>
uls_lf_digits_to_percent_f(str, neg, expo, prec, flags) ==
  LET whole == IF expo > 0 THEN [k \in 1 .. expo |-> IF k <= Len(str) THEN str[k] ELSE "0"]
               ELSE <<"0">>
      zeros == IF expo > 0 THEN <<>> ELSE Times("0", Min({-expo, prec}))
      from  == Max({expo, 0})
      rest  == SubSeq(str, from + 1, Min({Len(str), from + prec - Len(zeros)}))
  IN IF str = <<"0">> THEN <<"0", ".">> \o pad_zeros(prec, flags)
     ELSE Sign(neg) \o whole \o <<".">> \o zeros \o rest
          \o pad_zeros(prec - Len(zeros) - Len(rest), flags)

Exponent(e) ==
  CASE e = 0 -> <<>>
    [] e < 0 -> <<"E", "-">> \o Numstr(-e, Digit, 10)
    [] OTHER -> <<"E", "+">> \o Numstr(e, Digit, 10)
uls_lf_digits_to_percent_e(str, neg, expo, prec) ==
  IF str[1] = "0" \/ expo + prec <= 0 THEN <<"0", ".">>
  ELSE Sign(neg) \o <<str[1], ".">> \o SubSeq(str, 2, Min({Len(str), prec + 1}))
       \o Exponent(expo - 1)
uls_lf_digits_to_percent_g(str, neg, expo, prec, flags) ==
  IF expo < -4 \/ Max({expo, -expo}) >= prec
  THEN uls_lf_digits_to_percent_e(str, neg, expo, prec)
  ELSE uls_lf_digits_to_percent_f(str, neg, expo, prec, flags)

Digits(d, neg, pf, how) ==
  CASE how = "f" -> uls_lf_digits_to_percent_f(d.str, neg, d.expo, pf.prec.num, pf.flags)
    [] how = "e" -> uls_lf_digits_to_percent_e(d.str, neg, d.expo, pf.prec.num)
    [] how = "g" -> uls_lf_digits_to_percent_g(d.str, neg, d.expo, pf.prec.num, pf.flags)
TheOne(set) == CHOOSE v \in set : TRUE
fmtproc_f_e_g(pf, x, how) ==
  IF x.special # <<>> THEN <<x.special>>
  ELSE TheOne({uls_lf_fill_numstr(pf, numstr) :
                 numstr \in {Digits(d, x.neg, pf, how) : d \in {uls_lf_double2digits(x, pf.prec.num)}}})

(* -------- one conversion, one round -------- *)

\* The coordinates are put together in a buffer of 81 bytes; if they do not
\* fit, nothing is stored there and what it holds is printed.
Garbage == <<"?">>
uls_fmtproc_coord(pf, uls) ==
  uls_lf_fill_mbstr(pf, IF uls.long THEN Garbage ELSE uls.coord)

\* What a procedure prints of its argument; one that does not have the type
\* it reads gives garbage.
Printed(proc, pf, arg, gdat) ==
  CASE proc = "null" -> <<>>
    [] proc = "user" -> <<<<"U">>>>
    [] proc = "logcoord"   -> uls_fmtproc_coord(pf, gdat)
    [] proc = "logtokname" -> uls_lf_fill_mbstr(pf, gdat.tokname)
    [] proc = "logkeyword" -> uls_lf_fill_mbstr(pf, gdat.lexeme)
    [] proc = "coord" /\ "uls" \in DOMAIN arg   -> uls_fmtproc_coord(pf, arg.uls)
    [] proc = "tokname" /\ "uls" \in DOMAIN arg -> uls_lf_fill_mbstr(pf, arg.uls.tokname)
    [] proc = "keyword" /\ "uls" \in DOMAIN arg -> uls_lf_fill_mbstr(pf, arg.uls.lexeme)
    [] proc = "s" /\ "str" \in DOMAIN arg -> uls_lf_fill_mbstr(pf, arg.str)
    [] proc = "c" /\ "str" \in DOMAIN arg -> <<arg.str>>
    [] proc \in {"d", "u", "o", "x", "X", "p"} /\ "int" \in DOMAIN arg ->
         (CASE proc = "d" -> fmtproc_d(pf, arg.int, IntBits)
            [] proc = "u" -> fmtproc_u(pf, arg.int, IntBits)
            [] proc = "o" -> fmtproc_o(pf, arg.int, IntBits)
            [] proc = "x" -> fmtproc_x(pf, arg.int, IntBits, Lower)
            [] proc = "X" -> fmtproc_x(pf, arg.int, IntBits, Upper)
            [] proc = "p" -> fmtproc_p(pf, arg.int))
    [] proc \in {"ld", "lu", "lx", "lX"} /\ "int" \in DOMAIN arg ->
         (CASE proc = "ld" -> fmtproc_d(pf, arg.int, LongBits)
            [] proc = "lu" -> fmtproc_u(pf, arg.int, LongBits)
            [] proc = "lx" -> fmtproc_x(pf, arg.int, LongBits, Lower)
            [] proc = "lX" -> fmtproc_x(pf, arg.int, LongBits, Upper))
    [] proc \in {"f", "e", "g"} /\ "dbl" \in DOMAIN arg -> fmtproc_f_e_g(pf, arg.dbl, proc)
    [] OTHER -> <<Garbage>>

\* Procedures that take an argument.
Takes(proc) == proc \notin {"null", "logcoord", "logtokname", "logkeyword"}
Nothing == [none |-> TRUE]
Arg(args) == IF args = <<>> THEN Nothing ELSE Head(args)
Rest(args) == IF args = <<>> THEN <<>> ELSE Tail(args)
IntOf(arg) == IF "int" \in DOMAIN arg THEN arg.int ELSE 0

\* A width of '*', negative to the left, and a precision of '*'.
DynamicWidth(pf, n) ==
  IF ~pf.width.star THEN pf
  ELSE [pf EXCEPT !.width.num = Max({n, -n}), !.flags = IF n < 0 THEN @ \cup {"-"} ELSE @]
DynamicPrecision(pf, n) ==
  IF ~pf.prec.star THEN pf
  ELSE [pf EXCEPT !.prec.num = IF n < 0 THEN DflPrecision ELSE n]
Converted_Swapped(proc, pf, args, gdat) ==  \* mutant: the precision is taken first
  LET a1 == IF pf.prec.star THEN Rest(args) ELSE args
      a2 == IF pf.width.star THEN Rest(a1) ELSE a1
  IN [puts |-> Printed(proc, DynamicWidth(DynamicPrecision(pf, IntOf(Arg(args))), IntOf(Arg(a1))),
                       Arg(a2), gdat),
      args |-> IF Takes(proc) THEN Rest(a2) ELSE a2]
Converted(proc, pf, args, gdat) ==
  LET a1 == IF pf.width.star THEN Rest(args) ELSE args
      a2 == IF pf.prec.star THEN Rest(a1) ELSE a1
  IN [puts |-> Printed(proc, DynamicPrecision(DynamicWidth(pf, IntOf(Arg(args))), IntOf(Arg(a1))),
                       Arg(a2), gdat),
      args |-> IF Takes(proc) THEN Rest(a2) ELSE a2]

\* A name that is not known behind the flags is looked for right behind the
\* '%', and the flags are kept.
FindProc(fmt, i, pf, map) ==
  LET here == find_convspec(fmt, pf.next, map)
  IN IF here.proc # "none" THEN here ELSE find_convspec(fmt, i, map)

\* A round of the loop prints the text from `wrd' to the next '%' and the
\* conversion there. The text of an unknown one, '%' and all, is left to the
\* next round, and so is the second of "%%".
Percent(fmt, fr) == Past(fmt, fr.at, Range(fmt) \ {"%"})
Round(fmt, fr, stop, found, c) ==
  LET after(wrd, at) == [is |-> "text", end |-> FALSE, conv |-> <<>>,
                         fr |-> [wrd |-> wrd, at |-> at, args |-> fr.args]]
  IN [chunk |-> NonEmpty(<<SubSeq(fmt, fr.wrd, stop - 1)>>)] @@
     CASE At(fmt, stop) = "NUL" -> [end |-> TRUE, conv |-> <<>>, is |-> "text", fr |-> fr]
       [] At(fmt, stop + 1) = "%" -> after(stop + 1, stop + 2)
       [] At(fmt, stop) = "%" /\ At(fmt, stop + 1) # "%" /\ found.proc = "none" -> after(stop, stop + 1)
       [] OTHER -> [end |-> FALSE, conv |-> c.puts, is |-> "conv",
                    fr |-> [wrd |-> found.next, at |-> found.next, args |-> c.args]]
=============================================================================
