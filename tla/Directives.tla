----------------------------- MODULE Directives -----------------------------
(* What a format means to its author: a list of parts, each a text, a "%%"  *)
(* or a conversion with its arguments, and what may be printed for each. A  *)
(* printed number is judged by reading it back.                             *)
EXTENDS Formats

CONSTANT Scale   \* decimals that numbers with a point are compared in

(* A part is [text], [percent] or [flags, width, prec, name, arg], where a   *)
(* width and a precision are [how, n] with how in "none", "num", "star".     *)
Text(t) == [text |-> t]
IsText(p) == "text" \in DOMAIN p
IsConv(p) == "name" \in DOMAIN p

Written(x) ==
  CASE x.how = "none" -> <<>> [] x.how = "star" -> <<"*">> [] OTHER -> Numstr(x.n, Digit, 10)
FmtOf(p) ==
  CASE IsText(p) -> p.text
    [] IsConv(p) -> <<"%">> \o p.flags \o Written(p.width)
                    \o (IF p.prec.how = "none" THEN <<>> ELSE <<".">> \o Written(p.prec)) \o p.name
    [] OTHER     -> <<"%", "%">>
Star(x) == IF x.how = "star" THEN <<[int |-> x.n]>> ELSE <<>>

\* `procs' says what each name stands for.
ArgsOf(p, procs) ==
  IF IsConv(p) /\ p.name \in DOMAIN procs
  THEN Star(p.width) \o Star(p.prec) \o (IF Takes(procs[p.name]) THEN <<p.arg>> ELSE <<>>)
  ELSE <<>>
Format(parts) == FlattenSeq([k \in DOMAIN parts |-> FmtOf(parts[k])])
Arguments(parts, procs) == FlattenSeq([k \in DOMAIN parts |-> ArgsOf(parts[k], procs)])

ListedNames == {DefaultMap.linear[k].name : k \in DOMAIN DefaultMap.linear}
Standard ==
  [n \in ListedNames |-> DefaultMap.linear[Min(Named(DefaultMap, n))].proc] @@ DefaultMap.sorted

\* A nil procedure gives a name its standard one back.
MeaningOf(name, proc) ==
  CASE proc # "nil" -> proc
    [] proc = "nil" /\ name \in DOMAIN Standard -> Standard[name]
    [] OTHER -> "null"

(* -------- reading back -------- *)

Bare(t) == SelectSeq(t, LAMBDA c : c # " ")
DigitVal(c) == CHOOSE d \in 0 .. 15 : c \in {Upper[d + 1], Lower[d + 1]}
IsDigits(ds, base) ==
  \A k \in DOMAIN ds : \E d \in 0 .. base - 1 : ds[k] \in {Upper[d + 1], Lower[d + 1]}
Val(ds, base) ==
  LET v[k \in 0 .. Len(ds)] == IF k = 0 THEN 0 ELSE base * v[k - 1] + DigitVal(ds[k])
  IN v[Len(ds)]
Signless(t) == IF t # <<>> /\ Head(t) \in {"-", "+"} THEN Tail(t) ELSE t
Hexless(t) == IF IsPrefix(<<"0", "x">>, t) THEN SubSeq(t, 3, Len(t)) ELSE t
Negative(t) == t # <<>> /\ Head(t) = "-"

Left(p) == "-" \in Range(p.flags) \/ (p.width.how = "star" /\ p.width.n < 0)
Width(p) == IF p.width.how = "none" THEN 0 ELSE Max({p.width.n, -p.width.n})
Precision(p) == IF p.prec.how = "none" \/ p.prec.n < 0 THEN DflPrecision ELSE p.prec.n
Beside(p, t, body) ==
  t = IF Left(p) THEN body \o Times(" ", Len(t) - Len(body)) ELSE Times(" ", Len(t) - Len(body)) \o body

\* The digits are those of the number, no more of them than the width asks for.
WholeMeant(p, t, num, base) ==
  LET body == Bare(t)
      ds == Hexless(Signless(body))
      short == Numstr(Max({num, -num}), Upper, base)
  IN /\ ds # <<>> /\ IsDigits(ds, base)
     /\ Val(ds, base) = Max({num, -num})
     /\ Negative(body) <=> num < 0
     /\ Len(t) = Max({Width(p), Len(body) - Len(ds) + Len(short)})
     /\ Beside(p, t, body)

\* Decimals are cut off, not rounded.
Power(b, n) == LET f[k \in 0 .. n] == IF k = 0 THEN 1 ELSE b * f[k - 1] IN f[n]
Scaled(ip, fp) == Val(ip \o fp, 10) * Power(10, Scale - Len(fp))
ReadsAs(body) ==
  LET t == Signless(body)
      e == Min({Len(t) + 1} \cup {k \in DOMAIN t : t[k] = "E"})
      dot == Min({e} \cup {k \in DOMAIN t : t[k] = "."})
      fp == SubSeq(t, dot + 1, e - 1)
      ex == SubSeq(t, e + 1, Len(t))
      n == IF e > Len(t) THEN 0 ELSE Val(Signless(ex), 10)
      shift == Scale - Len(fp) + IF Negative(ex) THEN -n ELSE n
      mant == Val(SubSeq(t, 1, dot - 1) \o fp, 10)
  IN IF shift >= 0 THEN mant * Power(10, shift) ELSE mant \div Power(10, -shift)
Order(x) ==    \* the power of ten of the first digit
  IF x.ip # <<>> THEN Len(x.ip) - 1 ELSE -FirstZeros(x.fp) - 1
PointMeant(p, t, x) ==
  LET body == Bare(t)
      exact == Scaled(x.ip, x.fp)
      read == ReadsAs(body)
      unit == Power(10, Scale - Precision(p))
      first == Power(10, Max({0, Scale + Order(x) - Precision(p)}))
  IN IF x.special # <<>> THEN t = x.special
     ELSE /\ IF Last(p.name) = "f" THEN read = exact - (exact % unit)
             ELSE read <= exact /\ exact - read < Max({unit, first})
          /\ read # 0 => (Negative(body) <=> x.neg)
          /\ Len(t) >= Width(p)
          /\ "#" \in Range(p.flags) \/ Beside(p, t, body)

StringMeant(p, t, s) ==
  LET fill == Max({0, Width(p) - Len(s)})
  IN t \in IF Left(p) THEN {s \o Times(" ", fill)}
           ELSE {Times(c, fill) \o s : c \in {" "} \cup (Range(p.flags) \cap {"0"})}

\* A negative number with a point, with a '+' or padded with zeros, has its
\* own sign behind those; coordinates that do not fit are not printed.
Odd(p) ==
  \/ /\ "dbl" \in DOMAIN p.arg /\ p.arg.dbl.neg
     /\ {"+", "0"} \cap Range(p.flags) # {}
  \/ "uls" \in DOMAIN p.arg /\ p.arg.uls.long
Unsigned(num, bits) == num % 2^bits
ConvMeant(p, t, proc, gdat) ==
  CASE proc = "user" -> t = <<"U">>
    [] proc = "null" -> t = <<>>
    [] proc \in {"d", "ld"} -> WholeMeant(p, t, p.arg.int, 10)
    [] proc \in {"u", "lu"} -> WholeMeant(p, t, Unsigned(p.arg.int, IF proc = "u" THEN IntBits ELSE LongBits), 10)
    [] proc = "o" -> WholeMeant(p, t, Unsigned(p.arg.int, IntBits), 8)
    [] proc \in {"x", "X"} -> WholeMeant(p, t, Unsigned(p.arg.int, IntBits), 16)
    [] proc \in {"lx", "lX"} -> WholeMeant(p, t, Unsigned(p.arg.int, LongBits), 16)
    [] proc = "p" -> Val(Hexless(Signless(t)), 16) = p.arg.int
    [] proc \in {"f", "e", "g"} -> PointMeant(p, t, p.arg.dbl)
    [] proc = "c" -> t = p.arg.str
    [] proc = "s" -> StringMeant(p, t, p.arg.str)
    [] proc = "coord" -> StringMeant(p, t, p.arg.uls.coord)
    [] proc = "logcoord" -> StringMeant(p, t, gdat.coord)
    [] proc = "logtokname" -> StringMeant(p, t, gdat.tokname)
    [] proc = "logkeyword" -> StringMeant(p, t, gdat.lexeme)
    [] OTHER -> FALSE
=============================================================================
