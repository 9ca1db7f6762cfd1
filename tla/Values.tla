------------------------------- MODULE Values -------------------------------
(***************************************************************************)
(* What a caller gets for a NUMBER: the lexeme get_number() leaves, its    *)
(* conversions to int and double (uls_lexeme_int32() and its like), and    *)
(* the text uls_number_gexpr() makes of it for sources in other languages. *)
(* Digits are characters in a lexeme and values in the conversions between *)
(* radices.  The library writes hexadecimal numbers of the radices 2, 3,   *)
(* 4, 8 and 16 only, so decimal strings are multiplied by 3 only.          *)
(***************************************************************************)
EXTENDS Numbers

CONSTANTS
  Bits32, Bits64,  \* widths of uls_uint32 and uls_uint64
  CharCode         \* the code of a character

ASSUME ValuesAssumption == {Bits32, Bits64} \subseteq Nat \ {0}

DigitChars(vals) == [k \in DOMAIN vals |-> Digits[vals[k] + 1]]
Vals(chars) == [k \in DOMAIN chars |-> DigitVal(chars[k])]

(* -------- the lexeme: tokbuf -------- *)
StdPrefix(radix) ==                        \* uls_get_standard_number_prefix()
  CASE radix = 2 -> <<"0", "b">> [] radix = 3 -> <<"0", "t">> [] radix = 4 -> <<"0", "q">>
    [] radix = 8 -> <<"0", "o">> [] radix = 16 -> <<"0", "x">> [] radix = 10 -> <<>>
InDecimal[n \in Nat] ==
  IF n < 10 THEN <<Digits[n + 1]>> ELSE Append(InDecimal[n \div 10], Digits[(n % 10) + 1])
append_expo(n) ==
  IF n = 0 THEN <<>> ELSE <<"E">> \o (IF n < 0 THEN <<"-">> \o InDecimal[-n] ELSE InDecimal[n])
\* A zero written with a point is "0.", which all conversions read as "0".
Lexeme(n) ==
  CASE n.form = "zero"  -> <<Zero>>
    [] n.form = "int"   -> StdPrefix(n.radix) \o n.digits
    [] n.form = "point" -> <<".">> \o n.digits \o append_expo(n.expo)

(* -------- to machine types -------- *)
is_real(s) == s[1] = "." \/ (s[1] \in {"-", Zero} /\ At(s, 2) = ".")
\* Where digits end: strtol() and isxdigit() know the lower-case letters, too.
HexLetters == {"a", "b", "c", "d", "e", "f"}
HexDigits == {Digits[k] : k \in 1..16} \cup HexLetters
HexVal(c) == IF c \in HexLetters THEN CharCode[c] - CharCode["a"] + 10 ELSE DigitVal(c)
Run(s, i, set) == SubSeq(s, i, EndOf(s, i, {k \in DOMAIN s : s[k] \in set}) - 1)
HasPrefix(s) == IsPrefix(<<"0", "x">>, s)
strtol16(s) ==
  FoldLeft(LAMBDA n, c : 16 * n + HexVal(c), 0, Run(s, IF HasPrefix(s) THEN 3 ELSE 1, HexDigits))
\* atof() of a lexeme with a point, otherwise strtol() in base 16.
unsigned_double(s) ==
  IF is_real(s) THEN [real |-> DecimalValue(s, NUL)] ELSE [int |-> strtol16(s)]

\* A double as an integer of w bits: any value if it does not fit.
Whole(v) == IntOf([k \in 1..v.expo |-> IF k \in DOMAIN v.digits THEN v.digits[k] ELSE Zero])
Truncated(v, w) ==
  IF v.expo <= 0 THEN {0}
  ELSE IF v.expo < w /\ Whole(v) < 2^w THEN {Whole(v)} ELSE 0..2^w - 1

Minus0(c) == CharCode[c] - CharCode[Zero]      \* ch - '0'
HexLoop(s, w) ==
  FoldLeft(LAMBDA n, c : (16 * n + (IF IsDigit(c, 10) THEN Minus0(c)
                                    ELSE 10 + CharCode[c] - CharCode["A"])) % 2^w,
           0, Run(s, 3, HexDigits))
DecLoop(s, w, set) == FoldLeft(LAMBDA n, c : (10 * n + Minus0(c)) % 2^w, 0, Run(s, 1, set))
Unsigned(s, w, set) ==
  IF is_real(s) THEN Truncated(unsigned_double(s).real, w)
  ELSE IF HasPrefix(s) THEN {HexLoop(s, w)} ELSE {DecLoop(s, w, set)}
lexeme_uint32(s) == Unsigned(s, Bits32, {Digits[k] : k \in 1..10})
lexeme_uint64(s) == Unsigned(s, Bits64, HexDigits)

\* The accessors, with the sign that the number of a token stream can have.
Signed(n, w) == IF n < 2^(w - 1) THEN n ELSE n - 2^w
uls_lexeme_uint(vals, minus) == IF minus THEN {0} ELSE vals
uls_lexeme_int(vals, w, minus) ==
  {Signed(IF minus THEN (2^w - n) % 2^w ELSE n, w) : n \in vals}

(* -------- between radices (values of digits) -------- *)
Value(d, radix) == FoldLeft(LAMBDA n, x : radix * n + x, 0, d)

bin2hex_str(d) ==
  LET m == Len(d) % 4
      h == Value(SubSeq(d, 1, m), 2)
      groups == [k \in 1..Len(d) \div 4 |-> Value(SubSeq(d, m + 4 * k - 3, m + 4 * k), 2)]
      all == (IF h # 0 THEN <<h>> ELSE <<>>) \o groups
  IN IF all = <<>> THEN <<0>> ELSE all
quat2hex_str(d) ==
  LET m == Len(d) % 2
      all == SubSeq(d, 1, m)
             \o [k \in 1..Len(d) \div 2 |-> 4 * d[m + 2 * k - 1] + d[m + 2 * k]]
  IN IF all = <<>> THEN <<0>> ELSE all

\* Of the two octals the left one has "a" bits left; with 4 - a bits of the
\* right one they are a hexadecimal digit, and the others are left over.
hexanum_from_octal(two, a) ==
  LET n == a - 1 IN [hex |-> (two \div 2^n) % 16, rest |-> two % 2^n]
OctLoop(d, i0, o0, a0) ==
  LET from[i \in Nat, o \in 0..7, a \in 1..3] ==
        LET h == hexanum_from_octal(8 * o + d[i], a)
        IN IF i >= Len(d) THEN <<h.hex>>
           ELSE <<h.hex>> \o (IF a = 1 THEN from[i + 2, d[i + 1], 3]
                              ELSE from[i + 1, h.rest, a - 1])
  IN from[i0, o0, a0]
oct2hex_str(d0) ==
  LET d == SubSeq(d0, EndOf(d0, 1, {k \in DOMAIN d0 : d0[k] = 0}), Len(d0))
      b == (3 * (Len(d) % 4)) % 4
      h == hexanum_from_octal(d[1], 4 - b)
  IN IF d = <<>> THEN <<0>>
     ELSE IF Len(d) = 1 THEN d
     ELSE IF b = 0 THEN OctLoop(d, 2, d[1], 3)
     ELSE (IF h.hex # 0 THEN <<h.hex>> ELSE <<>>)
          \o (IF b = 3 THEN OctLoop(d, 3, d[2], 3) ELSE OctLoop(d, 2, h.rest, 3 - b))

\* Decimal strings.  The multiplier and the summand have one digit.
mul_decstr_by_xx_Dropped(d, m) ==               \* mutant: without the last carry
  IF d = <<0>> \/ m <= 0 THEN <<0>>
  ELSE FoldRight(LAMBDA x, r : [out |-> <<(r.carry + x * m) % 10>> \o r.out,
                                carry |-> (r.carry + x * m) \div 10],
                 d, [out |-> <<>>, carry |-> 0]).out
mul_decstr_by_xx(d, m) ==
  LET r == FoldRight(LAMBDA x, a : [out |-> <<(a.carry + x * m) % 10>> \o a.out,
                                    carry |-> (a.carry + x * m) \div 10],
                     d, [out |-> <<>>, carry |-> 0])
  IN IF d = <<0>> \/ m <= 0 THEN <<0>>
     ELSE IF r.carry > 0 THEN <<r.carry>> \o r.out ELSE r.out
add_decstr_by_xx(d, n) ==
  LET r == FoldRight(LAMBDA x, a : [out |-> <<(a.carry + x) % 10>> \o a.out,
                                    carry |-> (a.carry + x) \div 10],
                     d, [out |-> <<>>, carry |-> n])
  IN IF d = <<0>> THEN <<n>>
     ELSE IF r.carry > 0 THEN <<r.carry>> \o r.out ELSE r.out
div_decstr_by_16(d) ==
  LET a == 10 * d[1] + d[2]
      first == [quo |-> IF a < 16 THEN <<>> ELSE <<a \div 16>>, rem |-> a % 16]
      all == FoldLeft(LAMBDA r, x : [quo |-> Append(r.quo, (10 * r.rem + x) \div 16),
                                     rem |-> (10 * r.rem + x) % 16],
                      first, SubSeq(d, 3, Len(d)))
  IN IF Len(d) = 1 THEN [quo |-> <<0>>, rem |-> d[1]]
     ELSE IF all.quo = <<>> THEN [quo |-> <<0>>, rem |-> a] ELSE all

uls_cvt_radix2dec_str(radix, d) ==
  FoldLeft(LAMBDA dec, x : add_decstr_by_xx(mul_decstr_by_xx(dec, radix), x), <<0>>, d)
cvt_radix2hexa_str_generic(radix, d) ==
  LET hex[dec \in Seq(0..9)] ==
        LET r == div_decstr_by_16(dec)
        IN IF r.quo = <<0>> THEN <<r.rem>> ELSE Append(hex[r.quo], r.rem)
  IN hex[uls_cvt_radix2dec_str(radix, d)]

\* ... unless a machine word holds the number.
cvt_radix_simple_num(radix, d) ==
  LET hex[n \in Nat] == IF n < 16 THEN <<n>> ELSE Append(hex[n \div 16], n % 16)
  IN hex[Value(d, radix) % 2^Bits64]
uls_radix2hexadecimal_str(radix, d) ==
  IF Len(d) <= Bits64 \div 2 THEN cvt_radix_simple_num(radix, d)
  ELSE cvt_radix2hexa_str_generic(radix, d)

(* -------- for other languages: uls_number_gexpr() -------- *)
make_radixint_str_gexpr(radix, d) ==
  <<"0", "x">> \o DigitChars(CASE radix = 2 -> bin2hex_str(d)
                         [] radix = 4 -> quat2hex_str(d)
                         [] radix = 8 -> oct2hex_str(d)
                         [] radix = 16 -> d
                         [] radix = 3 -> uls_radix2hexadecimal_str(radix, d))
\* uls_number(): digits before the point, and zeros to add at one end.
uls_number(d, expo) ==
  [n1 |-> IF expo <= 0 THEN 0 ELSE Min({expo, Len(d)}),
   n |-> IF expo <= 0 THEN expo ELSE Max({0, expo - Len(d)})]
Zeros0(n) == [k \in 1..n |-> Zero]
make_decstr_gexpr(d, expo) ==
  LET p == uls_number(d, expo)
  IN CASE p.n > 0 -> IF p.n + Len(d) > 6 THEN <<>> ELSE d \o Zeros0(p.n) \o <<".">>
       [] p.n < 0 -> IF p.n <= -6 THEN <<>> ELSE <<".">> \o Zeros0(-p.n) \o d
       [] p.n = 0 -> SubSeq(d, 1, p.n1) \o <<".">> \o SubSeq(d, p.n1 + 1, Len(d))
uls_number_gexpr(n) ==
  CASE n.form = "zero" -> <<>>
    [] n.form = "point" -> make_decstr_gexpr(n.digits, n.expo)
    [] n.form = "int" -> IF n.radix = 10 THEN <<>>
                         ELSE make_radixint_str_gexpr(n.radix, Vals(n.digits))
=============================================================================
