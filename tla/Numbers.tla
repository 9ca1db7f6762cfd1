------------------------------- MODULE Numbers -------------------------------
(***************************************************************************)
(* How a number is read: get_number() with uls_extract_number() and        *)
(* uls_num2stdfmt().  A numeral is brought to one of three forms: an       *)
(* integer (its digits), a fraction (".digits", and the exponent of the    *)
(* point) or zero; a numeral with a prefix is an integer of its radix.     *)
(* The letters of numerals are upper case here; exponents fit an int.      *)
(***************************************************************************)
EXTENDS Integers, Sequences, FiniteSets, SequencesExt

CONSTANTS
  Digits,  \* the digits, from zero upwards, as far as any radix goes
  NUL      \* what is read behind the end of a line

(***************************************************************************)
(* What a numeral is and what it is worth, said of texts: the reference    *)
(* that the scanner below is compared with.  A text is a sequence of       *)
(* characters; a number is worth the digits of its significand, without    *)
(* zeros at either end, and the exponent of the point before them.         *)
(***************************************************************************)
DigitVal(c) == (CHOOSE v \in 1..Len(Digits) : Digits[v] = c) - 1
IsDigit(c, radix) == \E v \in 1..radix : Digits[v] = c
Zero == Digits[1]

\* Digits with single separators between them.
Group(t, radix, sep) ==
  /\ t # <<>> /\ IsDigit(t[1], radix) /\ IsDigit(t[Len(t)], radix)
  /\ \A k \in 2..Len(t) : IsDigit(t[k], radix) \/ (t[k] = sep /\ t[k - 1] # sep)

DigitsOf(t, sep) == SelectSeq(t, LAMBDA c : c # sep)
IntOf(t) == FoldLeft(LAMBDA n, c : 10 * n + DigitVal(c), 0, t)

OptGroup(t, sep) == t = <<>> \/ Group(t, 10, sep)

\* Whole part, fraction and exponent of a decimal numeral, if t is one.
Splits(t, sep) ==
  {<<w, p, e>> \in (0..Len(t)) \X (0..1) \X (0..Len(t)) :
     LET whole == SubSeq(t, 1, w)
         frac == SubSeq(t, w + p + 1, Len(t) - e)
         expo == SubSeq(t, Len(t) - e + 1, Len(t))
     IN /\ w + p + e <= Len(t)
        /\ e = 0 \/ expo[1] = "E"
        /\ IF p = 1 THEN t[w + 1] = "." ELSE frac = <<>>
        /\ whole # <<>> \/ frac # <<>>
        /\ OptGroup(whole, sep) /\ OptGroup(frac, sep)
        /\ \/ expo = <<>>
           \/ /\ e >= 2
              /\ \A k \in 3..e : IsDigit(expo[k], 10)
              /\ IsDigit(expo[e], 10) /\ (e = 2 \/ expo[2] \in {"-", "+"}
                                          \/ IsDigit(expo[2], 10))}

IsDecimal(t, sep) == Splits(t, sep) # {}

Trimmed(d) ==      \* without leading and trailing zeros
  LET nz == {k \in DOMAIN d : d[k] # Zero}
  IN IF nz = {} THEN <<>>
     ELSE SubSeq(d, CHOOSE k \in nz : \A l \in nz : k <= l,
                    CHOOSE k \in nz : \A l \in nz : l <= k)
LeadingZeros(d) ==
  Cardinality({k \in DOMAIN d : \A l \in 1..k : d[l] = Zero})

\* The number 0.d1 d2 ... * radix^expo.
Number(d, expo, radix) ==
  IF Trimmed(d) = <<>> THEN [digits |-> <<>>, expo |-> 0, radix |-> 10]
  ELSE [digits |-> Trimmed(d), expo |-> expo - LeadingZeros(d), radix |-> radix]

ExpoOf(x) ==
  IF x = <<>> THEN 0
  ELSE IF x[2] \in {"-", "+"}
       THEN (IF x[2] = "-" THEN -1 ELSE 1) * IntOf(SubSeq(x, 3, Len(x)))
       ELSE IntOf(SubSeq(x, 2, Len(x)))

DecimalValue(t, sep) ==
  LET s == CHOOSE s \in Splits(t, sep) : TRUE
      whole == DigitsOf(SubSeq(t, 1, s[1]), sep)
      frac == DigitsOf(SubSeq(t, s[1] + s[2] + 1, Len(t) - s[3]), sep)
  IN Number(whole \o frac,
            Len(whole) + ExpoOf(SubSeq(t, Len(t) - s[3] + 1, Len(t))), 10)

\* Numerals of a radix: a prefix and a group of its digits.
IsRadix(t, pfx, sep) ==
  /\ IsPrefix(pfx.text, t)
  /\ Group(SubSeq(t, Len(pfx.text) + 1, Len(t)), pfx.radix, sep)
RadixValue(t, pfx, sep) ==
  LET d == DigitsOf(SubSeq(t, Len(pfx.text) + 1, Len(t)), sep)
  IN Number(d, Len(d), pfx.radix)

(***************************************************************************)
(* The scanner.                                                            *)
(***************************************************************************)
At(s, i) == IF i \in DOMAIN s THEN s[i] ELSE NUL

\* Where reading on from i ends: the first place that is not one of "ok".
EndOf(s, i, ok) == Min((i..Len(s) + 1) \ ok)
DigitsIn(s, radix) == {k \in DOMAIN s : IsDigit(s[k], radix)}
\* ... or separators between digits, behind i.
DigitsAndSeps(s, i, radix, sep) ==
  DigitsIn(s, radix) \cup {k \in i + 1..Len(s) : s[k] = sep /\ s[k - 1] # sep}

(***************************************************************************)
(* skip_prefixed_zeros(): zeros and single separators; "sep" tells that    *)
(* the last thing skipped, behind a zero, was a separator.                 *)
(***************************************************************************)
Zeros(s, i, sep, prevIsSep) ==
  LET j == EndOf(s, i,
             {k \in i..Len(s) :
                \/ s[k] = Zero
                \/ s[k] = sep /\ ~(IF k = i THEN prevIsSep ELSE s[k - 1] = sep)})
      n == Cardinality({k \in i..j - 1 : s[k] = Zero})
  IN [n |-> n, pos |-> j, sep |-> n > 0 /\ s[j - 1] = sep]

\* __skip_radix_numstr(): a digit at i, and what follows it.
DigitRun(s, i, radix, sep) ==
  LET j == EndOf(s, i, DigitsAndSeps(s, i, radix, sep))
  IN [digits |-> DigitsOf(SubSeq(s, i, j - 1), sep),
      pos |-> IF s[j - 1] = sep THEN j - 1 ELSE j]

\* check_expo(): the exponent at i, if one is there.
Expo(s, i) ==
  LET sign == At(s, i + 1) \in {"-", "+"}
      first == IF sign THEN i + 2 ELSE i + 1
      j == EndOf(s, first, DigitsIn(s, 10))
      n == IntOf(SubSeq(s, first, j - 1))
  IN IF At(s, i) = "E" /\ IsDigit(At(s, first), 10)
     THEN [pos |-> j, n |-> IF At(s, i + 1) = "-" THEN -n ELSE n]
     ELSE [pos |-> i, n |-> 0]

Read(form, radix, digits, expo, pos) ==
  [form |-> form, radix |-> radix, digits |-> digits, expo |-> expo, pos |-> pos]
ReadZero(pos) == Read("zero", 10, <<>>, 0, pos)
NotNumber(pos) == Read("none", 10, <<>>, 0, pos)

NoTrailingZeros(d) ==
  SubSeq(d, 1, Len(d) - Cardinality({k \in DOMAIN d :
                                       \A l \in k..Len(d) : d[l] = Zero}))

\* uls_num2stdfmt() at a point: the fraction of a number that starts with it.
PointFirst(s, i, sep) ==
  LET z == Zeros(s, i + 1, sep, TRUE)
      r == DigitRun(s, z.pos, 10, sep)
      x == Expo(s, r.pos)
  IN IF ~IsDigit(At(s, z.pos), 10) THEN ReadZero(Expo(s, z.pos).pos)
     ELSE Read("point", 10, NoTrailingZeros(r.digits), x.n - z.n, x.pos)

\* ... and at a digit that is not zero: behind the digits "whole" and z, a
\* point with zeros or nothing, comes the rest, from p on.
PastPoint(s, i, sep) ==
  IF At(s, i) = "." THEN Zeros(s, i + 1, sep, TRUE)
  ELSE [n |-> 0, pos |-> i, sep |-> FALSE]
RestAt(s, z, sep) == IF z.sep /\ At(s, z.pos) = sep THEN z.pos - 1 ELSE z.pos
WithRest(s, whole, z, p, sep) ==
  LET frac == DigitRun(s, p, 10, sep)
      n1 == Len(whole.digits)
      x == Expo(s, IF IsDigit(At(s, p), 10) THEN frac.pos ELSE p)
  IN IF IsDigit(At(s, p), 10)
     THEN Read("point", 10, NoTrailingZeros(whole.digits
                 \o [k \in 1..z.n |-> Zero] \o frac.digits), n1 + x.n, x.pos)
     ELSE IF At(s, whole.pos) = "." \/ x.pos # p
          THEN Read("point", 10, NoTrailingZeros(whole.digits), n1 + x.n, x.pos)
          ELSE Read("int", 10, whole.digits, n1, p)
DigitFirst(s, i, sep) ==
  LET Behind(whole, z) == WithRest(s, whole, z, RestAt(s, z, sep), sep)
      Whole(whole) == Behind(whole, PastPoint(s, whole.pos, sep))
  IN Whole(DigitRun(s, i, 10, sep))

\* uls_extract_number() with a prefix: digits of the radix, or zero.
Prefixed(s, i, pfx, sep) ==
  LET z == Zeros(s, i + Len(pfx.text), sep, TRUE)
      r == DigitRun(s, z.pos, pfx.radix, sep)
      z0 == Zeros(s, i, sep, FALSE)
      z1 == Zeros(s, z0.pos + 1, sep, z0.sep)
  IN IF IsDigit(At(s, z.pos), pfx.radix)
     THEN Read("int", pfx.radix, r.digits, Len(r.digits), r.pos)
     ELSE IF z.n > 0 THEN ReadZero(IF z.sep THEN z.pos - 1 ELSE z.pos)
     ELSE ReadZero(Expo(s, IF At(s, z0.pos) = "." THEN z1.pos ELSE z0.pos).pos)

\* ... and without one.
Unprefixed(s, i, sep) ==
  LET z == Zeros(s, i, sep, TRUE)
      ch == At(s, z.pos)
      point == ch = "." /\ IsDigit(At(s, z.pos + 1), 10)
  IN IF IsDigit(ch, 10) THEN DigitFirst(s, z.pos, sep)
     ELSE IF point /\ z.sep THEN ReadZero(z.pos - 1)
     ELSE IF point THEN PointFirst(s, z.pos, sep)
     ELSE IF z.n = 0 THEN NotNumber(i)
     ELSE ReadZero(Expo(s, IF ch = "." THEN z.pos + 1 ELSE z.pos).pos)

\* find_prefix_radix(): "prefixes" are sorted by length, the longest first.
PrefixAt(s, i, prefixes) ==
  SelectInSeq(prefixes, LAMBDA p : IsPrefix(p.text, SubSeq(s, i, Len(s))))

\* is_cnst_suffix_contained(): "suffixes" are sorted by length, too.
SuffixAt(s, i, suffixes) ==
  SelectInSeq(suffixes, LAMBDA x : IsPrefix(x, SubSeq(s, i, Len(s))))

\* get_number(), and where it leaves the line, behind a suffix if it has one.
Suffixed(s, n, suffixes) ==
  LET x == SuffixAt(s, n.pos, suffixes)
  IN IF n.form = "none" \/ x = 0 THEN n @@ [numeral |-> n.pos]
     ELSE [n EXCEPT !.pos = @ + Len(suffixes[x])] @@ [numeral |-> n.pos]
get_number(s, i, spec) ==
  LET j == EndOf(s, i, {k \in DOMAIN s : s[k] = Zero})
      p == PrefixAt(s, i, spec.prefixes)
      pointed == j > i /\ At(s, j) = "."
  IN Suffixed(s, IF p > 0 /\ ~pointed THEN Prefixed(s, i, spec.prefixes[p], spec.sep)
                 ELSE Unprefixed(s, IF pointed THEN j - 1 ELSE i, spec.sep),
              spec.suffixes)
=============================================================================
