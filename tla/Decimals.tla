--------------------------------- MODULE Decimals ---------------------------------
(***************************************************************************)
(* The exact numbers of a decimal(p, s) field (pkg/decimal/decimal.go): a  *)
(* text is read (Parse), compared with the room of its column (Fits), and  *)
(* the result of a calculation is written with the digits of a scale       *)
(* (FromRat).  What is not a number is refused, and not looked at.         *)
(***************************************************************************)
EXTENDS Integers, Sequences

CONSTANTS
    Base,        \* ten
    Digits,      \* the digits to write numbers with
    Lengths,     \* how many digits stand before the point and after it
    MaxExponent, \* the largest power of ten, of 1.25e3 and of 1.25e-3
    Ratios,      \* the results of calculations, [num, den]
    Columns      \* [precision, scale]: decimal(p, s)

VARIABLES
    text,    \* a number as it is written, NoText when none is
    ratio,   \* the result of a calculation, NoRatio when there is none
    column   \* the column it is for

decimalVars == <<text, ratio, column>>

NoText == [whole |-> <<>>]
NoRatio == [den |-> 0]

Written(n) == UNION {[1..i -> Digits] : i \in Lengths \cap n}
Texts ==
    [neg : BOOLEAN, whole : Written(Nat \ {0}), frac : Written(Nat), exp : -MaxExponent..MaxExponent]

Magnitude(n) == IF n < 0 THEN -n ELSE n
Positive(n) == IF n > 0 THEN n ELSE 0
Zeros(n) == [i \in 1..n |-> 0]
Power[n \in Nat] == IF n = 0 THEN 1 ELSE Base * Power[n - 1]
Number(digits) ==
    LET upTo[i \in 0..Len(digits)] == IF i = 0 THEN 0 ELSE upTo[i - 1] * Base + digits[i]
    IN  upTo[Len(digits)]

\* The place of the first digit that is not zero, or the one after the last digit.
Leading(digits) ==
    CHOOSE i \in 1..(Len(digits) + 1) :
        /\ i <= Len(digits) => digits[i] # 0
        /\ \A j \in 1..(i - 1) : digits[j] = 0
TrimLeft(digits) == SubSeq(digits, Leading(digits), Len(digits))

Split(t) == [neg |-> t.neg, digits |-> t.whole \o t.frac, exp |-> t.exp - Len(t.frac)]

\* digits and their power of ten in plain notation: no exponent, no zero too many before the
\* point, no negative zero.
Plain(neg, digits, exp) ==
    LET all == digits \o Zeros(exp)
        short == Positive(-exp - Len(digits))
        shift == Zeros(short) \o digits
        at == Len(shift) + exp
        whole == TrimLeft(IF exp >= 0 THEN all ELSE SubSeq(shift, 1, at))
    IN  [neg |-> neg /\ Number(digits) # 0,
         whole |-> IF whole = <<>> THEN <<0>> ELSE whole,
         frac |-> IF exp >= 0 THEN <<>> ELSE SubSeq(shift, at + 1, Len(shift)),
         exp |-> 0]

Parse(t) == LET s == Split(t) IN Plain(s.neg, s.digits, s.exp)

\* The digits of a whole number.
DigitsOf(n) ==
    LET length == CHOOSE k \in 1..(n + 1) : n < Power[k] /\ (k > 1 => n >= Power[k - 1])
    IN  [i \in 1..length |-> (n \div Power[length - i]) % Base]

\* Mutant of RoundsUp: a half goes down.
HalfDown(rest, den) == 2 * rest > den

\* Half away from zero.
RoundsUp(rest, den) == rest # 0 /\ 2 * rest >= den

\* QuoRem truncates toward zero; the remainder decides about the last digit.
FromRat(num, den, scale) ==
    LET scaled == Magnitude(num) * Power[scale]
        q == scaled \div den
        rounded == IF RoundsUp(scaled % den, den) THEN q + 1 ELSE q
    IN  Plain(num < 0, DigitsOf(rounded), -scale)

\* Mutant of Dropped: the zeros that carry the scale count.
DroppedNone(digits, exp) == 0

\* The zeros that end the fraction.
Dropped(digits, exp) ==
    CHOOSE n \in 0..Len(digits) :
        /\ n <= Positive(-exp)
        /\ \A i \in (Len(digits) - n + 1)..Len(digits) : digits[i] = 0
        /\ n < Len(digits) /\ n < Positive(-exp) => digits[Len(digits) - n] # 0

Fits(t, precision, scale) ==
    LET s == Split(t)
        n == Dropped(s.digits, s.exp)
        digits == TrimLeft(SubSeq(s.digits, 1, Len(s.digits) - n))
        exp == s.exp + n
    IN  /\ Positive(-exp) <= scale
        /\ Positive(Len(digits) + exp) <= precision - scale

-----------------------------------------------------------------------------

Init == text = NoText /\ ratio = NoRatio /\ column = [precision |-> 0, scale |-> 0]

Reads ==
    /\ text = NoText /\ ratio = NoRatio
    /\ text' \in Texts /\ column' \in Columns
    /\ UNCHANGED ratio

Calculates ==
    /\ text = NoText /\ ratio = NoRatio
    /\ ratio' \in Ratios /\ column' \in Columns
    /\ UNCHANGED text

Next == Reads \/ Calculates

Spec == Init /\ [][Next]_decimalVars

-----------------------------------------------------------------------------

(* The values, times Base to the number of places any of them has.         *)

Signed(neg, n) == IF neg THEN -n ELSE n
Scaled(t, places) ==
    LET s == Split(t) IN Signed(s.neg, Number(s.digits) * Power[places + s.exp])
Places(t) == Magnitude(Split(t).exp)

\* "Rat gives the exact value": reading a number and reading it again change nothing of its
\* value and of its scale, and the result is in plain notation.
ReadExactly ==
    LET d == Parse(text)
    IN  /\ Scaled(d, Places(text)) = Scaled(text, Places(text))
        /\ Len(d.frac) = Positive(-Split(text).exp)
        /\ d.exp = 0 /\ Parse(d) = d
        /\ Len(d.whole) > 1 => Head(d.whole) # 0
        /\ d.neg => Scaled(d, Places(text)) < 0

\* "a number a numeric(precision, scale) column holds without rounding": a multiple of its
\* last place, below the power of ten of its first.
HeldByColumn ==
    LET d == Parse(text)
        p == Places(text) + column.scale
        n == Magnitude(Scaled(d, p))
    IN  Fits(d, column.precision, column.scale) <=>
            /\ n % Power[p - column.scale] = 0
            /\ n < Power[p + column.precision - column.scale]

\* "rounding half away from zero as Postgres does": no number of the scale is nearer to the
\* result, and the one as near is nearer to zero.
RoundedAway ==
    LET d == FromRat(ratio.num, ratio.den, column.scale)
        n == Scaled(d, column.scale)
        off(m) == Magnitude(ratio.num * Power[column.scale] - m * ratio.den)
    IN  /\ Len(d.frac) = column.scale
        /\ \A m \in {n - 1, n + 1} :
               off(n) < off(m) \/ (off(n) = off(m) /\ Magnitude(m) < Magnitude(n))

DecimalsExact ==
    /\ text # NoText => ReadExactly /\ HeldByColumn
    /\ ratio # NoRatio => RoundedAway

\* Fits of a number that was not read through Parse: refuted by 0e1, which no room holds.
FitsAsWritten ==
    text # NoText =>
        (Fits(text, column.precision, column.scale)
            <=> Fits(Parse(text), column.precision, column.scale))
=============================================================================
