---------------------------- MODULE NumberFormat ----------------------------
(***************************************************************************)
(* Numbers as text: formatSI() and formatIEC() of base/log/util.cc and     *)
(* convert(), convertHex() of base/log/stream.cc.  A formatted quantity is *)
(* a record: the number its digits make, how many of them follow the       *)
(* point, and which unit (0 for none, 1 for k or Ki, ... 6 for E or Ei).   *)
(*                                                                         *)
(* formatSI() handles numbers beyond 32 bits by their decimal groups: a    *)
(* number is a function from 0 .. 6 to 0 .. 999, its value being           *)
(* n[0] + 1000 * n[1] + 1000^2 * n[2] + ...                                *)
(***************************************************************************)
EXTENDS Integers, SequencesExt

Numbers == [0 .. 6 -> 0 .. 999]

\* Groups that may exceed 999, brought into form.
Carried(groups) ==
  LET carry[i \in 0 .. 7] == IF i = 0 THEN 0 ELSE (groups[i - 1] + carry[i - 1]) \div 1000
  IN  [i \in 0 .. 6 |-> (groups[i] + carry[i]) % 1000]

PlusOne(n) == Carried([n EXCEPT ![0] = @ + 1])

LessThan(m, n) == \E i \in 0 .. 6 : m[i] < n[i] /\ \A j \in i + 1 .. 6 : m[j] = n[j]

\* 2^53 .. 2^62, most significant group first.
PowersFrom53 ==
  <<<<0, 9, 7, 199, 254, 740, 992>>, <<0, 18, 14, 398, 509, 481, 984>>,
    <<0, 36, 28, 797, 18, 963, 968>>, <<0, 72, 57, 594, 37, 927, 936>>,
    <<0, 144, 115, 188, 75, 855, 872>>, <<0, 288, 230, 376, 151, 711, 744>>,
    <<0, 576, 460, 752, 303, 423, 488>>, <<1, 152, 921, 504, 606, 846, 976>>,
    <<2, 305, 843, 9, 213, 693, 952>>, <<4, 611, 686, 18, 427, 387, 904>>>>

TwoTo(k) == [i \in 0 .. 6 |-> PowersFrom53[k - 52][7 - i]]

\* static_cast<double>(s): a double has 53 bits, a number with more is rounded
\* to the nearest multiple of the last bit's value, a tie to the even one.
AsDouble(n) ==
  IF LessThan(n, TwoTo(53)) THEN n
  ELSE LET bits == CHOOSE k \in 54 .. 62 : LessThan(n, TwoTo(k)) /\ ~LessThan(n, TwoTo(k - 1))
           ulp  == 2 ^ (bits - 53)
           low  == n[2] * 1000000 + n[1] * 1000 + n[0]     \* 10^9 is a multiple of 2 * ulp
           up   == \/ 2 * (low % ulp) > ulp
                   \/ 2 * (low % ulp) = ulp /\ (low \div ulp) % 2 = 1
           near == (low \div ulp + (IF up THEN 1 ELSE 0)) * ulp
       IN  Carried([n EXCEPT ![0] = near % 1000, ![1] = (near \div 1000) % 1000,
                             ![2] = near \div 1000000])

-----------------------------------------------------------------------------
(* formatSI().                                                             *)

\* n < limit * 1000^(unit - 1).
Below(n, unit, limit) ==
  /\ n[unit] * 1000 + n[unit - 1] < limit
  /\ \A i \in unit + 1 .. 6 : n[i] = 0

UnitSI(n) ==
  CHOOSE u \in 1 .. 6 : /\ u = 6 \/ Below(n, u, 999500)
                        /\ \A v \in 1 .. u - 1 : ~Below(n, v, 999500)

\* Defect: the thresholds do not allow for rounding.
DecimalsSIUnrounded(n, unit) ==
  IF unit = 6 \/ Below(n, unit, 10000) THEN 2 ELSE IF Below(n, unit, 100000) THEN 1 ELSE 0

DecimalsSI(n, unit) ==
  IF unit = 6 \/ Below(n, unit, 9995) THEN 2 ELSE IF Below(n, unit, 99950) THEN 1 ELSE 0

\* "%.<decimals>f" of n / 1000^unit.  The quotient is a double too: 9.995 lies
\* below its decimal value, 99.95 above, 999.5 is exact and goes to the even
\* 1000; for other ties the result is left open.
PrintedSI(n, unit, decimals) ==
  LET lead == n[unit] * 1000 + n[unit - 1]
      step == CASE decimals = 2 -> 10 [] decimals = 1 -> 100 [] decimals = 0 -> 1000
      down == lead \div step
      rest == lead % step
  IN  IF lead = 9995 /\ decimals = 2 THEN {down}
      ELSE IF (lead = 99950 /\ decimals = 1) \/ (lead = 999500 /\ decimals = 0) THEN {down + 1}
      ELSE (IF 2 * rest <= step THEN {down} ELSE {})
             \cup (IF 2 * rest >= step THEN {down + 1} ELSE {})

\* The possible texts.  The tests look at the integer, the text at the double.
FormatSI(n) ==
  IF \A i \in 1 .. 6 : n[i] = 0
    THEN {[digits |-> n[0], decimals |-> 0, unit |-> 0]}
    ELSE LET u == UnitSI(n)
             d == DecimalsSI(n, u)
         IN  {[digits |-> q, decimals |-> d, unit |-> u] : q \in PrintedSI(AsDouble(n), u, d)}

-----------------------------------------------------------------------------
(* formatIEC(), for numbers that a double holds exactly; n / unit is exact  *)
(* as well, as it only changes the exponent.                               *)

\* The constants Ki, Mi, ... Ei.
SizeIEC(unit) ==
  CASE unit = 0 -> 1
    [] unit = 1 -> 1024
    [] unit = 2 -> 1024 * 1024
    [] unit = 3 -> 1024 * 1024 * 1024
    [] unit = 4 -> 1024 * 1024 * 1024 * 1024
    [] unit = 5 -> 1024 * 1024 * 1024 * 1024 * 1024
    [] unit = 6 -> 1024 * 1024 * 1024 * 1024 * 1024 * 1024

\* n < size * (num / den) for the doubles 9.995, 99.95 and 1023.5.  No integer
\* lies between them and the decimal fractions for the sizes in question.
BelowFraction(n, size, num, den) == n <= (size * num - 1) \div den

\* Defect: a unit is used up to 1024 of it, so that 1023.7 prints as 1024.
UnitIECUnrounded(n) ==
  CHOOSE u \in 1 .. 6 : /\ u = 6 \/ n < SizeIEC(u + 1)
                        /\ \A v \in 1 .. u - 1 : ~(n < SizeIEC(v + 1))

UnitIEC(n) ==
  CHOOSE u \in 1 .. 6 : /\ u = 6 \/ BelowFraction(n, SizeIEC(u), 2047, 2)
                        /\ \A v \in 1 .. u - 1 : ~BelowFraction(n, SizeIEC(v), 2047, 2)

DecimalsIEC(n, unit) ==
  LET size == SizeIEC(unit)
  IN  IF BelowFraction(n, size, 1999, 200) THEN 2
      ELSE IF unit = 6 \/ BelowFraction(n, size, 1999, 20) THEN 1 ELSE 0

\* The quotient m / size rounded to the nearest integer, a tie to the even one.
RoundedQuotient(m, size) ==
  LET down == m \div size
      rest == m % size
  IN  IF 2 * rest > size \/ (2 * rest = size /\ down % 2 = 1) THEN down + 1 ELSE down

FormatIEC(n) ==
  IF n < 1024 THEN [digits |-> n, decimals |-> 0, unit |-> 0]
  ELSE LET u == UnitIEC(n)
           d == DecimalsIEC(n, u)
       IN  [digits   |-> RoundedQuotient(n * (CASE d = 2 -> 100 [] d = 1 -> 10 [] d = 0 -> 1), SizeIEC(u)),
            decimals |-> d, unit |-> u]

-----------------------------------------------------------------------------
(* Integers in a Stream.                                                   *)

\* The tables zero[], which has a digit for a remainder of either sign, and
\* c_digits_hex[].
Digit(lsd, base) ==
  IF base = 16 THEN lsd ELSE <<9, 8, 7, 6, 5, 4, 3, 2, 1, 0, 1, 2, 3, 4, 5, 6, 7, 8, 9>>[lsd + 10]

\* C++ integer division.
Toward0(i, base) == IF i >= 0 THEN i \div base ELSE -((-i) \div base)

\* Defect: the loop runs while the rest is positive, so that a negative number
\* keeps one digit only.
StoredWhilePositive(value, base) ==
  LET stored[i \in Int] ==
        LET rest == Toward0(i, base)
        IN  <<Digit(i - base * rest, base)>> \o (IF rest <= 0 THEN <<>> ELSE stored[rest])
  IN  stored[value]

\* The loops of convert() and convertHex(): the digits, least significant first.
Stored(value, base) ==
  LET stored[i \in Int] ==
        LET rest == Toward0(i, base)
        IN  <<Digit(i - base * rest, base)>> \o (IF rest = 0 THEN <<>> ELSE stored[rest])
  IN  stored[value]

Convert(value) == [minus |-> value < 0, text |-> Reverse(Stored(value, 10))]

ConvertHex(value) == [minus |-> FALSE, text |-> Reverse(Stored(value, 16))]
=============================================================================
