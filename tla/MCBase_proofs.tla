--------------------------- MODULE MCBase_proofs ---------------------------
(***************************************************************************)
(* Proofs about the algorithms of MCBase, for every input and not only for *)
(* the bounded ones of its run: dates, times of day, the local times of    *)
(* time zones, formatted quantities, the digits of integers and the lines  *)
(* of log statements.                                                      *)
(***************************************************************************)
EXTENDS MCBase, Induction_proofs

(* The days of y full years that begin in March, from the March of a year   *)
(* that is divisible by 400.                                                *)
MarchYears(y) == y * 365 + y \div 4 - y \div 100 + y \div 400

(* Days of the months, counted from March = 0.                              *)
MarchMonths(m) == (153 * m + 2) \div 5

LEMMA DayNumberEarly ==
  ASSUME NEW y \in Int, NEW m \in Nat, 1 <= m, m <= 2, NEW d \in Int
  PROVE  GetJulianDayNumber(y, m, d) = MarchYears(y + 4799) + MarchMonths(m + 9) + d - 32045
<1>1. (14 - m) \div 12 = 1 /\ y + 4800 - 1 = y + 4799 /\ m + 12 * 1 - 3 = m + 9
  OBVIOUS
<1>2. QED
  BY <1>1 DEF GetJulianDayNumber, MarchYears, MarchMonths

LEMMA DayNumberLate ==
  ASSUME NEW y \in Int, NEW m \in Nat, 3 <= m, m <= 12, NEW d \in Int
  PROVE  GetJulianDayNumber(y, m, d) = MarchYears(y + 4800) + MarchMonths(m - 3) + d - 32045
<1>1. (14 - m) \div 12 = 0 /\ y + 4800 - 0 = y + 4800 /\ m + 12 * 0 - 3 = m - 3
  OBVIOUS
<1>2. QED
  BY <1>1 DEF GetJulianDayNumber, MarchYears, MarchMonths

CenturyDays(b) == (b * 146097) \div 4
YearDays(r)    == (1461 * r) \div 4

(* The century and the year in it make up the days of the full years. *)
LEMMA Centuries ==
  ASSUME NEW b \in Nat, NEW r \in Nat, r <= 99, NEW y \in Nat, y = 100 * b + r
  PROVE  MarchYears(y) = CenturyDays(b) + YearDays(r)
<1>1. y \div 100 = b
  OBVIOUS
<1>2. y \div 4 = 25 * b + r \div 4
  OBVIOUS
<1>3. y \div 400 = b \div 4
  OBVIOUS
<1>4. CenturyDays(b) = 36524 * b + b \div 4
  BY DEF CenturyDays
<1>5. YearDays(r) = 365 * r + r \div 4
  BY DEF YearDays
<1>6. y * 365 = 36500 * b + 365 * r
  OBVIOUS
<1>7. QED
  BY <1>1, <1>2, <1>3, <1>4, <1>5, <1>6 DEF MarchYears

-----------------------------------------------------------------------------
(* From the number of a day to its date.                                    *)

Century(a)     == (4 * a + 3) \div 146097
InCentury(a)   == a - CenturyDays(Century(a))
YearOf(c)      == (4 * c + 3) \div 1461
InYear(c)      == c - YearDays(YearOf(c))
MonthOf(e)     == (5 * e + 2) \div 153
InMonth(e)     == e - MarchMonths(MonthOf(e)) + 1

DateFrom(b, r, m, d) ==
  [year  |-> b * 100 + r - 4800 + m \div 10,
   month |-> m + 3 - 12 * (m \div 10),
   day   |-> d]

LEMMA DateOf ==
  ASSUME NEW j \in Int, NEW a, a = j + 32044, NEW b, b = Century(a), NEW c, c = InCentury(a),
         NEW r, r = YearOf(c), NEW e, e = InYear(c), NEW m, m = MonthOf(e), NEW d, d = InMonth(e)
  PROVE  GetYearMonthDay(j) = DateFrom(b, r, m, d)
BY SMTT(30) DEF DateFrom, GetYearMonthDay, InCentury, CenturyDays, Century, InYear, YearDays, YearOf, MonthOf, InMonth, MarchMonths

LEMMA CenturyRange ==
  ASSUME NEW a \in Nat
  PROVE  /\ Century(a) \in Nat
         /\ InCentury(a) \in Nat /\ InCentury(a) <= 36524
<1>1. PICK b \in Int : b = (4 * a + 3) \div 146097
  OBVIOUS
<1>2. b = Century(a)
  BY <1>1 DEF Century
<1>3. 146097 * b <= 4 * a + 3 /\ 4 * a + 3 < 146097 * b + 146097
  BY <1>1
<1>4. b \in Nat
  BY <1>3
<1>5. PICK q \in Int : q = b \div 4
  BY <1>4
<1>6. 4 * q <= b /\ b <= 4 * q + 3
  BY <1>5
<1>7. CenturyDays(b) = 36524 * b + q
  BY <1>5 DEF CenturyDays
<1>8. InCentury(a) = a - (36524 * b + q)
  BY <1>2, <1>7 DEF InCentury
<1>9. 0 <= a - (36524 * b + q)
  BY <1>3, <1>6
<1>10. a - (36524 * b + q) <= 36524
  BY <1>3, <1>6
<1>11. QED
  BY <1>2, <1>4, <1>8, <1>9, <1>10

LEMMA YearRange ==
  ASSUME NEW c \in Nat, c <= 36524
  PROVE  /\ YearOf(c) \in Nat /\ YearOf(c) <= 99
         /\ InYear(c) \in Nat /\ InYear(c) <= 365
<1>1. PICK r \in Int : r = (4 * c + 3) \div 1461
  OBVIOUS
<1>2. r = YearOf(c)
  BY <1>1 DEF YearOf
<1>3. 1461 * r <= 4 * c + 3 /\ 4 * c + 3 < 1461 * r + 1461
  BY <1>1
<1>4. r \in Nat /\ r <= 99
  BY <1>3
<1>5. PICK q \in Int : q = r \div 4
  BY <1>4
<1>6. 4 * q <= r /\ r <= 4 * q + 3
  BY <1>5
<1>7. YearDays(r) = 365 * r + q
  BY <1>5 DEF YearDays
<1>8. InYear(c) = c - (365 * r + q)
  BY <1>2, <1>7 DEF InYear
<1>9. 0 <= c - (365 * r + q)
  BY <1>3, <1>6
<1>10. c - (365 * r + q) <= 365
  BY <1>3, <1>6
<1>11. QED
  BY <1>2, <1>4, <1>8, <1>9, <1>10

LEMMA MonthRange ==
  ASSUME NEW e \in Nat, e <= 365
  PROVE  /\ MonthOf(e) \in Nat /\ MonthOf(e) <= 11
         /\ InMonth(e) \in Nat /\ 1 <= InMonth(e) /\ InMonth(e) <= 31
<1>1. PICK m \in Int : m = (5 * e + 2) \div 153
  OBVIOUS
<1>2. m = MonthOf(e)
  BY <1>1 DEF MonthOf
<1>3. 153 * m <= 5 * e + 2 /\ 5 * e + 2 < 153 * m + 153
  BY <1>1
<1>4. m \in Nat /\ m <= 11
  BY <1>3
<1>5. PICK k \in Int : k = (153 * m + 2) \div 5
  BY <1>4
<1>6. 5 * k <= 153 * m + 2 /\ 153 * m + 2 < 5 * k + 5
  BY <1>5
<1>7. InMonth(e) = e - k + 1
  BY <1>2, <1>5 DEF InMonth, MarchMonths
<1>8. k <= e /\ e - k + 1 <= 31
  BY <1>3, <1>6
<1>9. QED
  BY <1>2, <1>4, <1>7, <1>8

(* Every day from the March of the year -4800 on has a date, whose number it *)
(* is.                                                                      *)
LEMMA DateInverts ==
  ASSUME NEW j \in Int, j + 32044 >= 0
  PROVE  LET date == GetYearMonthDay(j)
         IN  /\ date.year \in Int /\ date.month \in 1 .. 12 /\ date.day \in 1 .. 31
             /\ GetJulianDayNumber(date.year, date.month, date.day) = j
<1>1. PICK a \in Nat : a = j + 32044
  OBVIOUS
<1>2. PICK b \in Nat : b = Century(a)
  BY CenturyRange
<1>3. PICK c \in Nat : c = InCentury(a) /\ c <= 36524
  BY CenturyRange
<1>4. PICK r \in Nat : r = YearOf(c) /\ r <= 99
  BY <1>3, YearRange
<1>5. PICK e \in Nat : e = InYear(c) /\ e <= 365
  BY <1>3, YearRange
<1>6. PICK m \in Nat : m = MonthOf(e) /\ m <= 11
  BY <1>5, MonthRange
<1>7. PICK d \in Nat : d = InMonth(e) /\ 1 <= d /\ d <= 31
  BY <1>5, MonthRange
<1>8. GetYearMonthDay(j) = DateFrom(b, r, m, d)
  BY <1>1, <1>2, <1>3, <1>4, <1>5, <1>6, <1>7, DateOf, SMT
<1>9. /\ a = CenturyDays(b) + c
      /\ c = YearDays(r) + e
      /\ e = MarchMonths(m) + d - 1
  <2>0. CenturyDays(b) \in Int /\ YearDays(r) \in Int
    BY DEF CenturyDays, YearDays
  <2>1. a = CenturyDays(b) + c
    BY <1>2, <1>3, <2>0 DEF InCentury
  <2>2. c = YearDays(r) + e
    BY <1>4, <1>5, <2>0 DEF InYear
  <2>3. e = MarchMonths(m) + d - 1
    BY <1>6, <1>7 DEF InMonth, MarchMonths
  <2>4. QED
    BY <2>1, <2>2, <2>3
<1>10. PICK y \in Nat : y = 100 * b + r
  OBVIOUS
<1>11. MarchYears(y) + MarchMonths(m) + d - 32045 = j
  <2>1. MarchYears(y) = CenturyDays(b) + YearDays(r)
    BY <1>4, <1>10, Centuries
  <2>2. CenturyDays(b) \in Int /\ YearDays(r) \in Int /\ MarchMonths(m) \in Int
    BY DEF MarchMonths, CenturyDays, YearDays
  <2>3. QED
    BY <1>1, <1>9, <2>1, <2>2
<1>12. CASE m <= 9
  <2>1. m \div 10 = 0
    BY <1>12
  <2>2. PICK n \in Nat : n = m + 3
    OBVIOUS
  <2>3. PICK z \in Int : z = y - 4800
    OBVIOUS
  <2>4. GetYearMonthDay(j) = [year |-> z, month |-> n, day |-> d]
    BY <1>8, <1>10, <2>1, <2>2, <2>3 DEF DateFrom
  <2>5. GetJulianDayNumber(z, n, d) = MarchYears(z + 4800) + MarchMonths(n - 3) + d - 32045
    <3>1. 3 <= n /\ n <= 12
      BY <1>12, <2>2
    <3>2. QED
      BY <3>1, DayNumberLate
  <2>6. z + 4800 = y /\ n - 3 = m
    BY <2>2, <2>3
  <2>7. GetJulianDayNumber(z, n, d) = j
    BY <1>11, <2>5, <2>6
  <2>8. d \in 1 .. 31 /\ n \in 1 .. 12
    BY <1>7, <1>12, <2>2
  <2>9. QED
    BY <2>4, <2>7, <2>8
<1>13. CASE ~ (m <= 9)
  <2>1. m \div 10 = 1
    BY <1>6, <1>13
  <2>2. PICK n \in Nat : n = m - 9
    BY <1>13
  <2>3. PICK z \in Int : z = y - 4799
    OBVIOUS
  <2>4. GetYearMonthDay(j) = [year |-> z, month |-> n, day |-> d]
    BY <1>8, <1>10, <2>1, <2>2, <2>3 DEF DateFrom
  <2>5. GetJulianDayNumber(z, n, d) = MarchYears(z + 4799) + MarchMonths(n + 9) + d - 32045
    <3>1. 1 <= n /\ n <= 2
      BY <1>6, <1>13, <2>2
    <3>2. QED
      BY <3>1, DayNumberEarly
  <2>6. z + 4799 = y /\ n + 9 = m
    BY <2>2, <2>3
  <2>7. GetJulianDayNumber(z, n, d) = j
    BY <1>11, <2>5, <2>6
  <2>8. d \in 1 .. 31 /\ n \in 1 .. 12
    BY <1>6, <1>7, <1>13, <2>2
  <2>9. QED
    BY <2>4, <2>7, <2>8
<1>14. QED
  BY <1>12, <1>13

-----------------------------------------------------------------------------
(* From a date to the number of its day.                                    *)

LeapDay(y) == IF IsLeapYear(y) THEN 1 ELSE 0

LEMMA LengthTable ==
  ASSUME NEW y \in Int
  PROVE  /\ MonthLengths(y)[1] = 31 /\ MonthLengths(y)[2] = 28 + LeapDay(y)
         /\ MonthLengths(y)[3] = 31 /\ MonthLengths(y)[4] = 30
         /\ MonthLengths(y)[5] = 31 /\ MonthLengths(y)[6] = 30
         /\ MonthLengths(y)[7] = 31 /\ MonthLengths(y)[8] = 31
         /\ MonthLengths(y)[9] = 30 /\ MonthLengths(y)[10] = 31
         /\ MonthLengths(y)[11] = 30 /\ MonthLengths(y)[12] = 31
         /\ LeapDay(y) \in {0, 1}
BY DEF MonthLengths, LeapDay

(* The function by which DaysBefore is defined. *)
CountsDays(f, y) ==
  f = [m \in 1 .. 13 |-> IF m = 1 THEN 0 ELSE f[m - 1] + MonthLengths(y)[m - 1]]

LEMMA BeforeTable ==
  ASSUME NEW y \in Int, NEW f, CountsDays(f, y), NEW k, k = LeapDay(y)
  PROVE  /\ f[1] = 0 /\ f[2] = 31 /\ f[3] = 59 + k /\ f[4] = 90 + k
         /\ f[5] = 120 + k /\ f[6] = 151 + k /\ f[7] = 181 + k
         /\ f[8] = 212 + k /\ f[9] = 243 + k /\ f[10] = 273 + k
         /\ f[11] = 304 + k /\ f[12] = 334 + k /\ f[13] = 365 + k
<1> DEFINE len == MonthLengths(y)
<1>0. len[12] = 31
  BY LengthTable
<1>1. /\ len[1] = 31 /\ len[2] = 28 + k /\ len[3] = 31 /\ len[4] = 30
      /\ len[5] = 31 /\ len[6] = 30 /\ len[7] = 31 /\ len[8] = 31
      /\ len[9] = 30 /\ len[10] = 31 /\ len[11] = 30
      /\ k \in Int
  BY LengthTable
<1>2. \A m \in 1 .. 13 : f[m] = IF m = 1 THEN 0 ELSE f[m - 1] + len[m - 1]
  BY DEF CountsDays
<1> HIDE DEF len
<1>3. /\ f[1] = 0 /\ f[2] = f[1] + len[1] /\ f[3] = f[2] + len[2]
      /\ f[4] = f[3] + len[3] /\ f[5] = f[4] + len[4] /\ f[6] = f[5] + len[5]
  BY <1>2
<1>4. /\ f[7] = f[6] + len[6] /\ f[8] = f[7] + len[7] /\ f[9] = f[8] + len[8]
      /\ f[10] = f[9] + len[9] /\ f[11] = f[10] + len[10]
  BY <1>2
<1>5. f[12] = f[11] + len[11] /\ f[13] = f[12] + len[12]
  BY <1>2
<1>6. f[1] = 0 /\ f[2] = 31 /\ f[3] = 59 + k /\ f[4] = 90 + k
  BY <1>1, <1>3
<1>7. f[5] = 120 + k /\ f[6] = 151 + k /\ f[7] = 181 + k
  BY <1>1, <1>3, <1>4, <1>6
<1>8. f[8] = 212 + k /\ f[9] = 243 + k /\ f[10] = 273 + k
  BY <1>1, <1>4, <1>7
<1>9. f[11] = 304 + k
  BY <1>1, <1>4, <1>8
<1>10. f[12] = 334 + k
  BY <1>1, <1>5, <1>9
<1>11. f[13] = 365 + k
  <2>1. f[13] = f[12] + len[12]
    BY <1>5
  <2>2. f[13] = (334 + k) + 31
    BY <1>0, <1>10, <2>1, ZenonT(30)
  <2>3. k \in Int
    BY <1>1
  <2>4. QED
    BY <2>2, <2>3
<1>12. QED
  BY <1>6, <1>7, <1>8, <1>9, <1>10, <1>11

LEMMA DaysBeforeIs ==
  ASSUME NEW y \in Int
  PROVE  CountsDays(DaysBefore(y), y)
<1>1. PICK k \in {0, 1} : k = LeapDay(y)
  BY DEF LeapDay
<1> DEFINE h == [m \in 1 .. 13 |->
                   IF m <= 2 THEN 31 * (m - 1)
                   ELSE k + (CASE m = 3 -> 59 [] m = 4 -> 90 [] m = 5 -> 120
                               [] m = 6 -> 151 [] m = 7 -> 181 [] m = 8 -> 212
                               [] m = 9 -> 243 [] m = 10 -> 273 [] m = 11 -> 304
                               [] m = 12 -> 334 [] m = 13 -> 365)]
<1>2. /\ h[1] = 0 /\ h[2] = 31 /\ h[3] = k + 59 /\ h[4] = k + 90 /\ h[5] = k + 120
      /\ h[6] = k + 151 /\ h[7] = k + 181 /\ h[8] = k + 212 /\ h[9] = k + 243
      /\ h[10] = k + 273 /\ h[11] = k + 304 /\ h[12] = k + 334 /\ h[13] = k + 365
      /\ h = [m \in 1 .. 13 |-> h[m]]
  OBVIOUS
<1> HIDE DEF h
<1>3. ASSUME NEW m \in 1 .. 13
      PROVE  h[m] = IF m = 1 THEN 0 ELSE h[m - 1] + MonthLengths(y)[m - 1]
  <2>1. \/ m = 1 \/ m = 2 \/ m = 3 \/ m = 4 \/ m = 5 \/ m = 6 \/ m = 7
        \/ m = 8 \/ m = 9 \/ m = 10 \/ m = 11 \/ m = 12 \/ m = 13
    OBVIOUS
  <2>2. CASE m \in {1, 2, 3, 4, 5}
    BY <1>1, <1>2, <2>2, LengthTable
  <2>3. CASE m \in {6, 7, 8, 9}
    BY <1>1, <1>2, <2>3, LengthTable
  <2>4. CASE m \in {10, 11, 12, 13}
    BY <1>1, <1>2, <2>4, LengthTable
  <2>5. QED
    BY <2>1, <2>2, <2>3, <2>4
<1>4. h = [m \in 1 .. 13 |-> IF m = 1 THEN 0 ELSE h[m - 1] + MonthLengths(y)[m - 1]]
  BY <1>2, <1>3
<1>5. QED
  BY <1>4 DEF DaysBefore, CountsDays

LEMMA DaysBeforeTable ==
  ASSUME NEW y \in Int, NEW k, k = LeapDay(y)
  PROVE  LET f == DaysBefore(y)
         IN  /\ f[1] = 0 /\ f[2] = 31 /\ f[3] = 59 + k /\ f[4] = 90 + k
             /\ f[5] = 120 + k /\ f[6] = 151 + k /\ f[7] = 181 + k
             /\ f[8] = 212 + k /\ f[9] = 243 + k /\ f[10] = 273 + k
             /\ f[11] = 304 + k /\ f[12] = 334 + k /\ f[13] = 365 + k
<1> DEFINE f == DaysBefore(y)
<1>1. CountsDays(f, y)
  BY DaysBeforeIs
<1> HIDE DEF f
<1>2. /\ f[1] = 0 /\ f[2] = 31 /\ f[3] = 59 + k /\ f[4] = 90 + k
      /\ f[5] = 120 + k /\ f[6] = 151 + k /\ f[7] = 181 + k
      /\ f[8] = 212 + k /\ f[9] = 243 + k /\ f[10] = 273 + k
      /\ f[11] = 304 + k /\ f[12] = 334 + k /\ f[13] = 365 + k
  BY <1>1, BeforeTable
<1>3. QED
  BY <1>2 DEF f

(* The leap day is at the end of a year that begins in March. *)
LEMMA NextMarchYear ==
  ASSUME NEW y \in Int
  PROVE  MarchYears(y + 4800) = MarchYears(y + 4799) + 365 + LeapDay(y)
<1>1. PICK v \in Int : v = y + 4799
  OBVIOUS
<1>2. (v + 1) \div 4 - v \div 4 = IF (v + 1) % 4 = 0 THEN 1 ELSE 0
  OBVIOUS
<1>3. (v + 1) \div 100 - v \div 100 = IF (v + 1) % 100 = 0 THEN 1 ELSE 0
  OBVIOUS
<1>4. (v + 1) \div 400 - v \div 400 = IF (v + 1) % 400 = 0 THEN 1 ELSE 0
  OBVIOUS
<1>5. (v + 1) % 4 = y % 4 /\ (v + 1) % 100 = y % 100 /\ (v + 1) % 400 = y % 400
  BY <1>1
<1>6. (y % 400 = 0 => y % 100 = 0) /\ (y % 100 = 0 => y % 4 = 0)
  OBVIOUS
<1>7. PICK a4 \in Int, a100 \in Int, a400 \in Int :
        a4 = v \div 4 /\ a100 = v \div 100 /\ a400 = v \div 400
  OBVIOUS
<1>8. PICK b4 \in Int, b100 \in Int, b400 \in Int :
        b4 = (v + 1) \div 4 /\ b100 = (v + 1) \div 100 /\ b400 = (v + 1) \div 400
  OBVIOUS
<1>9. MarchYears(v) = v * 365 + a4 - a100 + a400
  BY <1>7 DEF MarchYears
<1>10. MarchYears(v + 1) = (v + 1) * 365 + b4 - b100 + b400
  BY <1>8 DEF MarchYears
<1>11. (b4 - a4) - (b100 - a100) + (b400 - a400) = LeapDay(y)
  BY <1>2, <1>3, <1>4, <1>5, <1>6, <1>7, <1>8 DEF LeapDay, IsLeapYear
<1>12. LeapDay(y) \in Int /\ y + 4800 = v + 1
  BY <1>1 DEF LeapDay
<1>13. MarchYears(v + 1) = MarchYears(v) + 365 + LeapDay(y)
  BY <1>9, <1>10, <1>11, <1>12
<1>14. QED
  BY <1>1, <1>12, <1>13

(* What getYearMonthDay() finds in the number of a day: the full centuries  *)
(* and years before it, and the days of its own year.                       *)
LEMMA CenturyOf ==
  ASSUME NEW b \in Nat, NEW r \in Nat, r <= 99, NEW n \in Nat, n <= 365,
         n = 365 => r % 4 = 3 /\ (r = 99 => b % 4 = 3),
         NEW a \in Nat, a = CenturyDays(b) + YearDays(r) + n
  PROVE  /\ Century(a) = b
         /\ YearOf(InCentury(a)) = r
         /\ InYear(InCentury(a)) = n
<1>1. PICK p \in Nat : p = b \div 4
  OBVIOUS
<1>2. PICK q \in Nat : q = r \div 4
  OBVIOUS
<1>3. 4 * p <= b /\ b <= 4 * p + 3 /\ 4 * q <= r /\ r <= 4 * q + 3
  BY <1>1, <1>2
<1>4. n = 365 => r = 4 * q + 3 /\ (r = 99 => b = 4 * p + 3)
  BY <1>1, <1>2
<1>5. CenturyDays(b) = 36524 * b + p
  BY <1>1 DEF CenturyDays
<1>6. YearDays(r) = 365 * r + q
  BY <1>2 DEF YearDays
<1>7. PICK c \in Nat : c = 365 * r + q + n
  OBVIOUS
<1>8. a = 36524 * b + p + c
  BY <1>5, <1>6, <1>7
<1>9. c <= 36523 \/ (c = 36524 /\ b = 4 * p + 3)
  BY <1>3, <1>4, <1>7
<1>10. 146097 * b <= 4 * a + 3 /\ 4 * a + 3 < 146097 * b + 146097
  BY <1>3, <1>8, <1>9
<1>11. (4 * a + 3) \div 146097 = b
  BY <1>10
<1>12. Century(a) = b /\ InCentury(a) = c
  <2>1. Century(a) = b
    BY <1>11 DEF Century
  <2>2. InCentury(a) = a - CenturyDays(b)
    BY <2>1 DEF InCentury
  <2>3. QED
    BY <1>5, <1>8, <2>1, <2>2
<1>13. 1461 * r <= 4 * c + 3 /\ 4 * c + 3 < 1461 * r + 1461
  BY <1>3, <1>4, <1>7
<1>14. (4 * c + 3) \div 1461 = r
  BY <1>13
<1>15. YearOf(c) = r /\ InYear(c) = n
  BY <1>6, <1>7, <1>14 DEF YearOf, InYear
<1>16. QED
  BY <1>12, <1>15

(* The same for the month and the day in it. *)
LEMMA MonthCases ==
  ASSUME NEW y \in Int, NEW m \in Nat, 1 <= m, m <= 12,
         NEW d \in Nat, 1 <= d, d <= MonthLengths(y)[m],
         NEW k \in Nat, k = IF m <= 2 THEN m + 9 ELSE m - 3,
         NEW n, n = MarchMonths(k) + d - 1
  PROVE  /\ n \in Nat /\ n <= 365
         /\ n = 365 => m = 2 /\ IsLeapYear(y)
         /\ MonthOf(n) = k /\ InMonth(n) = d
<1>1. \/ m = 1 \/ m = 2 \/ m = 3 \/ m = 4 \/ m = 5 \/ m = 6
      \/ m = 7 \/ m = 8 \/ m = 9 \/ m = 10 \/ m = 11 \/ m = 12
  OBVIOUS
<1>2. /\ MarchMonths(0) = 0 /\ MarchMonths(1) = 31 /\ MarchMonths(2) = 61
      /\ MarchMonths(3) = 92 /\ MarchMonths(4) = 122 /\ MarchMonths(5) = 153
      /\ MarchMonths(6) = 184 /\ MarchMonths(7) = 214 /\ MarchMonths(8) = 245
      /\ MarchMonths(9) = 275 /\ MarchMonths(10) = 306 /\ MarchMonths(11) = 337
  BY DEF MarchMonths
<1>3. PICK len \in Nat : len = MonthLengths(y)[m] /\ d <= len
  BY <1>1, LengthTable
<1>4. PICK s \in Nat : s = MarchMonths(k)
  BY <1>1, <1>2
<1>5. n = s + d - 1 /\ n \in Nat
  BY <1>4
<1>6. 153 * k <= 5 * s + 2 /\ 5 * (s + len - 1) + 2 < 153 * k + 153 /\ s + len - 1 <= 365
  <2>1. CASE m \in {1, 2, 3, 4}
    BY <1>2, <1>3, <1>4, <2>1, LengthTable
  <2>2. CASE m \in {5, 6, 7, 8}
    BY <1>2, <1>3, <1>4, <2>2, LengthTable
  <2>3. CASE m \in {9, 10, 11, 12}
    BY <1>2, <1>3, <1>4, <2>3, LengthTable
  <2>4. QED
    BY <1>1, <2>1, <2>2, <2>3
<1>7. 153 * k <= 5 * n + 2 /\ 5 * n + 2 < 153 * k + 153 /\ n <= 365
  BY <1>3, <1>5, <1>6
<1>8. MonthOf(n) = k
  BY <1>5, <1>7 DEF MonthOf
<1>9. InMonth(n) = d
  BY <1>4, <1>5, <1>8 DEF InMonth
<1>10. n = 365 => m = 2 /\ IsLeapYear(y)
  <2>1. CASE m = 2
    BY <1>2, <1>3, <1>4, <1>5, <2>1, LengthTable DEF LeapDay
  <2>2. CASE m # 2
    BY <1>1, <1>2, <1>3, <1>4, <1>5, <2>2, LengthTable
  <2>3. QED
    BY <2>1, <2>2
<1>11. QED
  BY <1>5, <1>7, <1>8, <1>9, <1>10

LEMMA NumberInverts ==
  ASSUME NEW y \in Int, y + 4799 >= 0, NEW m \in Nat, 1 <= m, m <= 12,
         NEW d \in Nat, 1 <= d, d <= MonthLengths(y)[m]
  PROVE  /\ GetJulianDayNumber(y, m, d) \in Int
         /\ GetJulianDayNumber(y, m, d) + 32044 >= 0
         /\ GetYearMonthDay(GetJulianDayNumber(y, m, d)) = [year |-> y, month |-> m, day |-> d]
<1>1. PICK t \in {0, 1} : t = IF m <= 2 THEN 1 ELSE 0
  OBVIOUS
<1>2. PICK v \in Nat : v = y + 4800 - t
  <2>1. t <= 1 /\ t \in Int /\ y + 4799 >= 0
    BY <1>1
  <2>2. y + 4800 - t \in Int /\ y + 4800 - t >= 0
    BY <2>1
  <2>3. y + 4800 - t \in Nat
    BY <2>2
  <2>4. QED
    BY <2>3
<1>3. PICK k \in Nat : k = IF m <= 2 THEN m + 9 ELSE m - 3
  OBVIOUS
<1>4. PICK n : n = MarchMonths(k) + d - 1
  OBVIOUS
<1>5. /\ n \in Nat /\ n <= 365
      /\ n = 365 => m = 2 /\ IsLeapYear(y)
      /\ MonthOf(n) = k /\ InMonth(n) = d
  BY <1>3, <1>4, MonthCases
<1>6. PICK b \in Nat : b = v \div 100
  BY <1>2
<1>7. PICK r \in Nat : r = v % 100
  BY <1>2
<1>8. v = 100 * b + r /\ r <= 99
  BY <1>6, <1>7
<1>9. n = 365 => r % 4 = 3 /\ (r = 99 => b % 4 = 3)
  <2>1. SUFFICES ASSUME n = 365
                 PROVE  r % 4 = 3 /\ (r = 99 => b % 4 = 3)
    OBVIOUS
  <2>2. v = y + 4799 /\ y % 4 = 0 /\ (y % 100 = 0 => y % 400 = 0)
    BY <1>1, <1>2, <1>5, <2>1 DEF IsLeapYear
  <2>3. v % 4 = 3
    BY <2>2
  <2>4. r % 4 = v % 4
    BY <1>8
  <2>5. ASSUME r = 99
        PROVE  b % 4 = 3
    <3>1. y % 100 = 0
      BY <1>8, <2>2, <2>5
    <3>2. v % 400 = 399
      BY <2>2, <3>1
    <3>3. QED
      BY <1>8, <2>5, <3>2
  <2>6. QED
    BY <2>3, <2>4, <2>5
<1>10. CenturyDays(b) \in Nat /\ YearDays(r) \in Nat
  BY DEF CenturyDays, YearDays
<1>11. PICK a \in Nat : a = CenturyDays(b) + YearDays(r) + n
  BY <1>5, <1>10
<1>12. Century(a) = b /\ YearOf(InCentury(a)) = r /\ InYear(InCentury(a)) = n
  BY <1>5, <1>8, <1>9, <1>11, CenturyOf
<1>13. MarchYears(v) = CenturyDays(b) + YearDays(r)
  BY <1>8, Centuries
<1>14. MarchMonths(k) \in Int
  BY DEF MarchMonths
<1>15. PICK j \in Int : j = a - 32044
  OBVIOUS
<1>16. GetJulianDayNumber(y, m, d) = j
  <2>1. MarchYears(v) + MarchMonths(k) + d - 32045 = j
    BY <1>4, <1>10, <1>11, <1>13, <1>14, <1>15
  <2>2. CASE m <= 2
    <3>1. GetJulianDayNumber(y, m, d) = MarchYears(y + 4799) + MarchMonths(m + 9) + d - 32045
      BY <2>2, DayNumberEarly
    <3>2. y + 4799 = v /\ m + 9 = k
      BY <1>1, <1>2, <1>3, <2>2
    <3>3. QED
      BY <2>1, <3>1, <3>2
  <2>3. CASE ~ (m <= 2)
    <3>1. 3 <= m
      BY <2>3
    <3>2. GetJulianDayNumber(y, m, d) = MarchYears(y + 4800) + MarchMonths(m - 3) + d - 32045
      BY <3>1, DayNumberLate
    <3>3. y + 4800 = v /\ m - 3 = k
      BY <1>1, <1>2, <1>3, <2>3
    <3>4. QED
      BY <2>1, <3>2, <3>3
  <2>4. QED
    BY <2>2, <2>3
<1>17. j + 32044 = a
  BY <1>15
<1>18. GetYearMonthDay(j) = DateFrom(b, r, k, d)
  <2>1. PICK c : c = InCentury(a)
    OBVIOUS
  <2>2. YearOf(c) = r /\ InYear(c) = n
    BY <1>12, <2>1
  <2>3. QED
    BY <1>5, <1>12, <1>17, <2>1, <2>2, DateOf, SMT
<1>19. /\ b * 100 + r - 4800 + k \div 10 = y
       /\ k + 3 - 12 * (k \div 10) = m
  <2>1. CASE m <= 2
    <3>1. k \div 10 = 1 /\ k = m + 9 /\ v = y + 4799
      BY <1>1, <1>2, <1>3, <2>1
    <3>2. QED
      BY <1>8, <3>1
  <2>2. CASE ~ (m <= 2)
    <3>1. k \div 10 = 0 /\ k = m - 3 /\ v = y + 4800
      BY <1>1, <1>2, <1>3, <2>2
    <3>2. QED
      BY <1>8, <3>1
  <2>3. QED
    BY <2>1, <2>2
<1>20. QED
  BY <1>16, <1>17, <1>18, <1>19 DEF DateFrom

(* The number of a day is that of the first of January and the days since. *)
LEMMA DayOfYear ==
  ASSUME NEW y \in Int, NEW m \in Nat, 1 <= m, m <= 12, NEW d \in Int
  PROVE  GetJulianDayNumber(y, m, d)
           = GetJulianDayNumber(y, 1, 1) + DaysBefore(y)[m] + d - 1
<1>1. PICK k \in {0, 1} : k = LeapDay(y)
  BY DEF LeapDay
<1>2. /\ DaysBefore(y)[1] = 0 /\ DaysBefore(y)[2] = 31 /\ DaysBefore(y)[3] = 59 + k
      /\ DaysBefore(y)[4] = 90 + k /\ DaysBefore(y)[5] = 120 + k /\ DaysBefore(y)[6] = 151 + k
      /\ DaysBefore(y)[7] = 181 + k /\ DaysBefore(y)[8] = 212 + k /\ DaysBefore(y)[9] = 243 + k
      /\ DaysBefore(y)[10] = 273 + k /\ DaysBefore(y)[11] = 304 + k /\ DaysBefore(y)[12] = 334 + k
  BY <1>1, DaysBeforeTable
<1>3. /\ MarchMonths(0) = 0 /\ MarchMonths(1) = 31 /\ MarchMonths(2) = 61
      /\ MarchMonths(3) = 92 /\ MarchMonths(4) = 122 /\ MarchMonths(5) = 153
      /\ MarchMonths(6) = 184 /\ MarchMonths(7) = 214 /\ MarchMonths(8) = 245
      /\ MarchMonths(9) = 275 /\ MarchMonths(10) = 306 /\ MarchMonths(11) = 337
  BY DEF MarchMonths
<1>4. PICK v \in Int : v = MarchYears(y + 4799)
  BY DEF MarchYears
<1>5. MarchYears(y + 4800) = v + 365 + k
  BY <1>1, <1>4, NextMarchYear
<1>6. GetJulianDayNumber(y, 1, 1) = v + 306 + 1 - 32045
  <2>1. GetJulianDayNumber(y, 1, 1) = MarchYears(y + 4799) + MarchMonths(1 + 9) + 1 - 32045
    BY DayNumberEarly
  <2>2. QED
    BY <1>3, <1>4, <2>1
<1>7. CASE m <= 2
  <2>1. GetJulianDayNumber(y, m, d) = v + MarchMonths(m + 9) + d - 32045
    BY <1>4, <1>7, DayNumberEarly
  <2>2. m = 1 \/ m = 2
    BY <1>7
  <2>3. QED
    BY <1>2, <1>3, <1>6, <2>1, <2>2
<1>8. CASE ~ (m <= 2)
  <2>1. GetJulianDayNumber(y, m, d) = v + 365 + k + MarchMonths(m - 3) + d - 32045
    <3>1. 3 <= m
      BY <1>8
    <3>2. GetJulianDayNumber(y, m, d) = MarchYears(y + 4800) + MarchMonths(m - 3) + d - 32045
      BY <3>1, DayNumberLate
    <3>3. QED
      BY <1>5, <3>2
  <2>2. m \in {3, 4, 5, 6, 7, 8, 9, 10, 11, 12}
    BY <1>8
  <2>3. CASE m \in {3, 4, 5, 6, 7}
    BY <1>2, <1>3, <1>6, <2>1, <2>3
  <2>4. CASE m \in {8, 9, 10, 11, 12}
    BY <1>2, <1>3, <1>6, <2>1, <2>4
  <2>5. QED
    BY <2>2, <2>3, <2>4
<1>9. QED
  BY <1>7, <1>8

-----------------------------------------------------------------------------
(* The inputs of the run, whatever LastYear and Stretch are.                *)

LEMMA NumberType ==
  ASSUME NEW y \in Int, NEW m \in Nat, 1 <= m, m <= 12, NEW d \in Int
  PROVE  GetJulianDayNumber(y, m, d) \in Int
BY DEF GetJulianDayNumber

LEMMA EpochDay == JulianDayOf19700101 = 2440588
BY DEF JulianDayOf19700101, GetJulianDayNumber

(* The days on which clocks of the zones of the run change. *)
LEMMA NoonIs ==
  ASSUME NEW h \in Nat
  PROVE  /\ Noon(1965, 4, 25, h) = (-1712) * 86400 + h * 3600
         /\ Noon(1965, 10, 31, h) = (-1523) * 86400 + h * 3600
         /\ Noon(1966, 4, 24, h) = (-1348) * 86400 + h * 3600
         /\ Noon(1989, 9, 16, h) = 7198 * 86400 + h * 3600
         /\ Noon(1990, 4, 14, h) = 7408 * 86400 + h * 3600
         /\ Noon(1990, 9, 15, h) = 7562 * 86400 + h * 3600
         /\ Noon(1991, 4, 13, h) = 7772 * 86400 + h * 3600
         /\ Noon(1991, 9, 14, h) = 7926 * 86400 + h * 3600
<1>1. GetJulianDayNumber(1965, 4, 25) = 2438876
  BY SMT DEF GetJulianDayNumber
<1>2. GetJulianDayNumber(1965, 10, 31) = 2439065
  BY SMT DEF GetJulianDayNumber
<1>3. GetJulianDayNumber(1966, 4, 24) = 2439240
  BY SMT DEF GetJulianDayNumber
<1>4. GetJulianDayNumber(1989, 9, 16) = 2447786
  BY SMT DEF GetJulianDayNumber
<1>5. GetJulianDayNumber(1990, 4, 14) = 2447996
  BY SMT DEF GetJulianDayNumber
<1>6. GetJulianDayNumber(1990, 9, 15) = 2448150
  BY SMT DEF GetJulianDayNumber
<1>7. GetJulianDayNumber(1991, 4, 13) = 2448360
  BY SMT DEF GetJulianDayNumber
<1>8. GetJulianDayNumber(1991, 9, 14) = 2448514
  BY SMT DEF GetJulianDayNumber
<1>9. QED
  BY <1>1, <1>2, <1>3, <1>4, <1>5, <1>6, <1>7, <1>8, EpochDay, SMT DEF Noon, FromUtcTime, SecondsPerDay

(* The first of January walks on with the years, and the day of the week    *)
(* with it.                                                                 *)
YearInput ==
  \E y \in Nat, jan1 \in Int :
    /\ y >= 1900
    /\ jan1 = GetJulianDayNumber(y, 1, 1)
    /\ input = [kind |-> "year", year |-> y, jan1 |-> jan1, weekDay |-> WeekDay(jan1)]

LEMMA YearRecord ==
  ASSUME NEW y, NEW j, NEW w, NEW a, NEW b, NEW c,
         NEW r, r = [kind |-> "year", year |-> y, jan1 |-> j, weekDay |-> w],
         NEW s, s = [r EXCEPT !.year = a, !.jan1 = b, !.weekDay = c]
  PROVE  s = [kind |-> "year", year |-> a, jan1 |-> b, weekDay |-> c]
<1>1. PICK r1 : r1 = [kind |-> "year", year |-> a, jan1 |-> j, weekDay |-> w]
  OBVIOUS
<1>2. PICK r2 : r2 = [kind |-> "year", year |-> a, jan1 |-> b, weekDay |-> w]
  OBVIOUS
<1>3. r1 = [r EXCEPT !.year = a]
  BY <1>1
<1>4. r2 = [r1 EXCEPT !.jan1 = b]
  BY <1>1, <1>2
<1>5. [r2 EXCEPT !.weekDay = c] = [kind |-> "year", year |-> a, jan1 |-> b, weekDay |-> c]
  BY <1>2
<1>6. s = [[[r EXCEPT !.year = a] EXCEPT !.jan1 = b] EXCEPT !.weekDay = c]
  OBVIOUS
<1>7. QED
  BY <1>3, <1>4, <1>5, <1>6

InstantInput ==
  \E z \in Zones, u \in Int, v \in Int :
    u >= -1000000000 /\ input = [kind |-> "instant", zone |-> z, utc |-> u, until |-> v]

NumberInput ==
  \/ \E n, l : input = [kind |-> "SI", groups |-> n, left |-> l]
  \/ \E k \in {"IEC", "int", "line"} : \E n \in Int : \E l : input = [kind |-> k, n |-> n, left |-> l]

InputInv == YearInput \/ InstantInput \/ NumberInput

LEMMA InputInit == Init => InputInv
<1> SUFFICES ASSUME Init PROVE InputInv
  OBVIOUS
<1>1. CASE input = [kind |-> "year", year |-> 1900, jan1 |-> 2415021, weekDay |-> 1]
  <2>1. GetJulianDayNumber(1900, 1, 1) = 2415021 /\ WeekDay(2415021) = 1
    BY DEF GetJulianDayNumber, WeekDay
  <2>2. QED
    BY <1>1, <2>1 DEF InputInv, YearInput
<1> DEFINE Starts == {-7200, Noon(1965, 4, 25, 5), Noon(1965, 10, 31, 4), Noon(1966, 4, 24, 5),
                      Noon(1989, 9, 16, 15), Noon(1990, 4, 14, 16), Noon(1990, 9, 15, 15),
                      Noon(1991, 4, 13, 16), Noon(1991, 9, 14, 15)}
<1>2. \A u \in Starts : u \in Int /\ u >= -1000000000
  <2>1. Noon(1965, 4, 25, 5) = (-1712) * 86400 + 5 * 3600
    BY NoonIs, SMT
  <2>2. Noon(1965, 10, 31, 4) = (-1523) * 86400 + 4 * 3600
    BY NoonIs, SMT
  <2>3. Noon(1966, 4, 24, 5) = (-1348) * 86400 + 5 * 3600
    BY NoonIs, SMT
  <2>4. Noon(1989, 9, 16, 15) = 7198 * 86400 + 15 * 3600
    BY NoonIs, SMT
  <2>5. Noon(1990, 4, 14, 16) = 7408 * 86400 + 16 * 3600
    BY NoonIs, SMT
  <2>6. Noon(1990, 9, 15, 15) = 7562 * 86400 + 15 * 3600
    BY NoonIs, SMT
  <2>7. Noon(1991, 4, 13, 16) = 7772 * 86400 + 16 * 3600
    BY NoonIs, SMT
  <2>8. Noon(1991, 9, 14, 15) = 7926 * 86400 + 15 * 3600
    BY NoonIs, SMT
  <2>9. QED
    BY <2>1, <2>2, <2>3, <2>4, <2>5, <2>6, <2>7, <2>8, SMT
<1> HIDE DEF Starts
<1>3. CASE \E z \in Zones, u \in Starts :
             input = [kind |-> "instant", zone |-> z, utc |-> u, until |-> u + 4 * 3600]
  <2>1. PICK z \in Zones, u \in Starts :
               input = [kind |-> "instant", zone |-> z, utc |-> u, until |-> u + 4 * 3600]
    BY <1>3
  <2>2. u \in Int /\ u >= -1000000000 /\ u + 4 * 3600 \in Int
    BY <1>2
  <2>3. QED
    BY <2>1, <2>2 DEF InputInv, InstantInput
<1>4. CASE \E n, l : input = [kind |-> "SI", groups |-> n, left |-> l]
  BY <1>4 DEF InputInv, NumberInput
<1> DEFINE Lines == {3920 + k * Stretch : k \in 0 .. 5}
<1>5. /\ PlacesIEC \subseteq Int
      /\ PlacesInt \subseteq Int
      /\ Lines \subseteq Int
  <2>1. PlacesIEC \subseteq Int
    BY SMT DEF PlacesIEC
  <2>2. PlacesInt \subseteq Int
    BY SMT DEF PlacesInt
  <2>3. Lines \subseteq Int
    BY StretchAssumption, SMT
  <2>4. QED
    BY <2>1, <2>2, <2>3, Zenon
<1> HIDE DEF Lines
<1>6. CASE \/ \E n \in PlacesIEC : input = [kind |-> "IEC", n |-> n, left |-> Stretch]
           \/ \E n \in PlacesInt : input = [kind |-> "int", n |-> n, left |-> Stretch]
           \/ \E n \in Lines : input = [kind |-> "line", n |-> n, left |-> Stretch]
  <2>1. PICK k \in {"IEC", "int", "line"}, n \in Int :
               input = [kind |-> k, n |-> n, left |-> Stretch]
    BY <1>5, <1>6, Zenon
  <2>2. QED
    BY <2>1, Zenon DEF InputInv, NumberInput
<1>7. QED
  BY <1>1, <1>3, <1>4, <1>6, SMT DEF Init, First, Starts, Lines

LEMMA InputStep == InputInv /\ [Next]_input => InputInv'
<1> SUFFICES ASSUME InputInv, [Next]_input PROVE InputInv'
  OBVIOUS
<1>1. CASE YearInput
  <2>1. PICK y \in Nat, jan1 \in Int :
               /\ y >= 1900
               /\ jan1 = GetJulianDayNumber(y, 1, 1)
               /\ input = [kind |-> "year", year |-> y, jan1 |-> jan1, weekDay |-> WeekDay(jan1)]
    BY <1>1 DEF YearInput
  <2>2. CASE NextYear
    <3>1. PICK k \in {0, 1} : k = LeapDay(y)
      BY DEF LeapDay
    <3>2. DaysBefore(y)[13] = 365 + k
      BY <3>1, DaysBeforeTable
    <3>3. input' = [kind |-> "year", year |-> y + 1, jan1 |-> jan1 + 365 + k,
                    weekDay |-> (WeekDay(jan1) + 365 + k) % 7]
      <4>1. input' = [kind |-> "year", year |-> y + 1, jan1 |-> jan1 + DaysBefore(y)[13],
                      weekDay |-> (WeekDay(jan1) + DaysBefore(y)[13]) % 7]
        <5>1. input.year = y /\ input.jan1 = jan1 /\ input.weekDay = WeekDay(jan1)
          BY <2>1
        <5>2. input' = [input EXCEPT !.year    = y + 1,
                                     !.jan1    = jan1 + DaysBefore(y)[13],
                                     !.weekDay = (WeekDay(jan1) + DaysBefore(y)[13]) % 7]
          BY <2>2, <5>1 DEF NextYear
        <5>3. PICK a, b, w : a = y + 1 /\ b = jan1 + DaysBefore(y)[13]
                             /\ w = (WeekDay(jan1) + DaysBefore(y)[13]) % 7
          OBVIOUS
        <5>4. input' = [input EXCEPT !.year = a, !.jan1 = b, !.weekDay = w]
          BY <5>2, <5>3
        <5>5. input' = [kind |-> "year", year |-> a, jan1 |-> b, weekDay |-> w]
          <6>1. PICK r, s, v : r = input /\ s = input' /\ v = WeekDay(jan1)
            OBVIOUS
          <6>2. r = [kind |-> "year", year |-> y, jan1 |-> jan1, weekDay |-> v]
            BY <2>1, <6>1
          <6>3. s = [r EXCEPT !.year = a, !.jan1 = b, !.weekDay = w]
            BY <5>4, <6>1
          <6>4. s = [kind |-> "year", year |-> a, jan1 |-> b, weekDay |-> w]
            BY <6>2, <6>3, YearRecord
          <6>5. QED
            BY <6>1, <6>4
        <5>6. QED
          BY <5>3, <5>5
      <4>2. WeekDay(jan1) \in Int
        BY DEF WeekDay
      <4>3. QED
        BY <3>1, <3>2, <4>1, <4>2
    <3>4. (WeekDay(jan1) + 365 + k) % 7 = WeekDay(jan1 + 365 + k)
      BY <3>1 DEF WeekDay
    <3>5. GetJulianDayNumber(y + 1, 1, 1) = jan1 + 365 + k
      <4>1. PICK z \in Int : z = y + 1
        OBVIOUS
      <4>2. GetJulianDayNumber(z, 1, 1) = MarchYears(z + 4799) + MarchMonths(1 + 9) + 1 - 32045
        BY DayNumberEarly
      <4>3. GetJulianDayNumber(y, 1, 1) = MarchYears(y + 4799) + MarchMonths(1 + 9) + 1 - 32045
        BY DayNumberEarly
      <4>4. MarchYears(y + 4800) = MarchYears(y + 4799) + 365 + k
        BY <3>1, NextMarchYear
      <4>5. z + 4799 = y + 4800
        BY <4>1
      <4>6. MarchYears(y + 4799) \in Int /\ MarchMonths(1 + 9) \in Int
        BY DEF MarchYears, MarchMonths
      <4>7. QED
        BY <2>1, <3>1, <4>1, <4>2, <4>3, <4>4, <4>5, <4>6
    <3>6. QED
      <4>1. y + 1 \in Nat /\ jan1 + 365 + k \in Int /\ y + 1 >= 1900
        BY <2>1, <3>1
      <4>2. YearInput'
        BY <3>3, <3>4, <3>5, <4>1 DEF YearInput
      <4>3. QED
        BY <4>2 DEF InputInv
  <2>3. CASE NextInstant \/ NextNumber
    BY <2>1, <2>3 DEF NextInstant, NextNumber
  <2>4. CASE input' = input
    BY <1>1, <2>4 DEF InputInv, YearInput
  <2>5. QED
    BY <2>2, <2>3, <2>4 DEF Next
<1>2. CASE InstantInput
  <2>1. PICK z \in Zones, u \in Int, v \in Int :
               u >= -1000000000 /\ input = [kind |-> "instant", zone |-> z, utc |-> u, until |-> v]
    BY <1>2 DEF InstantInput
  <2>2. CASE NextInstant
    <3>1. input' = [kind |-> "instant", zone |-> z, utc |-> u + 900, until |-> v]
      BY <2>1, <2>2 DEF NextInstant
    <3>2. u + 900 \in Int /\ u + 900 >= -1000000000
      BY <2>1
    <3>3. QED
      BY <3>1, <3>2 DEF InputInv, InstantInput
  <2>3. CASE NextYear \/ NextNumber
    BY <2>1, <2>3 DEF NextYear, NextNumber
  <2>4. CASE input' = input
    BY <2>1, <2>4 DEF InputInv, InstantInput
  <2>5. QED
    BY <2>2, <2>3, <2>4 DEF Next
<1>3. CASE NumberInput
  <2>1. CASE NextNumber
    <3>1. ASSUME NEW n, NEW l, input = [kind |-> "SI", groups |-> n, left |-> l]
          PROVE  NumberInput'
      <4>1. input' = [kind |-> "SI", groups |-> PlusOne(n), left |-> l - 1]
        BY <2>1, <3>1 DEF NextNumber
      <4>2. QED
        BY <4>1 DEF NumberInput
    <3>2. ASSUME NEW k \in {"IEC", "int", "line"}, NEW n \in Int, NEW l,
                 input = [kind |-> k, n |-> n, left |-> l]
          PROVE  NumberInput'
      <4>1. input' = [kind |-> k, n |-> n + 1, left |-> l - 1]
        BY <2>1, <3>2 DEF NextNumber
      <4>2. n + 1 \in Int
        OBVIOUS
      <4>3. \E m \in Int : \E r : input' = [kind |-> k, n |-> m, left |-> r]
        BY <4>1, <4>2, Zenon
      <4>4. QED
        BY <4>3, Zenon DEF NumberInput
    <3>3. QED
      BY <1>3, <3>1, <3>2 DEF InputInv, NumberInput
  <2>2. input.kind \in {"SI", "IEC", "int", "line"}
    BY <1>3 DEF NumberInput
  <2>3. CASE NextYear \/ NextInstant
    BY <2>2, <2>3 DEF NextYear, NextInstant
  <2>4. CASE input' = input
    BY <1>3, <2>4 DEF InputInv, NumberInput
  <2>5. QED
    BY <2>1, <2>3, <2>4 DEF Next
<1>4. QED
  BY <1>1, <1>2, <1>3 DEF InputInv

LEMMA InputInvariance == Spec => []InputInv
BY InputInit, InputStep, PTL DEF Spec

(* Every day of every year from 1900 on has the number that the months and  *)
(* the leap years give it, that number has that date, and the day of the    *)
(* week follows that of the day before.                                     *)
THEOREM DatesAgreeInvariance == Spec => []DatesAgree
<1>1. InputInv => DatesAgree
  <2> SUFFICES ASSUME InputInv, input.kind = "year",
                      NEW m \in 1 .. 12, NEW d \in 1 .. MonthLengths(input.year)[m]
               PROVE  LET day == DaysBefore(input.year)[m] + d - 1
                          jdn == input.jan1 + day
                      IN  /\ GetJulianDayNumber(input.year, m, d) = jdn
                          /\ GetYearMonthDay(jdn) = [year |-> input.year, month |-> m, day |-> d]
                          /\ WeekDay(jdn) = (input.weekDay + day) % 7
    BY DEF DatesAgree
  <2>1. YearInput
    BY DEF InputInv, InstantInput, NumberInput
  <2>2. PICK y \in Nat, jan1 \in Int :
               /\ y >= 1900
               /\ jan1 = GetJulianDayNumber(y, 1, 1)
               /\ input = [kind |-> "year", year |-> y, jan1 |-> jan1, weekDay |-> WeekDay(jan1)]
    BY <2>1 DEF YearInput
  <2>3. y \in Int /\ y + 4799 >= 0 /\ m \in Nat /\ 1 <= m /\ m <= 12
    BY <2>2
  <2>4. d \in Nat /\ 1 <= d /\ d <= MonthLengths(y)[m]
    <3>1. PICK len \in Nat : len = MonthLengths(y)[m]
      BY <2>3, LengthTable
    <3>2. d \in 1 .. len
      BY <2>2, <3>1
    <3>3. QED
      BY <3>1, <3>2
  <2>5. PICK j \in Int : j = GetJulianDayNumber(y, m, d)
    BY <2>3, <2>4, NumberInverts
  <2>6. PICK b \in Int : b = DaysBefore(y)[m]
    <3>1. PICK k \in {0, 1} : k = LeapDay(y)
      BY DEF LeapDay
    <3>2. QED
      BY <2>3, <3>1, DaysBeforeTable
  <2>7. j = jan1 + b + d - 1
    BY <2>2, <2>3, <2>4, <2>5, <2>6, DayOfYear
  <2>8. GetYearMonthDay(j) = [year |-> y, month |-> m, day |-> d]
    BY <2>3, <2>4, <2>5, NumberInverts
  <2>9. PICK day \in Int : day = b + d - 1
    BY <2>4
  <2>10. jan1 + day = j
    BY <2>4, <2>7, <2>9
  <2>11. WeekDay(jan1 + day) = (WeekDay(jan1) + day) % 7
    BY <2>9 DEF WeekDay
  <2>12. DaysBefore(input.year)[m] + d - 1 = day /\ input.year = y
         /\ input.jan1 = jan1 /\ input.weekDay = WeekDay(jan1)
    BY <2>2, <2>6, <2>9
  <2>13. QED
    BY <2>5, <2>8, <2>10, <2>11, <2>12
<1>2. QED
  BY <1>1, InputInvariance, PTL

-----------------------------------------------------------------------------
(* Times of day, before 1970 too.                                           *)

(* The corrections of breakTime() make the quotients of C++ those that      *)
(* round down.                                                              *)
LEMMA BreakTimeIs ==
  ASSUME NEW days \in Int, NEW s \in Nat, s < 86400,
         NEW t \in Int, t = days * 86400 + s
  PROVE  BreakTime(t) = At(GetYearMonthDay(days + 2440588), FillHMS(s))
<1>1. PICK q \in Int : q = Quotient(t, SecondsPerDay)
  BY DEF Quotient, SecondsPerDay
<1>2. PICK r \in Int : r = Remainder(t, SecondsPerDay)
  BY <1>1 DEF Remainder, SecondsPerDay
<1>3. r = t - 86400 * q
  BY <1>1, <1>2 DEF Remainder, SecondsPerDay
<1>4. BreakTime(t) = At(GetYearMonthDay((IF r < 0 THEN q - 1 ELSE q) + JulianDayOf19700101),
                        FillHMS(IF r < 0 THEN r + SecondsPerDay ELSE r))
  BY <1>1, <1>2 DEF BreakTime
<1>5. CASE t >= 0
  <2>1. q = t \div 86400
    BY <1>1, <1>5 DEF Quotient, SecondsPerDay
  <2>2. q = days /\ r = s
    BY <1>3, <2>1
  <2>3. QED
    BY <1>4, <2>2, EpochDay
<1>6. CASE ~ (t >= 0)
  <2>1. q = -((-t) \div 86400)
    BY <1>1, <1>6 DEF Quotient, SecondsPerDay
  <2>2. CASE s = 0
    <3>1. q = days /\ r = s
      BY <1>3, <2>1, <2>2
    <3>2. QED
      BY <1>4, <3>1, EpochDay
  <2>3. CASE s # 0
    <3>1. q = days + 1
      BY <2>1, <2>3
    <3>2. r = s - 86400
      BY <1>3, <3>1
    <3>3. r < 0 /\ q - 1 = days /\ r + 86400 = s
      BY <3>1, <3>2
    <3>4. SecondsPerDay = 86400
      BY DEF SecondsPerDay
    <3>5. QED
      BY <1>4, <3>3, <3>4, EpochDay
  <2>4. QED
    BY <2>2, <2>3
<1>7. QED
  BY <1>5, <1>6

LEMMA FillHMSIs ==
  ASSUME NEW h \in Nat, NEW m \in Nat, m <= 59, NEW s \in Nat, s <= 59
  PROVE  FillHMS(h * 3600 + m * 60 + s) = [hour |-> h, minute |-> m, second |-> s]
<1>1. PICK v \in Nat : v = h * 3600 + m * 60 + s
  OBVIOUS
<1>2. v \div 60 = h * 60 + m
  BY <1>1
<1>3. (h * 60 + m) \div 60 = h
  OBVIOUS
<1>4. h * 60 + m - h * 60 = m /\ v - (h * 60 + m) * 60 = s
  BY <1>1
<1>5. FillHMS(v) = [hour |-> h, minute |-> m, second |-> s]
  BY <1>2, <1>3, <1>4 DEF FillHMS
<1>6. QED
  BY <1>1, <1>5

SecondIs(c, h, m, s) == h <= 23 /\ m <= 59 /\ s <= 59 /\ c = h * 3600 + m * 60 + s

LEMMA HMSOf ==
  ASSUME NEW s \in Nat, s < 86400
  PROVE  \E h, m, c \in Nat : SecondIs(s, h, m, c)
<1>1. PICK v \in Nat : v = s \div 60
  OBVIOUS
<1>2. 60 * v <= s /\ s < 60 * v + 60 /\ v < 1440
  BY <1>1
<1>3. PICK h \in Nat : h = v \div 60
  OBVIOUS
<1>4. 60 * h <= v /\ v < 60 * h + 60 /\ h <= 23
  BY <1>2, <1>3
<1>5. v - h * 60 \in Nat /\ s - v * 60 \in Nat
  BY <1>2, <1>4
<1>6. PICK m \in Nat, c \in Nat : m = v - h * 60 /\ c = s - v * 60
  BY <1>5
<1>7. m <= 59 /\ c <= 59 /\ s = h * 3600 + m * 60 + c
  BY <1>2, <1>4, <1>6
<1>8. QED
  BY <1>4, <1>7 DEF SecondIs

(* The date and the time of day that the second h:m:s of the day j is       *)
(* broken into, and back.                                                   *)
LEMMA DayAndTime ==
  ASSUME NEW j \in Int, j + 32044 >= 0,
         NEW h \in Nat, h <= 23, NEW m \in Nat, m <= 59, NEW s \in Nat, s <= 59,
         NEW t \in Int, t = (j - 2440588) * 86400 + h * 3600 + m * 60 + s
  PROVE  LET dt == At(GetYearMonthDay(j), [hour |-> h, minute |-> m, second |-> s])
         IN  BreakTime(t) = dt /\ FromUtcTime(dt) = t
<1>1. PICK days \in Int : days = j - 2440588
  OBVIOUS
<1>2. PICK c \in Nat : c = h * 3600 + m * 60 + s
  OBVIOUS
<1>3. c < 86400 /\ t = days * 86400 + c /\ days + 2440588 = j
  BY <1>1, <1>2
<1>4. FillHMS(c) = [hour |-> h, minute |-> m, second |-> s]
  BY <1>2, FillHMSIs
<1>5. BreakTime(t) = At(GetYearMonthDay(days + 2440588), FillHMS(c))
  BY <1>3, BreakTimeIs
<1>6. PICK date : date = GetYearMonthDay(j)
  OBVIOUS
<1>7. GetJulianDayNumber(date.year, date.month, date.day) = j
  BY <1>6, DateInverts
<1>8. PICK dt : dt = At(date, [hour |-> h, minute |-> m, second |-> s])
  OBVIOUS
<1>9. FromUtcTime(dt) = t
  <2>1. /\ dt.year = date.year /\ dt.month = date.month /\ dt.day = date.day
        /\ dt.hour = h /\ dt.minute = m /\ dt.second = s
    BY <1>8 DEF At
  <2>2. FromUtcTime(dt) = (j - 2440588) * 86400 + h * 3600 + m * 60 + s
    BY <1>7, <2>1, EpochDay DEF FromUtcTime, SecondsPerDay
  <2>3. QED
    BY <2>2
<1>10. BreakTime(t) = dt
  BY <1>3, <1>4, <1>5, <1>6, <1>8
<1>11. QED
  BY <1>6, <1>8, <1>9, <1>10

LEMMA SecondOfDayInverts ==
  ASSUME NEW days \in Int, days + 2440588 + 32044 >= 0, NEW c \in Nat, c < 86400,
         NEW t \in Int, t = days * 86400 + c
  PROVE  FromUtcTime(BreakTime(t)) = t
<1>1. PICK h, m, s \in Nat : SecondIs(c, h, m, s)
  BY HMSOf
<1>2. h <= 23 /\ m <= 59 /\ s <= 59 /\ c = h * 3600 + m * 60 + s
  BY <1>1 DEF SecondIs
<1>3. PICK j \in Int : j = days + 2440588
  OBVIOUS
<1>4. j + 32044 >= 0
  BY <1>3
<1>5. t = (j - 2440588) * 86400 + h * 3600 + m * 60 + s
  BY <1>2, <1>3
<1>6. PICK dt : dt = At(GetYearMonthDay(j), [hour |-> h, minute |-> m, second |-> s])
  OBVIOUS
<1>7. BreakTime(t) = dt /\ FromUtcTime(dt) = t
  BY <1>2, <1>4, <1>5, <1>6, DayAndTime
<1>8. QED
  BY <1>7

(* The instants from the March of 4801 B.C. on, when day 0 of the code is.  *)
HasDate(t) == t \div 86400 >= -32044 - 2440588

(* breakTime() loses nothing: fromUtcTime() of what it returns is the instant*)
(* it was given.                                                            *)
THEOREM BreakTimeInverts ==
  ASSUME NEW t \in Int, HasDate(t)
  PROVE  FromUtcTime(BreakTime(t)) = t
<1>1. PICK days \in Int : days = t \div 86400
  OBVIOUS
<1>2. PICK c \in Nat : c = t % 86400
  OBVIOUS
<1>3. t = days * 86400 + c /\ c < 86400
  BY <1>1, <1>2
<1>4. days + 2440588 + 32044 >= 0
  BY <1>1 DEF HasDate
<1>5. QED
  BY <1>3, <1>4, SecondOfDayInverts

(* Nor does fromUtcTime(): of a date that the calendar has, and a time of   *)
(* day, breakTime() of the instant gives both back.                         *)
THEOREM FromUtcTimeInverts ==
  ASSUME NEW y \in Int, y + 4799 >= 0, NEW m \in Nat, 1 <= m, m <= 12,
         NEW d \in Nat, 1 <= d, d <= MonthLengths(y)[m],
         NEW h \in Nat, h <= 23, NEW n \in Nat, n <= 59, NEW s \in Nat, s <= 59
  PROVE  LET dt == [year |-> y, month |-> m, day |-> d,
                    hour |-> h, minute |-> n, second |-> s]
         IN  BreakTime(FromUtcTime(dt)) = dt
<1>1. PICK j \in Int : j = GetJulianDayNumber(y, m, d)
  BY NumberType
<1>2. j + 32044 >= 0 /\ GetYearMonthDay(j) = [year |-> y, month |-> m, day |-> d]
  BY <1>1, NumberInverts
<1> DEFINE dt == At(GetYearMonthDay(j), [hour |-> h, minute |-> n, second |-> s])
<1>3. dt = [year |-> y, month |-> m, day |-> d, hour |-> h, minute |-> n, second |-> s]
  BY <1>2 DEF At
<1> HIDE DEF dt
<1>4. PICK t \in Int : t = (j - 2440588) * 86400 + h * 3600 + n * 60 + s
  OBVIOUS
<1>5. BreakTime(t) = dt /\ FromUtcTime(dt) = t
  BY <1>2, <1>4, DayAndTime DEF dt
<1>6. QED
  BY <1>3, <1>5

-----------------------------------------------------------------------------
(* gmtime_r(), which looks for the year and the month of a day, finds those *)
(* that breakTime() computes.                                               *)

LEMMA YearBegins ==
  ASSUME NEW y \in Int
  PROVE  /\ DaysTo(y) \in Int
         /\ GetJulianDayNumber(y, 1, 1) = 2440588 + DaysTo(y)
         /\ DaysTo(y + 1) = DaysTo(y) + 365 + LeapDay(y)
<1>1. \A z \in Int : MarchYears(z + 4799) = DaysTo(z) + 2472326
  <2> SUFFICES ASSUME NEW z \in Int
               PROVE  MarchYears(z + 4799) = DaysTo(z) + 2472326
    OBVIOUS
  <2>1. /\ (z + 4799) \div 4 = (z - 1969) \div 4 + 1692
        /\ (z + 4799) \div 100 = (z - 1901) \div 100 + 67
        /\ (z + 4799) \div 400 = (z - 1601) \div 400 + 16
    OBVIOUS
  <2>2. QED
    BY <2>1 DEF MarchYears, DaysTo
<1>2. GetJulianDayNumber(y, 1, 1) = MarchYears(y + 4799) + MarchMonths(1 + 9) + 1 - 32045
  BY DayNumberEarly
<1>3. MarchMonths(1 + 9) = 306
  BY DEF MarchMonths
<1>4. PICK z \in Int : z = y + 1
  OBVIOUS
<1>5. MarchYears(z + 4799) = MarchYears(y + 4799) + 365 + LeapDay(y)
  <2>1. z + 4799 = y + 4800
    BY <1>4
  <2>2. QED
    BY <2>1, NextMarchYear
<1>6. DaysTo(y) \in Int /\ DaysTo(z) \in Int /\ LeapDay(y) \in Int
  BY DEF DaysTo, LeapDay
<1>7. MarchYears(y + 4799) = DaysTo(y) + 2472326 /\ MarchYears(z + 4799) = DaysTo(z) + 2472326
  BY <1>1
<1>8. DaysTo(z) = DaysTo(y) + 365 + LeapDay(y)
  BY <1>5, <1>6, <1>7
<1>9. QED
  BY <1>2, <1>3, <1>4, <1>6, <1>7, <1>8

(* A year has 365 or 366 days: where gmtime_r() has to look.                *)
LEMMA YearNear ==
  ASSUME NEW y \in Int, NEW days \in Int, DaysTo(y) <= days, days < DaysTo(y + 1),
         NEW least, least = 1970 + days \div 365, NEW most, most = 1970 + days \div 366
  PROVE  y \in (least .. most) \cup (most .. least)
<1>1. PICK k \in Int : k = y - 1970
  OBVIOUS
<1>2. PICK a4 \in Int, a100 \in Int, a400 \in Int :
        a4 = (y - 1969) \div 4 /\ a100 = (y - 1901) \div 100 /\ a400 = (y - 1601) \div 400
  OBVIOUS
<1>3. /\ 4 * a4 <= k + 1 /\ k + 1 <= 4 * a4 + 3
      /\ 100 * a100 <= k + 69 /\ k + 69 <= 100 * a100 + 99
      /\ 400 * a400 <= k + 369 /\ k + 369 <= 400 * a400 + 399
  BY <1>1, <1>2
<1>4. DaysTo(y) = 365 * k + a4 - a100 + a400
  BY <1>1, <1>2 DEF DaysTo
<1>5. PICK f \in {0, 1} : DaysTo(y + 1) = 365 * k + a4 - a100 + a400 + 365 + f
  BY <1>4, YearBegins DEF LeapDay
<1>6. PICK p \in Int, q \in Int : p = days \div 365 /\ q = days \div 366
  OBVIOUS
<1>7. /\ 365 * p <= days /\ days <= 365 * p + 364
      /\ 366 * q <= days /\ days <= 366 * q + 365
  BY <1>6
<1>8. 365 * k + a4 - a100 + a400 <= days /\ days <= 365 * k + a4 - a100 + a400 + 364 + f
  BY <1>4, <1>5
<1>9. CASE k >= 0
  <2>1. 0 <= a4 - a100 + a400
    BY <1>3, <1>9
  <2>2. k <= p
    BY <1>7, <1>8, <2>1
  <2>3. a4 - a100 + a400 + f <= k + 1
    BY <1>2, <1>3, <1>9
  <2>4. q <= k
    BY <1>7, <1>8, <2>3
  <2>5. QED
    BY <1>1, <1>6, <2>2, <2>4
<1>10. CASE k < 0
  <2>1. k <= a4 - a100 + a400
    BY <1>3, <1>10
  <2>2. k <= q
    BY <1>7, <1>8, <2>1
  <2>3. PICK b4 \in Int, b100 \in Int, b400 \in Int :
          b4 = (y - 1968) \div 4 /\ b100 = (y - 1900) \div 100 /\ b400 = (y - 1600) \div 400
    OBVIOUS
  <2>4. PICK z \in Int : z = y + 1
    OBVIOUS
  <2>5. z - 1969 = y - 1968 /\ z - 1901 = y - 1900 /\ z - 1601 = y - 1600 /\ z - 1970 = k + 1
    BY <1>1, <2>4
  <2>6. DaysTo(z) = 365 * (k + 1) + b4 - b100 + b400
    BY <2>3, <2>5 DEF DaysTo
  <2>7. b4 - b100 + b400 <= 0
    BY <1>1, <1>10, <2>3
  <2>8. days < DaysTo(z)
    BY <2>4
  <2>9. p <= k
    BY <1>7, <2>6, <2>7, <2>8
  <2>10. QED
    BY <1>1, <1>6, <2>2, <2>9
<1>11. QED
  BY <1>9, <1>10

(* The month in which the day of a year is.                                 *)
LEMMA MonthOfDay ==
  ASSUME NEW y \in Int, NEW n \in Nat, n < 365 + LeapDay(y)
  PROVE  \E m \in 1 .. 12 : DaysBefore(y)[m] <= n /\ n < DaysBefore(y)[m + 1]
<1>1. PICK k \in {0, 1} : k = LeapDay(y)
  BY DEF LeapDay
<1>2. PICK f : f = DaysBefore(y)
  OBVIOUS
<1>3. /\ f[1] = 0 /\ f[2] = 31 /\ f[3] = 59 + k /\ f[4] = 90 + k
      /\ f[5] = 120 + k /\ f[6] = 151 + k /\ f[7] = 181 + k
      /\ f[8] = 212 + k /\ f[9] = 243 + k /\ f[10] = 273 + k
      /\ f[11] = 304 + k /\ f[12] = 334 + k /\ f[13] = 365 + k
  BY <1>1, <1>2, DaysBeforeTable
<1> DEFINE In(m) == f[m] <= n /\ n < f[m + 1]
<1>4. CASE n < 151
  <2>1. In(1) \/ In(2) \/ In(3) \/ In(4) \/ In(5)
    BY <1>3, <1>4
  <2>2. QED
    BY <1>2, <2>1
<1>5. CASE 151 <= n /\ n < 274
  <2>1. In(5) \/ In(6) \/ In(7) \/ In(8) \/ In(9) \/ In(10)
    BY <1>3, <1>5
  <2>2. QED
    BY <1>2, <2>1
<1>6. CASE 274 <= n
  <2>1. In(9) \/ In(10) \/ In(11) \/ In(12)
    BY <1>1, <1>3, <1>6
  <2>2. QED
    BY <1>2, <2>1
<1>7. QED
  BY <1>4, <1>5, <1>6

LEMMA MonthLengthIs ==
  ASSUME NEW y \in Int, NEW m \in 1 .. 12
  PROVE  DaysBefore(y)[m + 1] = DaysBefore(y)[m] + MonthLengths(y)[m] /\ DaysBefore(y)[m] \in Int
<1>1. PICK f : f = DaysBefore(y)
  OBVIOUS
<1>2. CountsDays(f, y)
  BY <1>1, DaysBeforeIs
<1>3. PICK n \in 2 .. 13 : n = m + 1
  OBVIOUS
<1>4. f[n] = f[n - 1] + MonthLengths(y)[n - 1] /\ n - 1 = m
  BY <1>2, <1>3 DEF CountsDays
<1>5. PICK k \in {0, 1} : k = LeapDay(y)
  BY DEF LeapDay
<1>6. m \in {1, 2, 3, 4, 5, 6} \/ m \in {7, 8, 9, 10, 11, 12}
  OBVIOUS
<1>7. DaysBefore(y)[m] \in Int
  BY <1>5, <1>6, DaysBeforeTable
<1>8. QED
  BY <1>1, <1>3, <1>4, <1>7

(* The year in which a day is. *)
LEMMA YearOfDay ==
  ASSUME NEW days \in Int, days + 2440588 + 32044 >= 0
  PROVE  \E y \in Int : DaysTo(y) <= days /\ days < DaysTo(y + 1)
<1>1. PICK j \in Int : j = days + 2440588
  OBVIOUS
<1>2. PICK date : date = GetYearMonthDay(j)
  OBVIOUS
<1>3. /\ date.year \in Int /\ date.month \in 1 .. 12 /\ date.day \in 1 .. 31
      /\ GetJulianDayNumber(date.year, date.month, date.day) = j
  BY <1>1, <1>2, DateInverts
<1>4. PICK y \in Int, m \in 1 .. 12, d \in 1 .. 31 : GetJulianDayNumber(y, m, d) = j
  BY <1>3
<1>5. GetJulianDayNumber(y, m, d) = GetJulianDayNumber(y, 1, 1) + DaysBefore(y)[m] + d - 1
  BY DayOfYear
<1>6. GetJulianDayNumber(y, 1, 1) = 2440588 + DaysTo(y) /\ DaysTo(y) \in Int
  BY YearBegins
<1>7. PICK k \in {0, 1} : k = LeapDay(y)
  BY DEF LeapDay
<1>8. PICK b \in Int : b = DaysBefore(y)[m]
  BY MonthLengthIs
<1>9. 0 <= b /\ b <= 334 + k
  <2>1. m \in {1, 2, 3, 4, 5, 6} \/ m \in {7, 8, 9, 10, 11, 12}
    OBVIOUS
  <2>2. QED
    BY <1>7, <1>8, <2>1, DaysBeforeTable
<1>10. DaysTo(y + 1) = DaysTo(y) + 365 + k
  BY <1>7, YearBegins
<1>11. days = DaysTo(y) + b + d - 1
  BY <1>1, <1>4, <1>5, <1>6, <1>8
<1>12. QED
  BY <1>6, <1>7, <1>9, <1>10, <1>11

Modern(days) == days >= -1000000

LEMMA GmYearIs ==
  ASSUME NEW days \in Int, Modern(days)
  PROVE  GmYear(days) \in Int /\ GmYear(days) + 4799 >= 0 /\ Holds(GmYear(days), days)
<1>1. PICK y \in Int : Holds(y, days)
  <2>1. days + 2440588 + 32044 >= 0
    BY SMT DEF Modern
  <2>2. QED
    BY <2>1, YearOfDay, SMT DEF Holds
<1>2. PICK a \in Int, b \in Int : a = 1970 + days \div 365 /\ b = 1970 + days \div 366
  BY SMT
<1>3. y \in (a .. b) \cup (b .. a)
  BY <1>1, <1>2, YearNear, SMT DEF Holds
<1>4. GmYear(days) = CHOOSE z \in (a .. b) \cup (b .. a) : Holds(z, days)
  BY <1>2, SMT DEF GmYear
<1>5. GmYear(days) \in (a .. b) \cup (b .. a) /\ Holds(GmYear(days), days)
  BY <1>1, <1>3, <1>4, Zenon
<1>6. a + 4799 >= 0 /\ b + 4799 >= 0
  BY <1>2, SMT DEF Modern
<1>7. QED
  BY <1>2, <1>5, <1>6, SMT

LEMMA GmMonthIs ==
  ASSUME NEW y \in Int, NEW n \in Nat, n < 365 + LeapDay(y)
  PROVE  /\ GmMonth(y, n) \in 1 .. 12
         /\ DaysBefore(y)[GmMonth(y, n)] <= n /\ n < DaysBefore(y)[GmMonth(y, n) + 1]
<1>1. \E m \in 1 .. 12 : DaysBefore(y)[m] <= n /\ n < DaysBefore(y)[m + 1]
  BY MonthOfDay, Zenon
<1>2. QED
  BY <1>1, Zenon DEF GmMonth

LEMMA GmDateIs ==
  ASSUME NEW days \in Int, Modern(days)
  PROVE  GmDate(days) = GetYearMonthDay(days + JulianDayOf19700101)
<1>1. PICK y : y = GmYear(days)
  OBVIOUS
<1>2. y \in Int /\ y + 4799 >= 0 /\ DaysTo(y) <= days /\ days < DaysTo(y + 1)
  BY <1>1, GmYearIs, SMT DEF Holds
<1>3. PICK k \in {0, 1} : k = LeapDay(y)
  BY SMT DEF LeapDay
<1>4. DaysTo(y) \in Int /\ DaysTo(y + 1) = DaysTo(y) + 365 + k
      /\ GetJulianDayNumber(y, 1, 1) = 2440588 + DaysTo(y)
  BY <1>2, <1>3, YearBegins, SMT
<1>5. PICK n \in Nat : n = days - DaysTo(y) /\ n < 365 + k
  BY <1>2, <1>3, <1>4, SMT
<1>6. n < 365 + LeapDay(y)
  BY <1>3, <1>5, SMT
<1>7. PICK m \in 1 .. 12 : /\ m = GmMonth(y, n)
                           /\ DaysBefore(y)[m] <= n /\ n < DaysBefore(y)[m + 1]
  BY <1>2, <1>6, GmMonthIs, SMT
<1>8. PICK b \in Int : b = DaysBefore(y)[m]
  BY <1>2, MonthLengthIs, SMT
<1>9. PICK w \in Int : w = MonthLengths(y)[m]
  <2>1. m \in {1, 2, 3, 4, 5, 6} \/ m \in {7, 8, 9, 10, 11, 12}
    BY SMT
  <2>2. QED
    BY <1>2, <1>3, <2>1, LengthTable, SMT
<1>10. n < b + w
  BY <1>2, <1>7, <1>8, <1>9, MonthLengthIs, SMT
<1>11. PICK d \in Nat : d = n - b + 1 /\ 1 <= d /\ d <= MonthLengths(y)[m]
  BY <1>7, <1>8, <1>9, <1>10, SMT
<1>12. PICK r \in Nat : r = m /\ 1 <= r /\ r <= 12
  BY SMT
<1>13. GetJulianDayNumber(y, r, d) = days + 2440588
  <2>1. GetJulianDayNumber(y, r, d) = GetJulianDayNumber(y, 1, 1) + DaysBefore(y)[r] + d - 1
    BY <1>2, <1>12, DayOfYear, SMT
  <2>2. QED
    BY <1>4, <1>5, <1>8, <1>11, <1>12, <2>1, SMT
<1>14. GetYearMonthDay(days + 2440588) = [year |-> y, month |-> r, day |-> d]
  BY <1>2, <1>11, <1>12, <1>13, NumberInverts, SMT
<1>15. GmDate(days) = [year |-> y, month |-> m, day |-> n - b + 1]
  BY <1>1, <1>5, <1>7, <1>8, SMT DEF GmDate
<1>16. QED
  BY <1>11, <1>12, <1>14, <1>15, EpochDay, SMT

LEMMA HourOf ==
  ASSUME NEW h \in Nat, NEW r \in Nat, r < 3600
  PROVE  (h * 3600 + r) \div 3600 = h
BY SMT

LEMMA GmClockIs ==
  ASSUME NEW h \in Nat, NEW m \in Nat, m <= 59, NEW s \in Nat, s <= 59,
         NEW c, c = h * 3600 + m * 60 + s
  PROVE  GmClock(c) = [hour |-> h, minute |-> m, second |-> s]
<1>1. PICK v \in Nat : v = h * 60 + m
  BY SMT
<1>2. c = v * 60 + s
  BY <1>1, SMT
<1>3. c \div 60 = v /\ c % 60 = s
  BY <1>2, SMT
<1>4. v % 60 = m
  BY <1>1, SMT
<1>5. PICK r \in Nat : r = m * 60 + s /\ r < 3600
  BY SMT
<1>6. c = h * 3600 + r
  BY <1>5, SMT
<1>7. c \div 3600 = h
  BY <1>5, <1>6, HourOf, SMT
<1>8. QED
  BY <1>3, <1>4, <1>7, SMT DEF GmClock

LEMMA GmTimeIs ==
  ASSUME NEW j \in Int, NEW days \in Int, Modern(days), j = days + JulianDayOf19700101,
         NEW h \in Nat, h <= 23, NEW m \in Nat, m <= 59, NEW s \in Nat, s <= 59,
         NEW c \in Nat, c = h * 3600 + m * 60 + s,
         NEW t \in Int, t = days * SecondsPerDay + c
  PROVE  GmTime(t) = At(GetYearMonthDay(j), [hour |-> h, minute |-> m, second |-> s])
<1>1. SecondsPerDay = 86400 /\ c < 86400
  BY SMT DEF SecondsPerDay
<1>2. t \div SecondsPerDay = days /\ t % SecondsPerDay = c
  BY <1>1, SMT
<1>3. GmTime(t) = At(GmDate(days), GmClock(c))
  BY <1>2, SMT DEF GmTime
<1>4. GmDate(days) = GetYearMonthDay(j)
  BY GmDateIs, SMT
<1>5. GmClock(c) = [hour |-> h, minute |-> m, second |-> s]
  BY GmClockIs, SMT
<1>6. QED
  BY <1>3, <1>4, <1>5, SMT

(* breakTime() is gmtime_r() from the year -767 on: the two reckon the same *)
(* date and time of day for an instant, before 1970 too.                    *)
THEOREM BreakTimeIsGmTime ==
  ASSUME NEW t \in Int, t \div 86400 >= -1000000
  PROVE  BreakTime(t) = GmTime(t)
<1>1. PICK days \in Int : days = t \div 86400
  BY SMT
<1>2. PICK c \in Nat : c = t % 86400 /\ c < 86400
  BY SMT
<1>3. t = days * 86400 + c
  BY <1>1, <1>2, SMT
<1>4. PICK h, m, s \in Nat : SecondIs(c, h, m, s)
  BY <1>2, HMSOf, SMT
<1>5. h <= 23 /\ m <= 59 /\ s <= 59 /\ c = h * 3600 + m * 60 + s
  BY <1>4, SMT DEF SecondIs
<1>6. PICK j \in Int : j = days + 2440588 /\ j = days + JulianDayOf19700101
  BY EpochDay, SMT
<1>7. Modern(days)
  BY <1>1, SMT DEF Modern
<1>8. t = days * SecondsPerDay + c
  BY <1>3, SMT DEF SecondsPerDay
<1>9. GmTime(t) = At(GetYearMonthDay(j), [hour |-> h, minute |-> m, second |-> s])
  BY <1>5, <1>6, <1>7, <1>8, GmTimeIs, SMT
<1>10. FillHMS(c) = [hour |-> h, minute |-> m, second |-> s]
  BY <1>5, FillHMSIs, SMT
<1>11. BreakTime(t) = At(GetYearMonthDay(days + 2440588), FillHMS(c))
  BY <1>2, <1>3, BreakTimeIs, SMT
<1>12. QED
  BY <1>6, <1>9, <1>10, <1>11, SMT

(* A time stamp of an instant from 1970 on has its seconds and microseconds.*)
LEMMA StampOf ==
  ASSUME NEW t \in Nat, NEW us \in Nat, us < 1000000
  PROVE  LET ts == FromUnixTime(t, us)
         IN  /\ Valid(ts) <=> t + us > 0
             /\ ToFormattedString(ts) = [dateTime |-> BreakTime(t), micro |-> us]
<1>1. PICK ts \in Nat : ts = t * 1000000 + us
  OBVIOUS
<1>2. FromUnixTime(t, us) = ts
  BY <1>1 DEF FromUnixTime, MicrosecondsPerSecond
<1>3. ts > 0 <=> t + us > 0
  BY <1>1
<1>4. ts \div 1000000 = t
  BY <1>1
<1>5. SecondsSinceEpoch(ts) = t
  BY <1>4 DEF SecondsSinceEpoch, Quotient, MicrosecondsPerSecond
<1>6. Microseconds(ts) = us
  BY <1>1, <1>5, SMT DEF Microseconds, MicrosecondsPerSecond
<1>7. QED
  <2>1. t \div 86400 >= -1000000
    BY SMT
  <2>2. BreakTime(t) = GmTime(t)
    BY <2>1, BreakTimeIsGmTime, SMT
  <2>3. QED
    BY <1>2, <1>3, <1>5, <1>6, <2>2, SMT DEF Valid, ToFormattedString

(* breakTime() and fromUtcTime() agree with gmtime_r() on every time of day  *)
(* of the walk, and a time stamp prints as breakTime() has the instant it   *)
(* was made from.                                                           *)
THEOREM TimesOfDayAgreeInvariance == Spec => []TimesOfDayAgree
<1>1. InputInv => TimesOfDayAgree
  <2> SUFFICES ASSUME InputInv PROVE TimesOfDayAgree
    OBVIOUS
  <2>1. ASSUME input.kind = "year", NEW day \in {0, 58, 59, 60, 364},
               NEW h \in {0, 7, 23}, NEW m \in {0, 59}, NEW s \in {0, 1, 59}
        PROVE  LET date == GetYearMonthDay(input.jan1 + day)
                   dt   == At(date, [hour |-> h, minute |-> m, second |-> s])
                   t    == (input.jan1 + day - 2440588) * 86400 + h * 3600 + m * 60 + s
               IN  BreakTime(t) = dt /\ GmTime(t) = dt /\ FromUtcTime(dt) = t
    <3>1. YearInput
      BY <2>1 DEF InputInv, InstantInput, NumberInput
    <3>2. PICK y \in Nat, jan1 \in Int :
                 /\ y >= 1900
                 /\ jan1 = GetJulianDayNumber(y, 1, 1)
                 /\ input = [kind |-> "year", year |-> y, jan1 |-> jan1, weekDay |-> WeekDay(jan1)]
      BY <3>1 DEF YearInput
    <3>3. jan1 + 32044 >= 0
      <4>1. y + 4799 >= 0
        BY <3>2
      <4>2. 1 <= MonthLengths(y)[1]
        BY LengthTable
      <4>3. QED
        BY <3>2, <4>1, <4>2, NumberInverts
    <3>4. PICK j \in Int : j = jan1 + day
      BY <2>1
    <3>5. j + 32044 >= 0
      BY <2>1, <3>3, <3>4
    <3>6. /\ h \in Nat /\ h <= 23 /\ m \in Nat /\ m <= 59 /\ s \in Nat /\ s <= 59
      BY <2>1
    <3>7. PICK t \in Int : t = (j - 2440588) * 86400 + h * 3600 + m * 60 + s
      BY <3>6
    <3> DEFINE dt == At(GetYearMonthDay(j), [hour |-> h, minute |-> m, second |-> s])
    <3>8. BreakTime(t) = dt /\ GmTime(t) = dt /\ FromUtcTime(dt) = t
      <4>1. BreakTime(t) = dt /\ FromUtcTime(dt) = t
        BY <3>5, <3>6, <3>7, DayAndTime, SMT
      <4>2. jan1 = 2440588 + DaysTo(y) /\ DaysTo(y) \in Int
        BY <3>2, YearBegins, SMT
      <4>3. DaysTo(y) >= -900000
        BY <3>2, SMT DEF DaysTo
      <4>4. t \div 86400 >= -1000000
        <5>1. j - 2440588 >= -900000
          BY <2>1, <3>4, <4>2, <4>3, SMT
        <5>2. t >= (-900000) * 86400
          BY <3>6, <3>7, <5>1, SMT
        <5>3. QED
          BY <5>2, SMT
      <4>5. GmTime(t) = BreakTime(t)
        BY <4>4, BreakTimeIsGmTime, SMT
      <4>6. QED
        BY <4>1, <4>5
    <3>9. input.jan1 = jan1
      BY <3>2
    <3>10. /\ (input.jan1 + day - 2440588) * 86400 + h * 3600 + m * 60 + s = t
           /\ At(GetYearMonthDay(input.jan1 + day), [hour |-> h, minute |-> m, second |-> s]) = dt
      BY <3>4, <3>7, <3>9, SMT
    <3> HIDE DEF dt
    <3>11. QED
      BY <3>8, <3>10, SMT
  <2>2. ASSUME input.kind = "instant", 0 <= input.utc, NEW us \in Nat, us < 1000000
        PROVE  LET ts == FromUnixTime(input.utc, us)
               IN  /\ Valid(ts) <=> input.utc + us > 0
                   /\ ToFormattedString(ts) = [dateTime |-> BreakTime(input.utc), micro |-> us]
    <3>1. InstantInput
      BY <2>2 DEF InputInv, YearInput, NumberInput
    <3>2. input.utc \in Int
      BY <3>1 DEF InstantInput
    <3>3. input.utc \in Nat
      BY <2>2, <3>2
    <3>4. QED
      BY <2>2, <3>3, StampOf
  <2>3. QED
    BY <2>1, <2>2, SMT DEF TimesOfDayAgree
<1>2. QED
  BY <1>1, InputInvariance, PTL

-----------------------------------------------------------------------------
(* Time zones.  Segment i of a zone is the time from its transition i on,   *)
(* segment 0 that before the first one.                                     *)

UtcAt(z, i)   == z.transitions[i].utcTime
LocalAt(z, i) == z.transitions[i].localTime
OffsetOf(z, i) == IF i = 0 THEN z.localTimes[1].utcOffset ELSE LocalTimeAt(z, i).utcOffset

(* The last second before the transition i, as clocks show it.              *)
SecondBefore(z, i) == UtcAt(z, i) - 1 + OffsetOf(z, i - 1)

InSegment(z, i, u) ==
  /\ i > 0 => UtcAt(z, i) <= u
  /\ i < Len(z.transitions) => u < UtcAt(z, i + 1)

(* In segment i clocks show the local time. *)
Shows(z, i, local) ==
  /\ i > 0 => LocalAt(z, i) <= local
  /\ i < Len(z.transitions) => local <= SecondBefore(z, i + 1)

(* A table of transitions as AddLocalTime() and AddTransition() make it, in *)
(* the order of their instants.                                             *)
IsZone(z) ==
  /\ DOMAIN z.transitions = 1 .. Len(z.transitions) /\ Len(z.transitions) \in Nat
  /\ DOMAIN z.localTimes = 1 .. Len(z.localTimes) /\ Len(z.localTimes) \in Nat \ {0}
  /\ Head(z.localTimes) = z.localTimes[1]
  /\ \A i \in 1 .. Len(z.localTimes) : z.localTimes[i].utcOffset \in Int
  /\ \A i \in 1 .. Len(z.transitions) :
       /\ z.transitions[i].idx \in 1 .. Len(z.localTimes)
       /\ UtcAt(z, i) \in Int
       /\ LocalAt(z, i) = UtcAt(z, i) + OffsetOf(z, i)
  /\ \A i, j \in 1 .. Len(z.transitions) : i < j => UtcAt(z, i) < UtcAt(z, j)

(* The offsets differ by less than the transitions are apart: the local     *)
(* times at which clocks change are in order too.                           *)
IsSpaced(z) ==
  \A i, j \in 1 .. Len(z.transitions) : i < j =>
    /\ LocalAt(z, i) < LocalAt(z, j)
    /\ SecondBefore(z, i) < SecondBefore(z, j)
    /\ SecondBefore(z, i) < LocalAt(z, j)

(* The search of std::upper_bound() as its callers use it: the position     *)
(* before the one it returns.                                               *)
LastUpTo(values, value, k) ==
  /\ k \in Nat /\ k <= Len(values)
  /\ UpperBound(values, value) = k + 1
  /\ \A j \in 1 .. Len(values) : j <= k => values[j] <= value
  /\ k < Len(values) => value < values[k + 1]

LEMMA UpperBoundIs ==
  ASSUME NEW n \in Nat, NEW values, Len(values) = n,
         \A j \in 1 .. n : values[j] \in Int, NEW value \in Int
  PROVE  \E k \in Nat : LastUpTo(values, value, k)
<1> DEFINE Bound(i) == /\ i <= n => values[i] > value
                       /\ \A j \in 1 .. i - 1 : values[j] <= value
           T == {i \in 1 .. n + 1 : i <= n => values[i] > value}
<1>1. T \subseteq Nat /\ n + 1 \in T
  OBVIOUS
<1>2. PICK i \in T : \A j \in T : i <= j
  <2> HIDE DEF T
  <2>1. T # {}
    BY <1>1
  <2>2. QED
    BY <1>1, <2>1, SetMin
<1>3. i \in 1 .. n + 1 /\ Bound(i)
  <2>1. i \in 1 .. n + 1 /\ (i <= n => values[i] > value)
    OBVIOUS
  <2>2. ASSUME NEW j \in 1 .. i - 1
        PROVE  values[j] <= value
    <3>1. j \in 1 .. n /\ j < i /\ j \in Int /\ i \in Int
      BY <2>1
    <3>2. j \notin T
      BY <1>2, <3>1
    <3>3. ~ (values[j] > value)
      BY <3>1, <3>2
    <3>4. QED
      BY <3>1, <3>3
  <2>3. QED
    BY <2>1, <2>2
<1>4. ASSUME NEW j \in 1 .. n + 1, Bound(j)
      PROVE  j = i
  <2>1. ~ (j < i)
    <3>1. SUFFICES ASSUME j < i PROVE FALSE
      OBVIOUS
    <3>2. j \in T
      BY <1>4
    <3>3. QED
      BY <1>2, <3>1, <3>2
  <2>2. ~ (i < j)
    BY <1>3, <1>4
  <2>3. QED
    BY <1>3, <2>1, <2>2
<1>5. UpperBound(values, value) = CHOOSE j \in 1 .. n + 1 : Bound(j)
  BY DEF UpperBound
<1>6. UpperBound(values, value) = i
  <2> HIDE DEF Bound, T
  <2>1. QED
    BY <1>3, <1>4, <1>5
<1>7. PICK k \in Nat : k = i - 1
  BY <1>3
<1>8. LastUpTo(values, value, k)
  BY <1>3, <1>6, <1>7 DEF LastUpTo
<1>9. QED
  BY <1>8

LEMMA ZoneType ==
  ASSUME NEW z, IsZone(z), NEW n \in Nat, n = Len(z.transitions)
  PROVE  /\ \A i \in 0 .. n : OffsetOf(z, i) \in Int
         /\ \A i \in 1 .. n : UtcAt(z, i) \in Int /\ LocalAt(z, i) \in Int
                              /\ SecondBefore(z, i) \in Int
         /\ \A i \in 1 .. n : LocalTimeAt(z, i).utcOffset = OffsetOf(z, i)
         /\ Len(UtcTimes(z)) = n /\ \A i \in 1 .. n : UtcTimes(z)[i] = UtcAt(z, i)
         /\ Len(LocalTimes(z)) = n /\ \A i \in 1 .. n : LocalTimes(z)[i] = LocalAt(z, i)
<1>1. ASSUME NEW i \in 0 .. n
      PROVE  OffsetOf(z, i) \in Int
  <2>1. CASE i = 0
    BY <2>1 DEF OffsetOf, IsZone
  <2>2. CASE i # 0
    BY <2>2 DEF OffsetOf, IsZone, LocalTimeAt
  <2>3. QED
    BY <2>1, <2>2
<1>2. \A i \in 1 .. n : UtcAt(z, i) \in Int
  BY DEF IsZone
<1>3. ASSUME NEW i \in 1 .. n
      PROVE  LocalAt(z, i) \in Int /\ SecondBefore(z, i) \in Int
  <2>1. i \in 0 .. n /\ i - 1 \in 0 .. n
    OBVIOUS
  <2>2. OffsetOf(z, i) \in Int /\ OffsetOf(z, i - 1) \in Int
    BY <1>1, <2>1
  <2>3. LocalAt(z, i) = UtcAt(z, i) + OffsetOf(z, i)
    BY DEF IsZone
  <2>4. QED
    BY <1>2, <2>2, <2>3 DEF SecondBefore
<1>4. \A i \in 1 .. n : LocalTimeAt(z, i).utcOffset = OffsetOf(z, i)
  BY DEF OffsetOf
<1>5. UtcTimes(z) = [i \in 1 .. n |-> UtcAt(z, i)] /\ LocalTimes(z) = [i \in 1 .. n |-> LocalAt(z, i)]
  BY DEF UtcTimes, LocalTimes, UtcAt, LocalAt, IsZone
<1>6. Len(UtcTimes(z)) = n /\ Len(LocalTimes(z)) = n
  BY <1>5
<1>7. QED
  BY <1>1, <1>2, <1>3, <1>4, <1>5, <1>6

LEMMA SegmentExists ==
  ASSUME NEW z, IsZone(z), NEW n \in Nat, n = Len(z.transitions), NEW u \in Int
  PROVE  \E i \in Nat : i <= n /\ InSegment(z, i, u)
<1>1. \A j \in 1 .. n : UtcTimes(z)[j] \in Int
  BY ZoneType, ZenonT(30)
<1>2. Len(UtcTimes(z)) = n
  BY ZoneType
<1>3. PICK k \in Nat : LastUpTo(UtcTimes(z), u, k)
  BY <1>1, <1>2, UpperBoundIs
<1>4. k <= n
  BY <1>2, <1>3 DEF LastUpTo
<1>5. k > 0 => UtcAt(z, k) <= u
  <2>1. SUFFICES ASSUME k > 0 PROVE UtcAt(z, k) <= u
    OBVIOUS
  <2>2. k \in 1 .. n
    BY <1>4, <2>1
  <2>3. UtcTimes(z)[k] <= u
    BY <1>2, <1>3, <2>2 DEF LastUpTo
  <2>4. QED
    BY <2>2, <2>3, ZoneType
<1>6. k < n => u < UtcAt(z, k + 1)
  <2>1. SUFFICES ASSUME k < n PROVE u < UtcAt(z, k + 1)
    OBVIOUS
  <2>2. PICK m \in 1 .. n : m = k + 1
    BY <2>1
  <2>3. u < UtcTimes(z)[m]
    BY <1>2, <1>3, <2>1, <2>2 DEF LastUpTo
  <2>4. QED
    BY <2>2, <2>3, ZoneType
<1>7. QED
  BY <1>4, <1>5, <1>6 DEF InSegment

(* What a segment knows of the other transitions. *)
LEMMA SegmentOrder ==
  ASSUME NEW z, IsZone(z), NEW n \in Nat, n = Len(z.transitions),
         NEW u \in Int, NEW i \in Nat, i <= n, InSegment(z, i, u), NEW j \in 1 .. n
  PROVE  UtcAt(z, j) <= u <=> j <= i
<1>1. UtcAt(z, j) \in Int
  BY ZoneType
<1>2. ASSUME j <= i PROVE UtcAt(z, j) <= u
  <2>1. i \in 1 .. n /\ UtcAt(z, i) <= u /\ UtcAt(z, i) \in Int
    <3>1. i \in 1 .. n
      BY <1>2
    <3>2. QED
      BY <3>1, ZoneType DEF InSegment
  <2>2. CASE j = i
    BY <2>1, <2>2
  <2>3. CASE j < i
    <3>1. UtcAt(z, j) < UtcAt(z, i)
      BY <2>1, <2>3 DEF IsZone
    <3>2. QED
      BY <1>1, <2>1, <3>1
  <2>4. QED
    BY <1>2, <2>2, <2>3
<1>3. ASSUME ~ (j <= i) PROVE ~ (UtcAt(z, j) <= u)
  <2>1. PICK m \in 1 .. n : m = i + 1
    BY <1>3
  <2>2. u < UtcAt(z, m) /\ UtcAt(z, m) \in Int
    <3>1. i < n
      BY <1>3
    <3>2. u < UtcAt(z, m)
      BY <2>1, <3>1 DEF InSegment
    <3>3. QED
      BY <3>2, ZoneType
  <2>3. CASE j = m
    BY <2>2, <2>3
  <2>4. CASE m < j
    <3>1. UtcAt(z, m) < UtcAt(z, j)
      BY <2>4 DEF IsZone
    <3>2. QED
      BY <1>1, <2>2, <3>1
  <2>5. QED
    BY <1>3, <2>1, <2>3, <2>4
<1>4. QED
  BY <1>2, <1>3

(* The reference and the code's search for an instant: the offset in force. *)
LEMMA OffsetAtIs ==
  ASSUME NEW z, IsZone(z), NEW n \in Nat, n = Len(z.transitions),
         NEW u \in Int, NEW i \in Nat, i <= n, InSegment(z, i, u)
  PROVE  OffsetAt(z, u) = OffsetOf(z, i)
<1> DEFINE past == {j \in DOMAIN z.transitions : z.transitions[j].utcTime <= u}
<1>1. past = 1 .. i
  <2>1. past = {j \in 1 .. n : UtcAt(z, j) <= u}
    BY DEF UtcAt, IsZone
  <2>2. \A j \in 1 .. n : UtcAt(z, j) <= u <=> j <= i
    BY SegmentOrder
  <2>3. \A j \in 1 .. i : j \in 1 .. n
    OBVIOUS
  <2> HIDE DEF past
  <2>4. QED
    BY <2>1, <2>2, <2>3
<1>2. OffsetAt(z, u) = IF past = {} THEN z.localTimes[1].utcOffset
                       ELSE LocalTimeAt(z, CHOOSE k \in past : \A j \in past : j <= k).utcOffset
  BY DEF OffsetAt
<1> HIDE DEF past
<1>3. CASE i = 0
  <2>1. past = {}
    BY <1>1, <1>3
  <2>2. QED
    BY <1>2, <1>3, <2>1 DEF OffsetOf
<1>4. CASE i > 0
  <2>1. i \in past /\ \A k \in past : (\A j \in past : j <= k) => k = i
    BY <1>1, <1>4
  <2>2. \A j \in past : j <= i
    BY <1>1
  <2>3. (CHOOSE k \in past : \A j \in past : j <= k) = i
    BY <2>1, <2>2
  <2>4. past # {}
    BY <2>1
  <2>5. OffsetAt(z, u) = LocalTimeAt(z, i).utcOffset
    BY <1>2, <2>3, <2>4
  <2>6. QED
    BY <1>4, <2>5 DEF OffsetOf
<1>5. QED
  BY <1>3, <1>4

LEMMA FindOfUtcIs ==
  ASSUME NEW z, IsZone(z), NEW n \in Nat, n = Len(z.transitions),
         NEW u \in Int, NEW i \in Nat, i <= n, InSegment(z, i, u)
  PROVE  FindLocalTimeOfUtc(z, u).utcOffset = OffsetOf(z, i)
<1>1. PICK values : values = UtcTimes(z)
  OBVIOUS
<1>2. Len(values) = n /\ \A j \in 1 .. n : values[j] = UtcAt(z, j) /\ UtcAt(z, j) \in Int
  BY <1>1, ZoneType
<1>3. PICK k \in Nat : LastUpTo(values, u, k)
  BY <1>2, UpperBoundIs
<1>4. k <= n /\ UpperBound(values, u) - 1 = k
  BY <1>2, <1>3 DEF LastUpTo
<1>5. \A j \in 1 .. n : values[j] <= u <=> j <= i
  BY <1>2, SegmentOrder
<1>6. k = i
  <2>1. ~ (k < i)
    <3>1. SUFFICES ASSUME k < i PROVE FALSE
      OBVIOUS
    <3>2. PICK m \in 1 .. n : m = k + 1
      BY <3>1
    <3>3. u < values[m] /\ values[m] <= u /\ values[m] \in Int
      BY <1>2, <1>3, <1>5, <3>1, <3>2 DEF LastUpTo
    <3>4. QED
      BY <3>3
  <2>2. ~ (i < k)
    <3>1. SUFFICES ASSUME i < k PROVE FALSE
      OBVIOUS
    <3>2. k \in 1 .. n
      BY <1>4, <3>1
    <3>3. values[k] <= u
      BY <1>2, <1>3, <3>2 DEF LastUpTo
    <3>4. QED
      BY <1>5, <3>1, <3>2, <3>3
  <2>3. QED
    BY <2>1, <2>2
<1>7. CASE n = 0 \/ u < values[1]
  <2>1. FindLocalTimeOfUtc(z, u) = Head(z.localTimes)
    BY <1>1, <1>7 DEF FindLocalTimeOfUtc
  <2>2. i = 0
    <3>1. SUFFICES ASSUME i # 0 PROVE FALSE
      OBVIOUS
    <3>2. 1 \in 1 .. n /\ 1 <= i
      BY <3>1
    <3>3. values[1] <= u /\ values[1] \in Int
      BY <1>2, <1>5, <3>2
    <3>4. QED
      BY <1>7, <3>2, <3>3
  <2>3. QED
    BY <2>1, <2>2 DEF OffsetOf, IsZone
<1>8. CASE ~ (n = 0 \/ u < values[1])
  <2>1. FindLocalTimeOfUtc(z, u) = LocalTimeAt(z, i)
    BY <1>1, <1>4, <1>6, <1>8 DEF FindLocalTimeOfUtc
  <2>2. i > 0
    <3>1. 1 \in 1 .. n
      BY <1>8
    <3>2. values[1] <= u
      BY <1>2, <1>8, <3>1
    <3>3. QED
      BY <1>5, <3>1, <3>2
  <2>3. QED
    BY <2>1, <2>2 DEF OffsetOf
<1>9. QED
  BY <1>7, <1>8

(* An instant and its segment, as clocks show it. *)
LEMMA ShowsInstant ==
  ASSUME NEW z, IsZone(z), NEW n \in Nat, n = Len(z.transitions),
         NEW local \in Int, NEW i \in Nat, i <= n
  PROVE  /\ OffsetOf(z, i) \in Int
         /\ InSegment(z, i, local - OffsetOf(z, i)) <=> Shows(z, i, local)
<1>1. PICK o \in Int : o = OffsetOf(z, i)
  BY ZoneType
<1>2. i > 0 => (UtcAt(z, i) <= local - o <=> LocalAt(z, i) <= local)
  <2>1. SUFFICES ASSUME i > 0
                 PROVE  UtcAt(z, i) <= local - o <=> LocalAt(z, i) <= local
    OBVIOUS
  <2>2. i \in 1 .. n
    BY <2>1
  <2>3. UtcAt(z, i) \in Int /\ LocalAt(z, i) = UtcAt(z, i) + o
    BY <1>1, <2>2 DEF IsZone
  <2>4. QED
    BY <2>3
<1>3. i < n => (local - o < UtcAt(z, i + 1) <=> local <= SecondBefore(z, i + 1))
  <2>1. SUFFICES ASSUME i < n
                 PROVE  local - o < UtcAt(z, i + 1) <=> local <= SecondBefore(z, i + 1)
    OBVIOUS
  <2>2. PICK m \in 1 .. n : m = i + 1
    BY <2>1
  <2>3. UtcAt(z, m) \in Int
    BY ZoneType
  <2>4. m - 1 = i
    BY <2>2
  <2>5. SecondBefore(z, m) = UtcAt(z, m) - 1 + o
    BY <1>1, <2>4 DEF SecondBefore
  <2>6. QED
    BY <2>2, <2>3, <2>5
<1>4. QED
  BY <1>1, <1>2, <1>3 DEF InSegment, Shows

(* The instants of a local time are those of the segments that show it.     *)
LEMMA InstantsAre ==
  ASSUME NEW z, IsZone(z), NEW n \in Nat, n = Len(z.transitions), NEW local \in Int, NEW v
  PROVE  v \in InstantsOf(z, local)
           <=> \E i \in Nat : i <= n /\ Shows(z, i, local) /\ v = local - OffsetOf(z, i)
<1> DEFINE offsets == {z.localTimes[i].utcOffset : i \in DOMAIN z.localTimes}
<1>1. v \in InstantsOf(z, local)
        <=> \E o \in offsets : v = local - o /\ v + OffsetAt(z, v) = local
  BY DEF InstantsOf
<1>2. offsets \subseteq Int
  BY DEF IsZone
<1>3. ASSUME NEW i \in Nat, i <= n
      PROVE  OffsetOf(z, i) \in offsets
  <2>1. CASE i = 0
    BY <2>1 DEF OffsetOf, IsZone
  <2>2. CASE i > 0
    <3>1. i \in 1 .. n
      BY <1>3, <2>2
    <3>2. z.transitions[i].idx \in DOMAIN z.localTimes
      BY <3>1 DEF IsZone
    <3>3. OffsetOf(z, i) = z.localTimes[z.transitions[i].idx].utcOffset
      BY <2>2 DEF OffsetOf, LocalTimeAt
    <3>4. QED
      BY <3>2, <3>3
  <2>3. QED
    BY <2>1, <2>2
<1> HIDE DEF offsets
<1>4. ASSUME NEW o \in offsets, v = local - o, v + OffsetAt(z, v) = local
      PROVE  \E i \in Nat : i <= n /\ Shows(z, i, local) /\ v = local - OffsetOf(z, i)
  <2>1. v \in Int
    BY <1>2, <1>4
  <2>2. PICK i \in Nat : i <= n /\ InSegment(z, i, v)
    BY <2>1, SegmentExists
  <2>3. OffsetAt(z, v) = OffsetOf(z, i)
    BY <2>1, <2>2, OffsetAtIs
  <2>4. OffsetOf(z, i) \in Int
    BY <2>2, ShowsInstant
  <2>5. v = local - OffsetOf(z, i)
    BY <1>4, <2>1, <2>3, <2>4
  <2>6. Shows(z, i, local)
    BY <2>2, <2>5, ShowsInstant
  <2>7. QED
    BY <2>2, <2>5, <2>6
<1>5. ASSUME NEW i \in Nat, i <= n, Shows(z, i, local), v = local - OffsetOf(z, i)
      PROVE  \E o \in offsets : v = local - o /\ v + OffsetAt(z, v) = local
  <2>1. OffsetOf(z, i) \in Int /\ InSegment(z, i, v)
    BY <1>5, ShowsInstant
  <2>2. v \in Int
    BY <1>5, <2>1
  <2>3. OffsetAt(z, v) = OffsetOf(z, i)
    BY <1>5, <2>1, <2>2, OffsetAtIs
  <2>4. v + OffsetAt(z, v) = local
    BY <1>5, <2>1, <2>2, <2>3
  <2>5. QED
    BY <1>3, <1>5, <2>4
<1>6. QED
  BY <1>1, <1>4, <1>5

(* findLocalTime() of a local time: k is the last transition that clocks    *)
(* have reached by then.                                                    *)
Reached(z, k, local) ==
  /\ k > 0 => LocalAt(z, k) <= local
  /\ k < Len(z.transitions) => local < LocalAt(z, k + 1)

IsSkip(z, k, local) ==
  /\ 0 < k /\ k < Len(z.transitions)
  /\ SecondBefore(z, k + 1) < local

IsRepeat(z, k, local) ==
  /\ 1 < k /\ k < Len(z.transitions)
  /\ local <= SecondBefore(z, k)

LEMMA LastReached ==
  ASSUME NEW z, IsZone(z), NEW local \in Int
  PROVE  \E k \in Nat : LastUpTo(LocalTimes(z), local, k)
<1>1. PICK n \in Nat : n = Len(z.transitions)
  BY DEF IsZone
<1>2. PICK values : values = LocalTimes(z)
  OBVIOUS
<1>3. Len(values) = n /\ \A j \in 1 .. n : values[j] \in Int
  BY <1>1, <1>2, ZoneType, SMTT(30)
<1>4. \E k \in Nat : LastUpTo(values, local, k)
  BY <1>3, UpperBoundIs
<1>5. QED
  BY <1>2, <1>4

LEMMA FindOfLocalIs ==
  ASSUME NEW z, IsZone(z), NEW n \in Nat, n = Len(z.transitions),
         NEW local \in Int, NEW post \in BOOLEAN,
         NEW k \in Nat, LastUpTo(LocalTimes(z), local, k)
  PROVE  /\ k <= n /\ Reached(z, k, local)
         /\ FindLocalTimeOfLocal(z, local, post).utcOffset
              = OffsetOf(z, IF IsSkip(z, k, local) THEN (IF post THEN k + 1 ELSE k)
                            ELSE IF IsRepeat(z, k, local) THEN (IF post THEN k ELSE k - 1)
                            ELSE k)
<1> DEFINE found == FindLocalTimeOfLocal(z, local, post)
<1>1. PICK values : values = LocalTimes(z)
  OBVIOUS
<1>2. Len(values) = n /\ \A j \in 1 .. n : values[j] = LocalAt(z, j) /\ LocalAt(z, j) \in Int
  BY <1>1, ZoneType
<1>3. LastUpTo(values, local, k)
  BY <1>1
<1>4. k <= n /\ UpperBound(values, local) = k + 1
  BY <1>2, <1>3 DEF LastUpTo
<1>5. Reached(z, k, local)
  <2>1. ASSUME k > 0 PROVE LocalAt(z, k) <= local
    <3>1. k \in 1 .. n
      BY <1>4, <2>1
    <3>2. values[k] <= local
      BY <1>2, <1>3, <3>1 DEF LastUpTo
    <3>3. QED
      BY <1>2, <3>1, <3>2
  <2>2. ASSUME k < n PROVE local < LocalAt(z, k + 1)
    <3>1. PICK m \in 1 .. n : m = k + 1
      BY <2>2
    <3>2. local < values[m]
      BY <1>2, <1>3, <2>2, <3>1 DEF LastUpTo
    <3>3. QED
      BY <1>2, <3>1, <3>2
  <2>3. QED
    BY <2>1, <2>2 DEF Reached
<1>6. \A j \in 1 .. n : LocalTimeAt(z, j).utcOffset = OffsetOf(z, j)
  BY ZoneType
<1>7. CASE n = 0 \/ local < values[1]
  <2>1. found = Head(z.localTimes)
    BY <1>1, <1>7 DEF FindLocalTimeOfLocal
  <2>2. k = 0
    <3>1. SUFFICES ASSUME k # 0 PROVE FALSE
      OBVIOUS
    <3>2. 1 \in 1 .. n /\ 1 <= k
      BY <1>4, <3>1
    <3>3. values[1] <= local /\ values[1] \in Int
      BY <1>2, <1>3, <3>2 DEF LastUpTo
    <3>4. QED
      BY <1>7, <3>2, <3>3
  <2>3. found.utcOffset = OffsetOf(z, k)
    BY <2>1, <2>2 DEF OffsetOf, IsZone
  <2>4. ~ IsSkip(z, k, local) /\ ~ IsRepeat(z, k, local)
    BY <2>2 DEF IsSkip, IsRepeat
  <2> HIDE DEF found
  <2>5. QED
    BY <1>4, <1>5, <2>3, <2>4 DEF found
<1>8. CASE ~ (n = 0 \/ local < values[1])
  <2>1. k \in 1 .. n
    <3>1. 1 \in 1 .. n /\ values[1] <= local
      BY <1>2, <1>8
    <3>2. SUFFICES ASSUME k = 0 PROVE FALSE
      BY <1>4
    <3>3. local < values[k + 1]
      BY <1>2, <1>3, <3>1, <3>2 DEF LastUpTo
    <3>4. QED
      BY <1>8, <3>1, <3>2, <3>3
  <2>2. (k + 1) - 1 = k /\ (k + 1) - 2 = k - 1
    BY <2>1
  <2>3. found = IF k + 1 > n THEN LocalTimeAt(z, n)
                ELSE IF PriorSecond(z, k + 1) < local
                  THEN LocalTimeAt(z, IF post THEN k + 1 ELSE k)
                ELSE IF k > 1 /\ local <= PriorSecond(z, k)
                  THEN LocalTimeAt(z, IF post THEN k ELSE k - 1)
                ELSE LocalTimeAt(z, k)
    <3>1. ~ (Len(z.transitions) = 0 \/ local < LocalTimes(z)[1])
      BY <1>1, <1>8
    <3>2. UpperBound(LocalTimes(z), local) = k + 1
      BY <1>1, <1>4
    <3>3. QED
      BY <2>2, <3>1, <3>2 DEF FindLocalTimeOfLocal
  <2>4. ASSUME NEW i \in 2 .. n
        PROVE  PriorSecond(z, i) = SecondBefore(z, i)
    <3>1. i - 1 \in 1 .. n
      OBVIOUS
    <3>2. LocalTimeAt(z, i - 1).utcOffset = OffsetOf(z, i - 1)
      BY <1>6, <3>1
    <3>3. QED
      BY <3>2 DEF PriorSecond, SecondBefore, UtcAt
  <2> HIDE DEF found
  <2>5. CASE k = n
    <3>1. found.utcOffset = OffsetOf(z, k)
      BY <1>6, <2>1, <2>3, <2>5
    <3>2. ~ IsSkip(z, k, local) /\ ~ IsRepeat(z, k, local)
      BY <2>5 DEF IsSkip, IsRepeat
    <3>3. QED
      BY <1>4, <1>5, <3>1, <3>2 DEF found
  <2>6. CASE k # n
    <3>1. k < n /\ k + 1 \in 2 .. n /\ k + 1 \in 1 .. n
      BY <1>4, <2>1, <2>6
    <3>2. PriorSecond(z, k + 1) = SecondBefore(z, k + 1)
      BY <2>4, <3>1
    <3>3. IsSkip(z, k, local) <=> PriorSecond(z, k + 1) < local
      BY <2>1, <3>1, <3>2 DEF IsSkip
    <3>4. IsRepeat(z, k, local) <=> k > 1 /\ local <= PriorSecond(z, k)
      <4>1. ASSUME k > 1 PROVE PriorSecond(z, k) = SecondBefore(z, k)
        <5>1. k \in 2 .. n
          BY <2>1, <4>1
        <5>2. QED
          BY <2>4, <5>1
      <4>2. QED
        BY <3>1, <4>1 DEF IsRepeat
    <3>5. found = LocalTimeAt(z, IF IsSkip(z, k, local) THEN (IF post THEN k + 1 ELSE k)
                                 ELSE IF IsRepeat(z, k, local) THEN (IF post THEN k ELSE k - 1)
                                 ELSE k)
      BY <2>3, <3>1, <3>3, <3>4
    <3>6. PICK i : i = IF IsSkip(z, k, local) THEN (IF post THEN k + 1 ELSE k)
                       ELSE IF IsRepeat(z, k, local) THEN (IF post THEN k ELSE k - 1)
                       ELSE k
      OBVIOUS
    <3>7. i \in 1 .. n
      BY <2>1, <3>1, <3>6 DEF IsRepeat
    <3>8. found.utcOffset = OffsetOf(z, i)
      BY <1>6, <3>5, <3>6, <3>7
    <3>9. QED
      BY <1>4, <1>5, <3>6, <3>8 DEF found
  <2>7. QED
    BY <2>5, <2>6
<1>9. QED
  BY <1>7, <1>8

(* If clocks show a local time in two segments, these follow one another.   *)
LEMMA Adjacent ==
  ASSUME NEW z, IsZone(z), IsSpaced(z), NEW n \in Nat, n = Len(z.transitions), NEW local \in Int,
         NEW a \in Nat, a <= n, Shows(z, a, local), NEW b \in Nat, b <= n, Shows(z, b, local), a < b
  PROVE  b = a + 1
<1>1. SUFFICES ASSUME a + 1 < b PROVE FALSE
  OBVIOUS
<1>2. PICK m \in 1 .. n : m = a + 1
  BY <1>1
<1>3. b \in 1 .. n /\ m < b
  BY <1>1, <1>2
<1>4. local <= SecondBefore(z, m) /\ LocalAt(z, b) <= local
  BY <1>2, <1>3 DEF Shows
<1>5. SecondBefore(z, m) < LocalAt(z, b)
  BY <1>3 DEF IsSpaced
<1>6. SecondBefore(z, m) \in Int /\ LocalAt(z, b) \in Int
  BY <1>3, ZoneType
<1>7. QED
  BY <1>4, <1>5, <1>6

(* A segment that shows a local time is the last one reached by then or the *)
(* one before it, and the time is not skipped.                              *)
LEMMA ShownReached ==
  ASSUME NEW z, IsZone(z), IsSpaced(z), NEW n \in Nat, n = Len(z.transitions), NEW local \in Int,
         NEW a \in Nat, a <= n, Shows(z, a, local), NEW k \in Nat, k <= n, Reached(z, k, local)
  PROVE  (k = a \/ k = a + 1) /\ Shows(z, k, local)
<1>1. ~ (k < a)
  <2>1. SUFFICES ASSUME k < a PROVE FALSE
    OBVIOUS
  <2>2. PICK m \in 1 .. n : m = k + 1
    BY <2>1
  <2>3. a \in 1 .. n
    BY <2>1
  <2>4. local < LocalAt(z, m) /\ LocalAt(z, a) <= local
    BY <2>1, <2>2, <2>3 DEF Reached, Shows
  <2>5. LocalAt(z, m) \in Int /\ LocalAt(z, a) \in Int
    BY <2>3, ZoneType
  <2>6. m < a => LocalAt(z, m) < LocalAt(z, a)
    BY <2>3 DEF IsSpaced
  <2>7. QED
    BY <2>1, <2>2, <2>3, <2>4, <2>5, <2>6
<1>2. k = a => Shows(z, k, local)
  OBVIOUS
<1>3. ASSUME a < k
      PROVE  k = a + 1 /\ Shows(z, k, local)
  <2>1. PICK m \in 1 .. n : m = a + 1
    BY <1>3
  <2>2. k \in 1 .. n
    BY <1>3
  <2>3. local <= SecondBefore(z, m) /\ LocalAt(z, k) <= local
    BY <1>3, <2>1, <2>2 DEF Shows, Reached
  <2>4. SecondBefore(z, m) \in Int /\ LocalAt(z, k) \in Int
    BY <2>2, ZoneType
  <2>5. k = m
    <3>1. m < k => SecondBefore(z, m) < LocalAt(z, k)
      BY <2>2 DEF IsSpaced
    <3>2. QED
      BY <1>3, <2>1, <2>2, <2>3, <2>4, <3>1
  <2>6. k < n => local <= SecondBefore(z, k + 1)
    <3>1. SUFFICES ASSUME k < n PROVE local <= SecondBefore(z, k + 1)
      OBVIOUS
    <3>2. PICK p \in 1 .. n : p = k + 1
      BY <3>1
    <3>3. SecondBefore(z, m) < SecondBefore(z, p)
      BY <2>5, <3>2 DEF IsSpaced
    <3>4. SecondBefore(z, p) \in Int
      BY ZoneType
    <3>5. QED
      BY <2>3, <2>4, <3>2, <3>3, <3>4
  <2>7. Shows(z, k, local)
    BY <2>3, <2>6 DEF Shows
  <2>8. QED
    BY <2>1, <2>5, <2>7
<1>4. QED
  BY <1>1, <1>2, <1>3

(* The two answers of a repeated local time are the two segments that show  *)
(* it.                                                                      *)
LEMMA RepeatShows ==
  ASSUME NEW z, IsZone(z), IsSpaced(z), NEW n \in Nat, n = Len(z.transitions), NEW local \in Int,
         NEW k \in Nat, k <= n, Reached(z, k, local), IsRepeat(z, k, local)
  PROVE  k - 1 \in Nat /\ Shows(z, k - 1, local)
<1>1. PICK m \in 1 .. n : m = k - 1
  BY DEF IsRepeat
<1>2. k \in 1 .. n /\ m < k /\ m + 1 = k
  BY <1>1
<1>3. LocalAt(z, m) < LocalAt(z, k)
  BY <1>2 DEF IsSpaced
<1>4. LocalAt(z, k) <= local
  BY <1>2 DEF Reached
<1>5. LocalAt(z, m) \in Int /\ LocalAt(z, k) \in Int
  BY <1>2, ZoneType
<1>6. LocalAt(z, m) <= local /\ local <= SecondBefore(z, m + 1)
  BY <1>2, <1>3, <1>4, <1>5 DEF IsRepeat
<1>7. QED
  BY <1>1, <1>6 DEF Shows

LEMMA FromLocalIs ==
  ASSUME NEW z, NEW local \in Int, HasDate(local), NEW post \in BOOLEAN
  PROVE  FromLocalTime(z, BreakTime(local), post)
           = local - FindLocalTimeOfLocal(z, local, post).utcOffset
<1>1. FromUtcTime(BreakTime(local)) = local
  BY BreakTimeInverts
<1>2. QED
  BY <1>1 DEF FromLocalTime

(* In a zone whose offsets differ by less than its transitions are apart,   *)
(* toLocalTime() uses the offset in force, and fromLocalTime() takes the    *)
(* local time of an instant to an instant at which clocks show it.          *)
THEOREM LocalTimeInverts ==
  ASSUME NEW z, IsZone(z), IsSpaced(z), NEW u \in Int, NEW local, local = u + OffsetAt(z, u),
         HasDate(local)
  PROVE  /\ ToLocalTime(z, u) = [dateTime |-> BreakTime(local), utcOffset |-> OffsetAt(z, u)]
         /\ \A post \in BOOLEAN :
              FromLocalTime(z, BreakTime(local), post) \in InstantsOf(z, local)
<1>1. PICK n \in Nat : n = Len(z.transitions)
  BY DEF IsZone
<1>2. PICK a \in Nat : a <= n /\ InSegment(z, a, u)
  BY <1>1, SegmentExists
<1>3. PICK o \in Int : o = OffsetOf(z, a)
  BY <1>1, <1>2, ZoneType
<1>4. OffsetAt(z, u) = o /\ FindLocalTimeOfUtc(z, u).utcOffset = o
  BY <1>1, <1>2, <1>3, OffsetAtIs, FindOfUtcIs
<1>5. local \in Int /\ u = local - o
  BY <1>3, <1>4
<1>6. Shows(z, a, local)
  BY <1>1, <1>2, <1>3, <1>5, ShowsInstant
<1>7. ToLocalTime(z, u) = [dateTime |-> BreakTime(local), utcOffset |-> OffsetAt(z, u)]
  BY <1>4, Zenon DEF ToLocalTime
<1>8. ASSUME NEW post \in BOOLEAN
      PROVE  FromLocalTime(z, BreakTime(local), post) \in InstantsOf(z, local)
  <2>0. PICK k \in Nat : LastUpTo(LocalTimes(z), local, k)
    BY <1>5, LastReached
  <2>1. k <= n /\ Reached(z, k, local)
    BY <1>1, <1>5, <2>0, FindOfLocalIs
  <2>2. Shows(z, k, local)
    BY <1>1, <1>2, <1>5, <1>6, <2>1, ShownReached
  <2>3. ~ IsSkip(z, k, local)
    <3>1. SUFFICES ASSUME IsSkip(z, k, local) PROVE FALSE
      OBVIOUS
    <3>2. PICK m \in 1 .. n : m = k + 1
      BY <1>1, <3>1 DEF IsSkip
    <3>3. SecondBefore(z, m) < local /\ local <= SecondBefore(z, m)
      BY <1>1, <2>2, <3>1, <3>2 DEF IsSkip, Shows
    <3>4. SecondBefore(z, m) \in Int
      BY <1>1, ZoneType
    <3>5. QED
      BY <1>5, <3>3, <3>4
  <2>4. PICK i \in Nat : /\ i <= n /\ Shows(z, i, local)
                         /\ FindLocalTimeOfLocal(z, local, post).utcOffset = OffsetOf(z, i)
    <3>1. CASE IsRepeat(z, k, local) /\ post = FALSE
      <4>1. k - 1 \in Nat /\ Shows(z, k - 1, local)
        BY <1>1, <1>5, <2>1, <3>1, RepeatShows
      <4>2. FindLocalTimeOfLocal(z, local, FALSE).utcOffset = OffsetOf(z, k - 1)
        BY <1>1, <1>5, <2>0, <2>3, <3>1, FindOfLocalIs
      <4>3. k - 1 <= n
        BY <2>1
      <4>4. QED
        BY <3>1, <4>1, <4>2, <4>3
    <3>2. CASE IsRepeat(z, k, local) /\ post = TRUE
      <4>1. FindLocalTimeOfLocal(z, local, TRUE).utcOffset = OffsetOf(z, k)
        BY <1>1, <1>5, <2>0, <2>3, <3>2, FindOfLocalIs
      <4>2. QED
        BY <2>1, <2>2, <3>2, <4>1
    <3>3. CASE ~ IsRepeat(z, k, local)
      <4>1. /\ FindLocalTimeOfLocal(z, local, TRUE).utcOffset = OffsetOf(z, k)
            /\ FindLocalTimeOfLocal(z, local, FALSE).utcOffset = OffsetOf(z, k)
        BY <1>1, <1>5, <2>0, <2>3, <3>3, FindOfLocalIs, ZenonT(30)
      <4>2. FindLocalTimeOfLocal(z, local, post).utcOffset = OffsetOf(z, k)
        BY <4>1, post = TRUE \/ post = FALSE, Zenon
      <4>3. QED
        BY <2>1, <2>2, <4>2
    <3>4. QED
      BY <3>1, <3>2, <3>3, Zenon
  <2>5. FromLocalTime(z, BreakTime(local), post) = local - OffsetOf(z, i)
    BY <1>5, <2>4, FromLocalIs
  <2>6. QED
    BY <1>1, <1>5, <2>4, <2>5, InstantsAre
<1>9. QED
  BY <1>7, <1>8

LEMMA RepeatedTime ==
  ASSUME NEW z, IsZone(z), IsSpaced(z), NEW n \in Nat, n = Len(z.transitions),
         NEW local \in Int, HasDate(local),
         NEW i \in 2 .. n - 1, NEW u \in InstantsOf(z, local), NEW v \in InstantsOf(z, local),
         u < UtcAt(z, i), UtcAt(z, i) <= v
  PROVE  LET pre  == FromLocalTime(z, BreakTime(local), FALSE)
             post == FromLocalTime(z, BreakTime(local), TRUE)
         IN  InstantsOf(z, local) = {pre, post} /\ pre < post
<1>1. PICK a \in Nat : a <= n /\ Shows(z, a, local) /\ u = local - OffsetOf(z, a)
  BY InstantsAre
<1>2. PICK b \in Nat : b <= n /\ Shows(z, b, local) /\ v = local - OffsetOf(z, b)
  BY InstantsAre
<1>3. u \in Int /\ InSegment(z, a, u) /\ v \in Int /\ InSegment(z, b, v)
  <2>1. u \in Int /\ InSegment(z, a, u)
    BY <1>1, ShowsInstant
  <2>2. v \in Int /\ InSegment(z, b, v)
    BY <1>2, ShowsInstant
  <2>3. QED
    BY <2>1, <2>2
<1>4. i \in 1 .. n /\ UtcAt(z, i) \in Int
  BY ZoneType
<1>5. a < i /\ i <= b
  <2>1. ~ (UtcAt(z, i) <= u)
    BY <1>3, <1>4
  <2>2. ~ (i <= a)
    BY <1>1, <1>3, <1>4, <2>1, SegmentOrder
  <2>3. i <= b
    BY <1>2, <1>3, <1>4, SegmentOrder
  <2>4. QED
    BY <1>4, <2>2, <2>3
<1>6. b = a + 1
  BY <1>1, <1>2, <1>5, Adjacent
<1>7. b = i /\ a = i - 1
  BY <1>5, <1>6
<1>8. \A c \in Nat : c <= n /\ Shows(z, c, local) => c = a \/ c = b
  <2>1. SUFFICES ASSUME NEW c \in Nat, c <= n, Shows(z, c, local), c # a, c # b
                 PROVE  FALSE
    OBVIOUS
  <2>2. CASE c < a
    <3>1. b = c + 1
      BY <1>2, <1>6, <2>1, <2>2, Adjacent
    <3>2. QED
      BY <1>6, <2>2, <3>1
  <2>3. CASE b < c
    <3>1. c = a + 1
      BY <1>1, <1>6, <2>1, <2>3, Adjacent
    <3>2. QED
      BY <1>6, <2>3, <3>1
  <2>4. QED
    BY <1>6, <2>1, <2>2, <2>3
<1>9. InstantsOf(z, local) = {u, v}
  <2>1. \A w : w \in InstantsOf(z, local)
                 <=> \E c \in Nat : c <= n /\ Shows(z, c, local) /\ w = local - OffsetOf(z, c)
    BY InstantsAre
  <2>2. \A w \in InstantsOf(z, local) : w = u \/ w = v
    BY <1>1, <1>2, <1>8, <2>1
  <2>3. QED
    BY <2>2
<1>10. PICK k \in Nat : LastUpTo(LocalTimes(z), local, k)
  BY LastReached
<1>11. k <= n /\ Reached(z, k, local)
  BY <1>10, FindOfLocalIs
<1>12. k = b
  <2>1. (k = a \/ k = a + 1) /\ (k = b \/ k = b + 1)
    BY <1>1, <1>2, <1>11, ShownReached
  <2>2. QED
    BY <1>6, <2>1
<1>13. IsRepeat(z, k, local)
  <2>1. a + 1 = k /\ 1 < k /\ k < n /\ a < n
    BY <1>6, <1>7, <1>12
  <2>2. local <= SecondBefore(z, k)
    BY <1>1, <2>1 DEF Shows
  <2>3. QED
    BY <2>1, <2>2 DEF IsRepeat
<1>14. ~ IsSkip(z, k, local)
  <2>1. SUFFICES ASSUME IsSkip(z, k, local) PROVE FALSE
    OBVIOUS
  <2>2. PICK m \in 1 .. n : m = k + 1
    BY <2>1 DEF IsSkip
  <2>3. SecondBefore(z, m) < local /\ local <= SecondBefore(z, m) /\ SecondBefore(z, m) \in Int
    <3>1. SecondBefore(z, m) < local
      BY <2>1, <2>2 DEF IsSkip
    <3>2. local <= SecondBefore(z, m)
      BY <1>2, <1>12, <2>1, <2>2 DEF Shows, IsSkip
    <3>3. QED
      BY <3>1, <3>2, ZoneType
  <2>4. QED
    BY <2>3
<1>15. FindLocalTimeOfLocal(z, local, FALSE).utcOffset = OffsetOf(z, a)
  <2>1. FindLocalTimeOfLocal(z, local, FALSE).utcOffset = OffsetOf(z, k - 1)
    BY <1>10, <1>13, <1>14, FindOfLocalIs
  <2>2. k - 1 = a
    BY <1>6, <1>12
  <2>3. QED
    BY <2>1, <2>2
<1>16. FindLocalTimeOfLocal(z, local, TRUE).utcOffset = OffsetOf(z, b)
  BY <1>10, <1>12, <1>13, <1>14, FindOfLocalIs
<1>17. FromLocalTime(z, BreakTime(local), FALSE) = u
  BY <1>1, <1>15, FromLocalIs
<1>18. FromLocalTime(z, BreakTime(local), TRUE) = v
  BY <1>2, <1>16, FromLocalIs
<1>19. u < v
  BY <1>3, <1>4
<1>20. QED
  BY <1>9, <1>17, <1>18, <1>19

LEMMA SkippedTime ==
  ASSUME NEW z, IsZone(z), NEW n \in Nat, n = Len(z.transitions),
         NEW local \in Int, HasDate(local),
         InstantsOf(z, local) = {}, n > 0, LocalAt(z, 1) <= local
  PROVE  LET pre  == FromLocalTime(z, BreakTime(local), FALSE)
             post == FromLocalTime(z, BreakTime(local), TRUE)
         IN  \E i \in 2 .. n : post < UtcAt(z, i) /\ UtcAt(z, i) <= pre
<1>1. PICK k \in Nat : LastUpTo(LocalTimes(z), local, k)
  BY LastReached
<1>2. k <= n /\ Reached(z, k, local)
  BY <1>1, FindOfLocalIs
<1>3. k > 0
  <2>1. SUFFICES ASSUME k = 0 PROVE FALSE
    OBVIOUS
  <2>2. 1 \in 1 .. n /\ k + 1 = 1 /\ k < n
    BY <2>1
  <2>3. local < LocalAt(z, 1)
    BY <1>2, <2>2 DEF Reached
  <2>4. LocalAt(z, 1) \in Int
    BY <2>2, ZoneType
  <2>5. QED
    BY <2>3, <2>4
<1>4. ~ Shows(z, k, local)
  <2>1. SUFFICES ASSUME Shows(z, k, local) PROVE FALSE
    OBVIOUS
  <2>2. local - OffsetOf(z, k) \in InstantsOf(z, local)
    BY <1>2, <2>1, InstantsAre
  <2>3. QED
    BY <2>2
<1>5. k < n /\ ~ (local <= SecondBefore(z, k + 1))
  BY <1>2, <1>3, <1>4 DEF Shows, Reached
<1>6. PICK i \in 2 .. n : i = k + 1
  BY <1>3, <1>5
<1>7. /\ UtcAt(z, i) \in Int /\ LocalAt(z, i) = UtcAt(z, i) + OffsetOf(z, i)
      /\ SecondBefore(z, i) = UtcAt(z, i) - 1 + OffsetOf(z, k)
      /\ OffsetOf(z, i) \in Int /\ OffsetOf(z, k) \in Int
  <2>1. i \in 1 .. n /\ i \in 0 .. n /\ k \in 0 .. n /\ i - 1 = k
    BY <1>5, <1>6
  <2>2. UtcAt(z, i) \in Int /\ OffsetOf(z, i) \in Int /\ OffsetOf(z, k) \in Int
    BY <2>1, ZoneType
  <2>3. LocalAt(z, i) = UtcAt(z, i) + OffsetOf(z, i)
    BY <2>1 DEF IsZone
  <2>4. QED
    BY <2>1, <2>2, <2>3 DEF SecondBefore
<1>8. SecondBefore(z, i) < local /\ local < LocalAt(z, i)
  <2>1. local < LocalAt(z, i)
    BY <1>2, <1>5, <1>6 DEF Reached
  <2>2. ~ (local <= SecondBefore(z, i))
    BY <1>5, <1>6
  <2>3. QED
    BY <1>7, <2>1, <2>2
<1>9. IsSkip(z, k, local)
  BY <1>3, <1>5, <1>6, <1>8 DEF IsSkip
<1>10. FindLocalTimeOfLocal(z, local, FALSE).utcOffset = OffsetOf(z, k)
  BY <1>1, <1>9, FindOfLocalIs
<1>11. FindLocalTimeOfLocal(z, local, TRUE).utcOffset = OffsetOf(z, i)
  <2>1. FindLocalTimeOfLocal(z, local, TRUE).utcOffset = OffsetOf(z, k + 1)
    BY <1>1, <1>9, FindOfLocalIs
  <2>2. QED
    BY <1>6, <2>1
<1>12. FromLocalTime(z, BreakTime(local), FALSE) = local - OffsetOf(z, k)
  BY <1>10, FromLocalIs
<1>13. FromLocalTime(z, BreakTime(local), TRUE) = local - OffsetOf(z, i)
  BY <1>11, FromLocalIs
<1>14. local - OffsetOf(z, i) < UtcAt(z, i) /\ UtcAt(z, i) <= local - OffsetOf(z, k)
  BY <1>7, <1>8
<1>15. QED
  BY <1>12, <1>13, <1>14

-----------------------------------------------------------------------------
(* The zones of the run.                                                    *)

Table(localTimes, transitions) == [localTimes |-> localTimes, transitions |-> transitions]
Entry(o, dst) == [utcOffset |-> o, isDst |-> dst]
Change(u, o, k) == [utcTime |-> u, localTime |-> u + o, idx |-> k]

LEMMA TableIs ==
  ASSUME NEW ls, NEW ts
  PROVE  Table(ls, ts).localTimes = ls /\ Table(ls, ts).transitions = ts
BY DEF Table

LEMMA LocalTimeAdded ==
  ASSUME NEW ls, NEW ts, NEW o, NEW dst
  PROVE  AddLocalTime(Table(ls, ts), o, dst) = Table(Append(ls, Entry(o, dst)), ts)
<1>1. PICK r : r = Table(ls, ts)
  OBVIOUS
<1>2. r.localTimes = ls
  BY <1>1, TableIs
<1>3. AddLocalTime(r, o, dst) = [r EXCEPT !.localTimes = Append(r.localTimes, Entry(o, dst))]
  BY Zenon DEF AddLocalTime, Entry
<1> DEFINE new == Append(ls, Entry(o, dst))
<1>4. AddLocalTime(r, o, dst) = [r EXCEPT !.localTimes = new]
  BY <1>2, <1>3, Zenon
<1> HIDE DEF new
<1>5. [r EXCEPT !.localTimes = new] = Table(new, ts)
  BY <1>1, SMT DEF Table
<1>6. QED
  BY <1>1, <1>4, <1>5, Zenon DEF new

LEMMA TransitionAdded ==
  ASSUME NEW ls, NEW ts, NEW u, NEW k
  PROVE  AddTransition(Table(ls, ts), u, k) = Table(ls, Append(ts, Change(u, ls[k].utcOffset, k)))
<1>1. PICK r : r = Table(ls, ts)
  OBVIOUS
<1> DEFINE new == Append(ts, Change(u, ls[k].utcOffset, k))
<1>2. r.localTimes = ls /\ r.transitions = ts
  BY <1>1, TableIs
<1>3. AddTransition(r, u, k)
        = [r EXCEPT !.transitions = Append(r.transitions, Change(u, r.localTimes[k].utcOffset, k))]
  BY Zenon DEF AddTransition, Change
<1>4. AddTransition(r, u, k) = [r EXCEPT !.transitions = new]
  BY <1>2, <1>3, Zenon
<1> HIDE DEF new
<1>5. [r EXCEPT !.transitions = new] = Table(ls, new)
  BY <1>1, SMT DEF Table
<1>6. QED
  BY <1>1, <1>4, <1>5, Zenon DEF new

LEMMA FixedZoneIs ==
  ASSUME NEW o
  PROVE  FixedZone(o) = Table(Append(<<>>, Entry(o, FALSE)), <<>>)
<1>1. FixedZone(o) = AddLocalTime(Table(<<>>, <<>>), o, FALSE)
  BY Zenon DEF FixedZone, EmptyData, Table
<1>2. QED
  BY <1>1, LocalTimeAdded, ZenonT(30)

LEMMA Appended ==
  ASSUME NEW S, NEW s \in Seq(S), NEW n \in Nat, Len(s) = n, NEW e \in S, NEW t, t = Append(s, e)
  PROVE  /\ t \in Seq(S) /\ Len(t) = n + 1 /\ t[n + 1] = e
         /\ \A i \in 1 .. n : t[i] = s[i]
         /\ Head(t) = t[1]
BY AppendProperties

(* What is needed of a zone to compute local times of instants of the run.  *)
Lowest == -86400

IsUsable(z) ==
  /\ IsZone(z) /\ IsSpaced(z)
  /\ \A i \in DOMAIN z.localTimes : z.localTimes[i].utcOffset >= Lowest

LEMMA FixedZoneUsable ==
  ASSUME NEW e \in Int, e >= Lowest
  PROVE  IsUsable(FixedZone(e))
<1>1. PICK z : z = FixedZone(e)
  OBVIOUS
<1> DEFINE entry == Entry(e, FALSE)
           ls == Append(<<>>, entry)
           ts == <<>>
<1>2. entry.utcOffset = e
  BY DEF Entry
<1>4. z = Table(ls, ts)
  BY <1>1, FixedZoneIs, Zenon
<1> HIDE DEF entry
<1>3. ls = Append(<<>>, entry) /\ ts = <<>>
  OBVIOUS
<1> HIDE DEF ls, ts
<1>5. z.localTimes = ls /\ z.transitions = ts
  BY <1>3, <1>4, TableIs
<1>6. ls \in Seq({entry}) /\ Len(ls) = 1 /\ ls[1] = entry /\ Head(ls) = ls[1]
  <2>1. <<>> \in Seq({entry}) /\ Len(<<>>) = 0
    OBVIOUS
  <2>2. ls \in Seq({entry}) /\ Len(ls) = 0 + 1 /\ ls[0 + 1] = entry /\ Head(ls) = ls[1]
    BY <1>3, <2>1, Appended
  <2>3. QED
    BY <2>2
<1>7. DOMAIN ls = 1 .. 1 /\ Len(ts) = 0 /\ DOMAIN ts = 1 .. 0
  BY <1>3, <1>6
<1>8. \A i \in DOMAIN z.localTimes : z.localTimes[i].utcOffset = e
  BY <1>2, <1>5, <1>6, <1>7
<1>9. \A i : i \notin 1 .. 0
  OBVIOUS
<1>10. IsZone(z) /\ IsSpaced(z)
  BY <1>5, <1>6, <1>7, <1>8, <1>9 DEF IsZone, IsSpaced
<1>11. QED
  BY <1>1, <1>8, <1>10 DEF IsUsable

LEMMA ChinaUsable == IsUsable(China)
<1> DEFINE o1 == 29143
           o2 == 8 * 3600
           o3 == 9 * 3600
           n1 == Noon(1989, 9, 16, 17)
           n2 == Noon(1990, 4, 14, 18)
           n3 == Noon(1990, 9, 15, 17)
           n4 == Noon(1991, 4, 13, 18)
           n5 == Noon(1991, 9, 14, 17)
           s1 == FixedZone(o1)
           s2 == AddLocalTime(s1, o2, FALSE)
           s3 == AddLocalTime(s2, o3, TRUE)
           z1 == AddTransition(s3, n1, 2)
           z2 == AddTransition(z1, n2, 3)
           z3 == AddTransition(z2, n3, 2)
           z4 == AddTransition(z3, n4, 3)
           z5 == AddTransition(z4, n5, 2)
<1>0. China = z5
  BY DEF China
<1>1. o1 = 29143 /\ o2 = 28800 /\ o3 = 32400
  BY SMT
<1>2. /\ n1 = 621968400
      /\ n2 = 640116000
      /\ n3 = 653418000
      /\ n4 = 671565600
      /\ n5 = 684867600
  <2>1. Noon(1989, 9, 16, 17) = 7198 * 86400 + 17 * 3600
    BY NoonIs, SMT
  <2>2. Noon(1990, 4, 14, 18) = 7408 * 86400 + 18 * 3600
    BY NoonIs, SMT
  <2>3. Noon(1990, 9, 15, 17) = 7562 * 86400 + 17 * 3600
    BY NoonIs, SMT
  <2>4. Noon(1991, 4, 13, 18) = 7772 * 86400 + 18 * 3600
    BY NoonIs, SMT
  <2>5. Noon(1991, 9, 14, 17) = 7926 * 86400 + 17 * 3600
    BY NoonIs, SMT
  <2>6. QED
    BY <2>1, <2>2, <2>3, <2>4, <2>5, SMT
<1> HIDE DEF o1, o2, o3, n1, n2, n3, n4, n5
<1> DEFINE e1 == Entry(o1, FALSE)
           e2 == Entry(o2, FALSE)
           e3 == Entry(o3, TRUE)
           E == {e1, e2, e3}
           l1 == Append(<<>>, e1)
           l2 == Append(l1, e2)
           l3 == Append(l2, e3)
           c1 == Change(n1, l3[2].utcOffset, 2)
           c2 == Change(n2, l3[3].utcOffset, 3)
           c3 == Change(n3, l3[2].utcOffset, 2)
           c4 == Change(n4, l3[3].utcOffset, 3)
           c5 == Change(n5, l3[2].utcOffset, 2)
           C == {c1, c2, c3, c4, c5}
           t1 == Append(<<>>, c1)
           t2 == Append(t1, c2)
           t3 == Append(t2, c3)
           t4 == Append(t3, c4)
           t5 == Append(t4, c5)
<1>3. e1.utcOffset = o1 /\ e2.utcOffset = o2 /\ e3.utcOffset = o3
  BY SMT DEF Entry
<1>4. s3 = Table(l3, <<>>)
  <2>1. s1 = Table(l1, <<>>)
    BY FixedZoneIs, Zenon
  <2> HIDE DEF s1, l1
  <2>2. s2 = Table(l2, <<>>)
    BY <2>1, LocalTimeAdded, ZenonT(30)
  <2> HIDE DEF s2, l2
  <2>3. s3 = Table(l3, <<>>)
    BY <2>2, LocalTimeAdded, ZenonT(30)
  <2>4. QED
    BY <2>3
<1> HIDE DEF s3
<1> HIDE DEF e1, e2, e3
<1>5. l3 \in Seq(E) /\ Len(l3) = 3 /\ Head(l3) = l3[1]
      /\ l3[1] = e1 /\ l3[2] = e2 /\ l3[3] = e3
  <2>0. <<>> \in Seq(E) /\ Len(<<>>) = 0 /\ e1 \in E /\ e2 \in E /\ e3 \in E
    OBVIOUS
  <2> HIDE DEF E
  <2>1. l1 \in Seq(E) /\ Len(l1) = 1 /\ Head(l1) = l1[1]
        /\ l1[1] = e1
    <3>1. l1 = Append(<<>>, e1)
      OBVIOUS
    <3> HIDE DEF l1
    <3>2. l1 \in Seq(E) /\ Len(l1) = 0 + 1 /\ Head(l1) = l1[1] /\ l1[0 + 1] = e1
          /\ \A i \in 1 .. 0 : l1[i] = <<>>[i]
      BY <2>0, <3>1, Appended
    <3>3. QED
      BY <3>2
  <2>2. l2 \in Seq(E) /\ Len(l2) = 2 /\ Head(l2) = l2[1]
        /\ l2[1] = e1 /\ l2[2] = e2
    <3> HIDE DEF l1
    <3>1. l2 = Append(l1, e2)
      OBVIOUS
    <3> HIDE DEF l2
    <3>2. l2 \in Seq(E) /\ Len(l2) = 1 + 1 /\ Head(l2) = l2[1] /\ l2[1 + 1] = e2
          /\ \A i \in 1 .. 1 : l2[i] = l1[i]
      BY <2>0, <2>1, <3>1, Appended
    <3>3. QED
      BY <2>1, <3>2
  <2>3. l3 \in Seq(E) /\ Len(l3) = 3 /\ Head(l3) = l3[1]
        /\ l3[1] = e1 /\ l3[2] = e2 /\ l3[3] = e3
    <3> HIDE DEF l1, l2
    <3>1. l3 = Append(l2, e3)
      OBVIOUS
    <3> HIDE DEF l3
    <3>2. l3 \in Seq(E) /\ Len(l3) = 2 + 1 /\ Head(l3) = l3[1] /\ l3[2 + 1] = e3
          /\ \A i \in 1 .. 2 : l3[i] = l2[i]
      BY <2>0, <2>2, <3>1, Appended
    <3>3. QED
      BY <2>2, <3>2
  <2>4. QED
    BY <2>3
<1> HIDE DEF l1, l2, l3, E
<1>6. l3[1].utcOffset = 29143 /\ l3[2].utcOffset = 28800 /\ l3[3].utcOffset = 32400 /\ DOMAIN l3 = 1 .. 3
  BY <1>1, <1>3, <1>5
<1>7. z5 = Table(l3, t5)
  <2>1. z1 = Table(l3, t1)
    BY <1>4, TransitionAdded, ZenonT(30)
  <2> HIDE DEF z1, t1
  <2>2. z2 = Table(l3, t2)
    BY <2>1, TransitionAdded, ZenonT(30)
  <2> HIDE DEF z2, t2
  <2>3. z3 = Table(l3, t3)
    BY <2>2, TransitionAdded, ZenonT(30)
  <2> HIDE DEF z3, t3
  <2>4. z4 = Table(l3, t4)
    BY <2>3, TransitionAdded, ZenonT(30)
  <2> HIDE DEF z4, t4
  <2>5. z5 = Table(l3, t5)
    BY <2>4, TransitionAdded, ZenonT(30)
  <2>6. QED
    BY <2>5
<1> HIDE DEF z5
<1>20. /\ c1.utcTime = 621968400 /\ c1.localTime = 621997200 /\ c1.idx = 2
       /\ c2.utcTime = 640116000 /\ c2.localTime = 640148400 /\ c2.idx = 3
       /\ c3.utcTime = 653418000 /\ c3.localTime = 653446800 /\ c3.idx = 2
       /\ c4.utcTime = 671565600 /\ c4.localTime = 671598000 /\ c4.idx = 3
       /\ c5.utcTime = 684867600 /\ c5.localTime = 684896400 /\ c5.idx = 2
  BY <1>2, <1>6, SMT DEF Change
<1> HIDE DEF c1, c2, c3, c4, c5
<1>8. t5 \in Seq(C) /\ Len(t5) = 5 /\ Head(t5) = t5[1]
      /\ t5[1] = c1 /\ t5[2] = c2 /\ t5[3] = c3 /\ t5[4] = c4 /\ t5[5] = c5
  <2>0. <<>> \in Seq(C) /\ Len(<<>>) = 0 /\ c1 \in C /\ c2 \in C /\ c3 \in C /\ c4 \in C /\ c5 \in C
    OBVIOUS
  <2> HIDE DEF C
  <2>1. t1 \in Seq(C) /\ Len(t1) = 1 /\ Head(t1) = t1[1]
        /\ t1[1] = c1
    <3>1. t1 = Append(<<>>, c1)
      OBVIOUS
    <3> HIDE DEF t1
    <3>2. t1 \in Seq(C) /\ Len(t1) = 0 + 1 /\ Head(t1) = t1[1] /\ t1[0 + 1] = c1
          /\ \A i \in 1 .. 0 : t1[i] = <<>>[i]
      BY <2>0, <3>1, Appended
    <3>3. QED
      BY <3>2
  <2>2. t2 \in Seq(C) /\ Len(t2) = 2 /\ Head(t2) = t2[1]
        /\ t2[1] = c1 /\ t2[2] = c2
    <3> HIDE DEF t1
    <3>1. t2 = Append(t1, c2)
      OBVIOUS
    <3> HIDE DEF t2
    <3>2. t2 \in Seq(C) /\ Len(t2) = 1 + 1 /\ Head(t2) = t2[1] /\ t2[1 + 1] = c2
          /\ \A i \in 1 .. 1 : t2[i] = t1[i]
      BY <2>0, <2>1, <3>1, Appended
    <3>3. QED
      BY <2>1, <3>2
  <2>3. t3 \in Seq(C) /\ Len(t3) = 3 /\ Head(t3) = t3[1]
        /\ t3[1] = c1 /\ t3[2] = c2 /\ t3[3] = c3
    <3> HIDE DEF t1, t2
    <3>1. t3 = Append(t2, c3)
      OBVIOUS
    <3> HIDE DEF t3
    <3>2. t3 \in Seq(C) /\ Len(t3) = 2 + 1 /\ Head(t3) = t3[1] /\ t3[2 + 1] = c3
          /\ \A i \in 1 .. 2 : t3[i] = t2[i]
      BY <2>0, <2>2, <3>1, Appended
    <3>3. QED
      BY <2>2, <3>2
  <2>4. t4 \in Seq(C) /\ Len(t4) = 4 /\ Head(t4) = t4[1]
        /\ t4[1] = c1 /\ t4[2] = c2 /\ t4[3] = c3 /\ t4[4] = c4
    <3> HIDE DEF t1, t2, t3
    <3>1. t4 = Append(t3, c4)
      OBVIOUS
    <3> HIDE DEF t4
    <3>2. t4 \in Seq(C) /\ Len(t4) = 3 + 1 /\ Head(t4) = t4[1] /\ t4[3 + 1] = c4
          /\ \A i \in 1 .. 3 : t4[i] = t3[i]
      BY <2>0, <2>3, <3>1, Appended
    <3>3. QED
      BY <2>3, <3>2
  <2>5. t5 \in Seq(C) /\ Len(t5) = 5 /\ Head(t5) = t5[1]
        /\ t5[1] = c1 /\ t5[2] = c2 /\ t5[3] = c3 /\ t5[4] = c4 /\ t5[5] = c5
    <3> HIDE DEF t1, t2, t3, t4
    <3>1. t5 = Append(t4, c5)
      OBVIOUS
    <3> HIDE DEF t5
    <3>2. t5 \in Seq(C) /\ Len(t5) = 4 + 1 /\ Head(t5) = t5[1] /\ t5[4 + 1] = c5
          /\ \A i \in 1 .. 4 : t5[i] = t4[i]
      BY <2>0, <2>4, <3>1, Appended
    <3>3. QED
      BY <2>4, <3>2
  <2>6. QED
    BY <2>5
<1> HIDE DEF t1, t2, t3, t4, t5, C
<1>9. PICK z : z = China
  OBVIOUS
<1>10. z.localTimes = l3 /\ z.transitions = t5
  BY <1>0, <1>7, <1>9, TableIs
<1>11. Len(z.transitions) = 5 /\ DOMAIN z.transitions = 1 .. 5
       /\ z.transitions[1] = c1
       /\ z.transitions[2] = c2
       /\ z.transitions[3] = c3
       /\ z.transitions[4] = c4
       /\ z.transitions[5] = c5
  BY <1>8, <1>10
<1>12. /\ UtcAt(z, 1) = 621968400 /\ LocalAt(z, 1) = 621997200
       /\ UtcAt(z, 2) = 640116000 /\ LocalAt(z, 2) = 640148400
       /\ UtcAt(z, 3) = 653418000 /\ LocalAt(z, 3) = 653446800
       /\ UtcAt(z, 4) = 671565600 /\ LocalAt(z, 4) = 671598000
       /\ UtcAt(z, 5) = 684867600 /\ LocalAt(z, 5) = 684896400
  BY <1>11, <1>20, SMT DEF UtcAt, LocalAt
<1>13. /\ OffsetOf(z, 0) = 29143
       /\ OffsetOf(z, 1) = 28800
       /\ OffsetOf(z, 2) = 32400
       /\ OffsetOf(z, 3) = 28800
       /\ OffsetOf(z, 4) = 32400
       /\ OffsetOf(z, 5) = 28800
  BY <1>6, <1>10, <1>11, <1>20, SMT DEF OffsetOf, LocalTimeAt
<1>14. /\ SecondBefore(z, 1) = 621997542
       /\ SecondBefore(z, 2) = 640144799
       /\ SecondBefore(z, 3) = 653450399
       /\ SecondBefore(z, 4) = 671594399
       /\ SecondBefore(z, 5) = 684899999
  BY <1>12, <1>13, SMT DEF SecondBefore
<1>15. 1 .. 5 = {1, 2, 3, 4, 5} /\ 1 .. 3 = {1, 2, 3}
  OBVIOUS
<1>16. IsZone(z)
  <2>1. \A i \in 1 .. 3 : z.localTimes[i].utcOffset \in Int
    BY <1>6, <1>10, <1>15
  <2>2. ASSUME NEW i \in {1, 2, 3, 4, 5}
        PROVE  /\ z.transitions[i].idx \in 1 .. 3 /\ UtcAt(z, i) \in Int
               /\ LocalAt(z, i) = UtcAt(z, i) + OffsetOf(z, i)
    BY <1>11, <1>12, <1>13, <1>20, SMT
  <2>3. \A i, j \in {1, 2, 3, 4, 5} : i < j => UtcAt(z, i) < UtcAt(z, j)
    BY <1>12, SMT
  <2>4. Len(z.localTimes) = 3 /\ DOMAIN z.localTimes = 1 .. 3 /\ Head(z.localTimes) = z.localTimes[1]
    BY <1>5, <1>6, <1>10
  <2>5. QED
    BY <1>11, <1>15, <2>1, <2>2, <2>3, <2>4 DEF IsZone
<1>17. IsSpaced(z)
  <2>1. \A i, j \in {1, 2, 3, 4, 5} : i < j => LocalAt(z, i) < LocalAt(z, j)
    BY <1>12, SMT
  <2>2. \A i, j \in {1, 2, 3, 4, 5} : i < j => SecondBefore(z, i) < SecondBefore(z, j)
    BY <1>14, SMT
  <2>3. \A i, j \in {1, 2, 3, 4, 5} : i < j => SecondBefore(z, i) < LocalAt(z, j)
    BY <1>12, <1>14, SMT
  <2>4. QED
    BY <1>11, <1>15, <2>1, <2>2, <2>3 DEF IsSpaced
<1>18. \A i \in DOMAIN z.localTimes : z.localTimes[i].utcOffset >= Lowest
  BY <1>6, <1>10, <1>15, SMT DEF Lowest
<1>19. QED
  BY <1>9, <1>16, <1>17, <1>18 DEF IsUsable

LEMMA WesternUsable == IsUsable(Western)
<1> DEFINE o1 == -5 * 3600
           o2 == -4 * 3600
           n1 == Noon(1965, 4, 25, 7)
           n2 == Noon(1965, 10, 31, 6)
           n3 == Noon(1966, 4, 24, 7)
           s1 == FixedZone(o1)
           s2 == AddLocalTime(s1, o2, TRUE)
           z1 == AddTransition(s2, n1, 2)
           z2 == AddTransition(z1, n2, 1)
           z3 == AddTransition(z2, n3, 2)
<1>0. Western = z3
  BY DEF Western
<1>1. o1 = -18000 /\ o2 = -14400
  BY SMT
<1>2. /\ n1 = -147891600
      /\ n2 = -131565600
      /\ n3 = -116442000
  <2>1. Noon(1965, 4, 25, 7) = (-1712) * 86400 + 7 * 3600
    BY NoonIs, SMT
  <2>2. Noon(1965, 10, 31, 6) = (-1523) * 86400 + 6 * 3600
    BY NoonIs, SMT
  <2>3. Noon(1966, 4, 24, 7) = (-1348) * 86400 + 7 * 3600
    BY NoonIs, SMT
  <2>4. QED
    BY <2>1, <2>2, <2>3, SMT
<1> HIDE DEF o1, o2, n1, n2, n3
<1> DEFINE e1 == Entry(o1, FALSE)
           e2 == Entry(o2, TRUE)
           E == {e1, e2}
           l1 == Append(<<>>, e1)
           l2 == Append(l1, e2)
           c1 == Change(n1, l2[2].utcOffset, 2)
           c2 == Change(n2, l2[1].utcOffset, 1)
           c3 == Change(n3, l2[2].utcOffset, 2)
           C == {c1, c2, c3}
           t1 == Append(<<>>, c1)
           t2 == Append(t1, c2)
           t3 == Append(t2, c3)
<1>3. e1.utcOffset = o1 /\ e2.utcOffset = o2
  BY SMT DEF Entry
<1>4. s2 = Table(l2, <<>>)
  <2>1. s1 = Table(l1, <<>>)
    BY FixedZoneIs, Zenon
  <2> HIDE DEF s1, l1
  <2>2. s2 = Table(l2, <<>>)
    BY <2>1, LocalTimeAdded, ZenonT(30)
  <2>3. QED
    BY <2>2
<1> HIDE DEF s2
<1> HIDE DEF e1, e2
<1>5. l2 \in Seq(E) /\ Len(l2) = 2 /\ Head(l2) = l2[1]
      /\ l2[1] = e1 /\ l2[2] = e2
  <2>0. <<>> \in Seq(E) /\ Len(<<>>) = 0 /\ e1 \in E /\ e2 \in E
    OBVIOUS
  <2> HIDE DEF E
  <2>1. l1 \in Seq(E) /\ Len(l1) = 1 /\ Head(l1) = l1[1]
        /\ l1[1] = e1
    <3>1. l1 = Append(<<>>, e1)
      OBVIOUS
    <3> HIDE DEF l1
    <3>2. l1 \in Seq(E) /\ Len(l1) = 0 + 1 /\ Head(l1) = l1[1] /\ l1[0 + 1] = e1
          /\ \A i \in 1 .. 0 : l1[i] = <<>>[i]
      BY <2>0, <3>1, Appended
    <3>3. QED
      BY <3>2
  <2>2. l2 \in Seq(E) /\ Len(l2) = 2 /\ Head(l2) = l2[1]
        /\ l2[1] = e1 /\ l2[2] = e2
    <3> HIDE DEF l1
    <3>1. l2 = Append(l1, e2)
      OBVIOUS
    <3> HIDE DEF l2
    <3>2. l2 \in Seq(E) /\ Len(l2) = 1 + 1 /\ Head(l2) = l2[1] /\ l2[1 + 1] = e2
          /\ \A i \in 1 .. 1 : l2[i] = l1[i]
      BY <2>0, <2>1, <3>1, Appended
    <3>3. QED
      BY <2>1, <3>2
  <2>3. QED
    BY <2>2
<1> HIDE DEF l1, l2, E
<1>6. l2[1].utcOffset = -18000 /\ l2[2].utcOffset = -14400 /\ DOMAIN l2 = 1 .. 2
  BY <1>1, <1>3, <1>5
<1>7. z3 = Table(l2, t3)
  <2>1. z1 = Table(l2, t1)
    BY <1>4, TransitionAdded, ZenonT(30)
  <2> HIDE DEF z1, t1
  <2>2. z2 = Table(l2, t2)
    BY <2>1, TransitionAdded, ZenonT(30)
  <2> HIDE DEF z2, t2
  <2>3. z3 = Table(l2, t3)
    BY <2>2, TransitionAdded, ZenonT(30)
  <2>4. QED
    BY <2>3
<1> HIDE DEF z3
<1>20. /\ c1.utcTime = -147891600 /\ c1.localTime = -147906000 /\ c1.idx = 2
       /\ c2.utcTime = -131565600 /\ c2.localTime = -131583600 /\ c2.idx = 1
       /\ c3.utcTime = -116442000 /\ c3.localTime = -116456400 /\ c3.idx = 2
  BY <1>2, <1>6, SMT DEF Change
<1> HIDE DEF c1, c2, c3
<1>8. t3 \in Seq(C) /\ Len(t3) = 3 /\ Head(t3) = t3[1]
      /\ t3[1] = c1 /\ t3[2] = c2 /\ t3[3] = c3
  <2>0. <<>> \in Seq(C) /\ Len(<<>>) = 0 /\ c1 \in C /\ c2 \in C /\ c3 \in C
    OBVIOUS
  <2> HIDE DEF C
  <2>1. t1 \in Seq(C) /\ Len(t1) = 1 /\ Head(t1) = t1[1]
        /\ t1[1] = c1
    <3>1. t1 = Append(<<>>, c1)
      OBVIOUS
    <3> HIDE DEF t1
    <3>2. t1 \in Seq(C) /\ Len(t1) = 0 + 1 /\ Head(t1) = t1[1] /\ t1[0 + 1] = c1
          /\ \A i \in 1 .. 0 : t1[i] = <<>>[i]
      BY <2>0, <3>1, Appended
    <3>3. QED
      BY <3>2
  <2>2. t2 \in Seq(C) /\ Len(t2) = 2 /\ Head(t2) = t2[1]
        /\ t2[1] = c1 /\ t2[2] = c2
    <3> HIDE DEF t1
    <3>1. t2 = Append(t1, c2)
      OBVIOUS
    <3> HIDE DEF t2
    <3>2. t2 \in Seq(C) /\ Len(t2) = 1 + 1 /\ Head(t2) = t2[1] /\ t2[1 + 1] = c2
          /\ \A i \in 1 .. 1 : t2[i] = t1[i]
      BY <2>0, <2>1, <3>1, Appended
    <3>3. QED
      BY <2>1, <3>2
  <2>3. t3 \in Seq(C) /\ Len(t3) = 3 /\ Head(t3) = t3[1]
        /\ t3[1] = c1 /\ t3[2] = c2 /\ t3[3] = c3
    <3> HIDE DEF t1, t2
    <3>1. t3 = Append(t2, c3)
      OBVIOUS
    <3> HIDE DEF t3
    <3>2. t3 \in Seq(C) /\ Len(t3) = 2 + 1 /\ Head(t3) = t3[1] /\ t3[2 + 1] = c3
          /\ \A i \in 1 .. 2 : t3[i] = t2[i]
      BY <2>0, <2>2, <3>1, Appended
    <3>3. QED
      BY <2>2, <3>2
  <2>4. QED
    BY <2>3
<1> HIDE DEF t1, t2, t3, C
<1>9. PICK z : z = Western
  OBVIOUS
<1>10. z.localTimes = l2 /\ z.transitions = t3
  BY <1>0, <1>7, <1>9, TableIs
<1>11. Len(z.transitions) = 3 /\ DOMAIN z.transitions = 1 .. 3
       /\ z.transitions[1] = c1
       /\ z.transitions[2] = c2
       /\ z.transitions[3] = c3
  BY <1>8, <1>10
<1>12. /\ UtcAt(z, 1) = -147891600 /\ LocalAt(z, 1) = -147906000
       /\ UtcAt(z, 2) = -131565600 /\ LocalAt(z, 2) = -131583600
       /\ UtcAt(z, 3) = -116442000 /\ LocalAt(z, 3) = -116456400
  BY <1>11, <1>20, SMT DEF UtcAt, LocalAt
<1>13. /\ OffsetOf(z, 0) = -18000
       /\ OffsetOf(z, 1) = -14400
       /\ OffsetOf(z, 2) = -18000
       /\ OffsetOf(z, 3) = -14400
  BY <1>6, <1>10, <1>11, <1>20, SMT DEF OffsetOf, LocalTimeAt
<1>14. /\ SecondBefore(z, 1) = -147909601
       /\ SecondBefore(z, 2) = -131580001
       /\ SecondBefore(z, 3) = -116460001
  BY <1>12, <1>13, SMT DEF SecondBefore
<1>15. 1 .. 3 = {1, 2, 3} /\ 1 .. 2 = {1, 2}
  OBVIOUS
<1>16. IsZone(z)
  <2>1. \A i \in 1 .. 2 : z.localTimes[i].utcOffset \in Int
    BY <1>6, <1>10, <1>15
  <2>2. ASSUME NEW i \in {1, 2, 3}
        PROVE  /\ z.transitions[i].idx \in 1 .. 2 /\ UtcAt(z, i) \in Int
               /\ LocalAt(z, i) = UtcAt(z, i) + OffsetOf(z, i)
    BY <1>11, <1>12, <1>13, <1>20, SMT
  <2>3. \A i, j \in {1, 2, 3} : i < j => UtcAt(z, i) < UtcAt(z, j)
    BY <1>12, SMT
  <2>4. Len(z.localTimes) = 2 /\ DOMAIN z.localTimes = 1 .. 2 /\ Head(z.localTimes) = z.localTimes[1]
    BY <1>5, <1>6, <1>10
  <2>5. QED
    BY <1>11, <1>15, <2>1, <2>2, <2>3, <2>4 DEF IsZone
<1>17. IsSpaced(z)
  <2>1. \A i, j \in {1, 2, 3} : i < j => LocalAt(z, i) < LocalAt(z, j)
    BY <1>12, SMT
  <2>2. \A i, j \in {1, 2, 3} : i < j => SecondBefore(z, i) < SecondBefore(z, j)
    BY <1>14, SMT
  <2>3. \A i, j \in {1, 2, 3} : i < j => SecondBefore(z, i) < LocalAt(z, j)
    BY <1>12, <1>14, SMT
  <2>4. QED
    BY <1>11, <1>15, <2>1, <2>2, <2>3 DEF IsSpaced
<1>18. \A i \in DOMAIN z.localTimes : z.localTimes[i].utcOffset >= Lowest
  BY <1>6, <1>10, <1>15, SMT DEF Lowest
<1>19. QED
  BY <1>9, <1>16, <1>17, <1>18 DEF IsUsable

LEMMA ZonesUsable ==
  ASSUME NEW z \in Zones
  PROVE  IsUsable(z)
<1>1. IsUsable(UTC)
  BY FixedZoneUsable, 0 >= Lowest, SMT DEF UTC, Lowest
<1>2. IsUsable(FixedZone(-12600))
  BY FixedZoneUsable, -12600 >= Lowest, SMT DEF Lowest
<1>3. QED
  BY <1>1, <1>2, ChinaUsable, WesternUsable DEF Zones
-----------------------------------------------------------------------------
(* The local times of the run.                                              *)

Earliest == -1000000001

LEMMA RecentHasDate ==
  ASSUME NEW u \in Int, u >= Earliest, NEW o \in Int, o >= Lowest
  PROVE  u + o \in Int /\ HasDate(u + o)
<1>1. PICK t \in Int : t = u + o
  OBVIOUS
<1>2. t >= -1000086401
  BY <1>1, SMT DEF Earliest, Lowest
<1>3. PICK days \in Int : days = t \div 86400
  OBVIOUS
<1>4. t < days * 86400 + 86400
  BY <1>3, SMT
<1>5. days >= -32044 - 2440588
  BY <1>2, <1>4, SMT
<1>6. QED
  BY <1>1, <1>3, <1>5, SMT DEF HasDate

LEMMA OffsetInForce ==
  ASSUME NEW z, IsUsable(z), NEW u \in Int
  PROVE  OffsetAt(z, u) \in Int /\ OffsetAt(z, u) >= Lowest
<1>1. IsZone(z)
  BY DEF IsUsable
<1>2. PICK n \in Nat : n = Len(z.transitions)
  BY <1>1 DEF IsZone
<1>3. PICK i \in Nat : i <= n /\ InSegment(z, i, u)
  BY <1>1, <1>2, SegmentExists
<1>4. OffsetAt(z, u) = OffsetOf(z, i)
  BY <1>1, <1>2, <1>3, OffsetAtIs
<1>5. PICK k \in DOMAIN z.localTimes : OffsetOf(z, i) = z.localTimes[k].utcOffset
  <2>1. CASE i = 0
    <3>1. 1 \in DOMAIN z.localTimes
      BY <1>1 DEF IsZone
    <3>2. QED
      BY <2>1, <3>1 DEF OffsetOf
  <2>2. CASE i > 0
    <3>1. i \in 1 .. n
      BY <1>3, <2>2
    <3>2. z.transitions[i].idx \in DOMAIN z.localTimes
      BY <1>1, <1>2, <3>1 DEF IsZone
    <3>3. OffsetOf(z, i) = z.localTimes[z.transitions[i].idx].utcOffset
      BY <2>2 DEF OffsetOf, LocalTimeAt
    <3>4. QED
      BY <3>2, <3>3
  <2>3. QED
    BY <2>1, <2>2
<1>6. z.localTimes[k].utcOffset >= Lowest
  BY DEF IsUsable
<1>7. OffsetOf(z, i) \in Int
  BY <1>1, <1>2, <1>3, ZoneType
<1>8. QED
  BY <1>4, <1>5, <1>6, <1>7

(* The instants that the run reaches, and the one before. *)
LEMMA InstantRead ==
  ASSUME InputInv, input.kind = "instant"
  PROVE  /\ input.zone \in Zones
         /\ \A u \in {input.utc - 1, input.utc} : u \in Int /\ u >= Earliest
<1>1. InstantInput
  BY DEF InputInv, YearInput, NumberInput
<1>2. PICK z \in Zones, u \in Int, v \in Int :
        u >= -1000000000 /\ input = [kind |-> "instant", zone |-> z, utc |-> u, until |-> v]
  BY <1>1 DEF InstantInput
<1>3. input.zone = z /\ input.utc = u
  BY <1>2
<1>4. u >= Earliest /\ u - 1 \in Int /\ u - 1 >= Earliest
  BY <1>2, SMT DEF Earliest
<1>5. QED
  BY <1>3, <1>4

(* Of every instant of the walk, and of the second before it, the local time*)
(* that toLocalTime() gives reads back as an instant at which the zone shows*)
(* it, whatever the value of post_transition.                               *)
THEOREM LocalTimesInvertInvariance == Spec => []LocalTimesInvert
<1>1. InputInv => LocalTimesInvert
  <2> SUFFICES ASSUME InputInv, input.kind = "instant",
                      NEW u \in {input.utc - 1, input.utc}
               PROVE  LET z == input.zone
                          local == u + OffsetAt(z, u)
                      IN  /\ ToLocalTime(z, u) = [dateTime |-> BreakTime(local), utcOffset |-> OffsetAt(z, u)]
                          /\ \A post \in BOOLEAN :
                               FromLocalTime(z, BreakTime(local), post) \in InstantsOf(z, local)
    BY Zenon DEF LocalTimesInvert
  <2>1. PICK z \in Zones : z = input.zone
    BY InstantRead
  <2>2. u \in Int /\ u >= Earliest
    BY InstantRead
  <2>3. IsUsable(z)
    BY ZonesUsable
  <2>4. PICK o \in Int : o = OffsetAt(z, u) /\ o >= Lowest
    BY <2>2, <2>3, OffsetInForce
  <2>5. PICK local \in Int : local = u + OffsetAt(z, u) /\ HasDate(local)
    BY <2>2, <2>4, RecentHasDate
  <2>6. IsZone(z) /\ IsSpaced(z)
    BY <2>3 DEF IsUsable
  <2>7. /\ ToLocalTime(z, u) = [dateTime |-> BreakTime(local), utcOffset |-> OffsetAt(z, u)]
        /\ \A post \in BOOLEAN :
             FromLocalTime(z, BreakTime(local), post) \in InstantsOf(z, local)
    BY <2>2, <2>5, <2>6, LocalTimeInverts
  <2>8. QED
    BY <2>1, <2>5, <2>7, Zenon
<1>2. QED
  BY <1>1, InputInvariance, PTL

(* The two values of post_transition give the two instants of a local time  *)
(* that occurs twice, in their order, and the two instants around the       *)
(* transition of one that is skipped, except at the ends of the table.      *)
THEOREM LocalTimeChooses ==
  ASSUME NEW z, IsZone(z), IsSpaced(z), NEW local \in Int, HasDate(local)
  PROVE  Chooses(z, local)
<1>1. PICK n \in Nat : n = Len(z.transitions)
  BY DEF IsZone
<1>2. PICK utc : utc = UtcTimes(z)
  OBVIOUS
<1>3. Len(utc) = n /\ \A i \in 1 .. n : utc[i] = UtcAt(z, i)
  BY <1>1, <1>2, ZoneType
<1>4. PICK is : is = InstantsOf(z, local)
  OBVIOUS
<1> DEFINE pre  == FromLocalTime(z, BreakTime(local), FALSE)
           post == FromLocalTime(z, BreakTime(local), TRUE)
<1>5. ASSUME NEW i \in 2 .. n - 1, NEW u \in is, NEW v \in is, u < utc[i], utc[i] <= v
      PROVE  is = {pre, post} /\ pre < post
  <2>1. i \in 1 .. n
    OBVIOUS
  <2>2. utc[i] = UtcAt(z, i)
    BY <1>3, <2>1
  <2>3. u < UtcAt(z, i) /\ UtcAt(z, i) <= v
    BY <1>5, <2>2
  <2>4. QED
    BY <1>1, <1>4, <2>3, RepeatedTime
<1>6. ASSUME is = {}, n > 0, local >= LocalTimes(z)[1]
      PROVE  \E i \in 2 .. n : post < utc[i] /\ utc[i] <= pre
  <2>1. 1 \in 1 .. n
    BY <1>6
  <2>2. LocalTimes(z)[1] = LocalAt(z, 1) /\ LocalAt(z, 1) \in Int
    BY <1>1, <2>1, ZoneType
  <2>3. LocalAt(z, 1) <= local
    BY <1>6, <2>2
  <2>4. PICK i \in 2 .. n : post < UtcAt(z, i) /\ UtcAt(z, i) <= pre
    BY <1>1, <1>4, <1>6, <2>3, SkippedTime
  <2>5. i \in 1 .. n
    OBVIOUS
  <2>6. QED
    BY <1>3, <2>4, <2>5
<1> HIDE DEF pre, post
<1>7. QED
  BY <1>2, <1>3, <1>4, <1>5, <1>6, Zenon DEF Chooses, pre, post

(* The local times that are read in the walk are chosen so.                 *)
THEOREM PostTransitionChoosesInvariance == Spec => []PostTransitionChooses
<1>1. InputInv => PostTransitionChooses
  <2> SUFFICES ASSUME InputInv, input.kind = "instant",
                      NEW u \in {input.utc - 1, input.utc},
                      NEW k \in DOMAIN input.zone.localTimes
               PROVE  Chooses(input.zone, u + input.zone.localTimes[k].utcOffset)
    BY DEF PostTransitionChooses
  <2>1. PICK z \in Zones : z = input.zone
    BY InstantRead
  <2>2. IsUsable(z) /\ IsZone(z) /\ IsSpaced(z)
    BY ZonesUsable DEF IsUsable
  <2>3. u \in Int /\ u >= Earliest
    BY InstantRead
  <2>4. PICK o \in Int : o = z.localTimes[k].utcOffset /\ o >= Lowest
    BY <2>1, <2>2 DEF IsUsable, IsZone
  <2>5. PICK local \in Int : local = u + o /\ HasDate(local)
    BY <2>3, <2>4, RecentHasDate
  <2>6. Chooses(z, local)
    BY <2>2, <2>5, LocalTimeChooses
  <2>7. QED
    BY <2>1, <2>4, <2>5, <2>6
<1>2. QED
  BY <1>1, InputInvariance, PTL
-----------------------------------------------------------------------------
(* The digits of integers.                                                  *)

Abs(i) == IF i >= 0 THEN i ELSE -i

(* The digit that the loops of convert() and convertHex() store first. *)
Unit(i, b) == Digit(i - b * Toward0(i, b), b)

Divides(i, b, rest, lsd) ==
  /\ rest = Toward0(i, b) /\ lsd = i - b * rest
  /\ -b < lsd /\ lsd < b
  /\ Abs(i) = Abs(rest) * b + Abs(lsd)
  /\ rest # 0 => Abs(rest) < Abs(i)
  /\ i >= 0 => rest >= 0 /\ lsd >= 0

LEMMA DivisionStep ==
  ASSUME NEW i \in Int, NEW b \in {10, 16}
  PROVE  \E rest, lsd \in Int : Divides(i, b, rest, lsd)
<1>0. PICK rest : rest = Toward0(i, b)
  OBVIOUS
<1> DEFINE lsd == i - b * rest
<1> SUFFICES rest \in Int /\ lsd \in Int /\ Divides(i, b, rest, lsd)
  OBVIOUS
<1> USE <1>0 DEF Divides
<1>1. CASE b = 10
  <2>1. CASE i >= 0
    <3>1. rest = i \div 10
      BY <1>1, <2>1 DEF Toward0
    <3>2. QED
      BY <1>1, <2>1, <3>1, SMT DEF Abs
  <2>2. CASE i < 0
    <3>1. PICK k \in Nat : k = -i
      BY <2>2
    <3>2. PICK q \in Nat : q = k \div 10
      BY <3>1
    <3>3. rest = -q
      BY <1>1, <2>2, <3>1, <3>2 DEF Toward0
    <3>4. QED
      BY <1>1, <2>2, <3>1, <3>2, <3>3, SMT DEF Abs
  <2>3. QED
    BY <2>1, <2>2
<1>2. CASE b = 16
  <2>1. CASE i >= 0
    <3>1. rest = i \div 16
      BY <1>2, <2>1 DEF Toward0
    <3>2. QED
      BY <1>2, <2>1, <3>1, SMT DEF Abs
  <2>2. CASE i < 0
    <3>1. PICK k \in Nat : k = -i
      BY <2>2
    <3>2. PICK q \in Nat : q = k \div 16
      BY <3>1
    <3>3. rest = -q
      BY <1>2, <2>2, <3>1, <3>2 DEF Toward0
    <3>4. QED
      BY <1>2, <2>2, <3>1, <3>2, <3>3, SMT DEF Abs
  <2>3. QED
    BY <2>1, <2>2
<1>3. QED
  BY <1>1, <1>2

(* A digit of either sign is stored as its absolute value. *)
LEMMA DigitIs ==
  ASSUME NEW b \in {10, 16}, NEW lsd \in Int, -b < lsd, lsd < b
  PROVE  /\ Digit(lsd, b) \in Int
         /\ b = 10 \/ lsd >= 0 => Digit(lsd, b) = Abs(lsd)
<1>1. CASE b = 16
  BY <1>1 DEF Digit, Abs
<1>2. CASE b = 10
  <2>1. PICK k \in 1 .. 19 : k = lsd + 10
    BY <1>2
  <2>2. Digit(lsd, b) = <<9, 8, 7, 6, 5, 4, 3, 2, 1, 0, 1, 2, 3, 4, 5, 6, 7, 8, 9>>[k]
    BY <1>2, <2>1 DEF Digit
  <2>3. \A j \in 1 .. 19 :
          <<9, 8, 7, 6, 5, 4, 3, 2, 1, 0, 1, 2, 3, 4, 5, 6, 7, 8, 9>>[j] = Abs(j - 10)
    BY DEF Abs
  <2>4. Digit(lsd, b) = Abs(k - 10) /\ k - 10 = lsd
    BY <2>1, <2>2, <2>3
  <2>5. QED
    BY <2>4 DEF Abs
<1>3. QED
  BY <1>1, <1>2

LEMMA UnitIs ==
  ASSUME NEW i \in Int, NEW b \in {10, 16}
  PROVE  /\ Unit(i, b) \in Int
         /\ b = 10 \/ i >= 0 => /\ Unit(i, b) \in Nat
                                /\ Abs(i) = Abs(Toward0(i, b)) * b + Unit(i, b)
<1>1. PICK rest \in Int, lsd \in Int : Divides(i, b, rest, lsd)
  BY DivisionStep
<1> USE <1>1 DEF Divides
<1>3. Unit(i, b) = Digit(lsd, b)
  BY DEF Unit
<1>4. lsd \in Int /\ -b < lsd /\ lsd < b /\ (i >= 0 => lsd >= 0)
      /\ Abs(i) = Abs(rest) * b + Abs(lsd)
  OBVIOUS
<1>5. Abs(lsd) \in Nat
  BY <1>4 DEF Abs
<1>6. Digit(lsd, b) \in Int /\ (b = 10 \/ lsd >= 0 => Digit(lsd, b) = Abs(lsd))
  BY <1>4, DigitIs
<1>7. QED
  BY <1>1, <1>3, <1>4, <1>5, <1>6

(* The function by which Stored is defined. *)
Stores(f, b) ==
  f = [i \in Int |-> <<Unit(i, b)>> \o (IF Toward0(i, b) = 0 THEN <<>> ELSE f[Toward0(i, b)])]

LEMMA StoresExists ==
  ASSUME NEW b \in {10, 16}
  PROVE  \E f : Stores(f, b) /\ f \in [Int -> Seq(Int)]
<1> DEFINE V == [Int -> Seq(Int)]
           More(i, s) == <<Unit(i, b)>> \o (IF Toward0(i, b) = 0 THEN <<>> ELSE s)
           none == [i \in Int |-> <<>>]
           step == [g \in V |-> [i \in Int |-> More(i, g[Toward0(i, b)])]]
<1>1. \A i \in Int : /\ Toward0(i, b) \in Int
                     /\ Abs(i) \in Nat /\ Abs(Toward0(i, b)) \in Nat
                     /\ Toward0(i, b) # 0 => Abs(Toward0(i, b)) < Abs(i)
  <2>1. \A i \in Int : Abs(i) \in Nat
    BY DEF Abs
  <2>2. \A i \in Int : Toward0(i, b) \in Int /\ (Toward0(i, b) # 0 => Abs(Toward0(i, b)) < Abs(i))
    BY DivisionStep DEF Divides
  <2>3. QED
    BY <2>1, <2>2
<1>2. \A i \in Int, s \in Seq(Int) : More(i, s) \in Seq(Int)
  <2>1. TAKE i \in Int, s \in Seq(Int)
  <2>2. PICK d \in Int : d = Unit(i, b)
    BY UnitIs
  <2>3. <<d>> \in Seq(Int) /\ <<>> \in Seq(Int)
    OBVIOUS
  <2>4. \A t \in Seq(Int) : <<d>> \o t \in Seq(Int)
    BY <2>3
  <2>5. QED
    BY <2>2, <2>3, <2>4
<1>3. \A i, s, t : Toward0(i, b) = 0 => More(i, s) = More(i, t)
  OBVIOUS
<1> HIDE DEF More
<1>4. none \in V /\ step \in [V -> V]
  BY <1>1, <1>2
<1>5. \A g \in V, i \in Int : step[g][i] = More(i, g[Toward0(i, b)])
  OBVIOUS
<1> HIDE DEF none, step
<1>6. PICK F : Iterates(F, V, none, step)
  <2> HIDE DEF V
  <2>1. QED
    BY <1>4, IterationExists
<1>7. \A n \in Nat : F[n] \in V /\ F[n + 1] = step[F[n]]
  BY <1>6 DEF Iterates
<1>8. \A n \in Nat, i \in Int : F[n + 1][i] = More(i, F[n][Toward0(i, b)])
  <2>1. TAKE n \in Nat, i \in Int
  <2>2. PICK g \in V : g = F[n]
    BY <1>7
  <2>3. step[g][i] = More(i, g[Toward0(i, b)])
    BY <1>5
  <2>4. QED
    BY <1>7, <2>2, <2>3
<1> DEFINE P == {n \in Nat : \A i \in Int : Abs(i) < n => F[n + 1][i] = F[n][i]}
<1>9. Nat \subseteq P
  <2>1. 0 \in P
    BY <1>1
  <2>2. ASSUME NEW n \in Nat, n \in P
        PROVE  n + 1 \in P
    <3>1. ASSUME NEW i \in Int, Abs(i) < n + 1
          PROVE  F[(n + 1) + 1][i] = F[n + 1][i]
      <4>1. /\ F[(n + 1) + 1][i] = More(i, F[n + 1][Toward0(i, b)])
            /\ F[n + 1][i] = More(i, F[n][Toward0(i, b)])
        BY <1>8
      <4>2. CASE Toward0(i, b) = 0
        BY <1>3, <4>1, <4>2
      <4>3. CASE Toward0(i, b) # 0
        <5>1. Abs(Toward0(i, b)) < n
          BY <1>1, <3>1, <4>3
        <5>2. F[n + 1][Toward0(i, b)] = F[n][Toward0(i, b)]
          BY <1>1, <2>2, <5>1
        <5>3. QED
          BY <4>1, <5>2
      <4>4. QED
        BY <4>2, <4>3
    <3>2. QED
      BY <3>1
  <2> HIDE DEF P
  <2>3. QED
    BY <2>1, <2>2, SetInduction
<1>10. \A i \in Int, n \in Nat : Abs(i) < n => F[n][i] = F[Abs(i) + 1][i]
  <2>1. TAKE i \in Int
  <2>2. PICK a \in Nat : a = Abs(i)
    BY <1>1
  <2> DEFINE Q == {n \in Nat : a < n => F[n][i] = F[a + 1][i]}
  <2>3. 0 \in Q
    OBVIOUS
  <2>4. ASSUME NEW n \in Nat, n \in Q
        PROVE  n + 1 \in Q
    <3>1. CASE a < n
      <4>1. F[n + 1][i] = F[n][i]
        BY <1>9, <2>2, <3>1
      <4>2. QED
        BY <2>4, <3>1, <4>1
    <3>2. CASE ~ (a < n)
      BY <3>2
    <3>3. QED
      BY <3>1, <3>2
  <2> HIDE DEF Q
  <2>5. Nat \subseteq Q
    BY <2>3, <2>4, SetInduction
  <2>6. QED
    BY <2>2, <2>5 DEF Q
<1> HIDE DEF P
<1>11. PICK f : f = [i \in Int |-> F[Abs(i) + 1][i]]
  OBVIOUS
<1>12. f \in V
  <2>1. \A i \in Int : F[Abs(i) + 1][i] \in Seq(Int)
    <3>1. TAKE i \in Int
    <3>2. PICK n \in Nat : n = Abs(i) + 1
      BY <1>1
    <3>3. F[n] \in V
      BY <1>7
    <3>4. QED
      BY <3>2, <3>3
  <2>2. QED
    BY <1>11, <2>1
<1>13. ASSUME NEW i \in Int
       PROVE  f[i] = More(i, f[Toward0(i, b)])
  <2>1. f[i] = More(i, F[Abs(i)][Toward0(i, b)])
    BY <1>1, <1>8, <1>11
  <2>2. CASE Toward0(i, b) = 0
    BY <1>3, <2>1, <2>2
  <2>3. CASE Toward0(i, b) # 0
    <3>1. F[Abs(i)][Toward0(i, b)] = F[Abs(Toward0(i, b)) + 1][Toward0(i, b)]
      BY <1>1, <1>10, <2>3
    <3>2. f[Toward0(i, b)] = F[Abs(Toward0(i, b)) + 1][Toward0(i, b)]
      BY <1>1, <1>11
    <3>3. QED
      BY <2>1, <3>1, <3>2
  <2>4. QED
    BY <2>2, <2>3
<1>14. f = [i \in Int |-> More(i, f[Toward0(i, b)])]
  BY <1>12, <1>13
<1>15. QED
  BY <1>12, <1>14 DEF Stores, More

(* The digits of an integer: the last one, after those of the quotient. *)
LEMMA StoredIs ==
  ASSUME NEW i \in Int, NEW b \in {10, 16}
  PROVE  /\ Toward0(i, b) \in Int
         /\ Stored(i, b) = <<Unit(i, b)>> \o
              (IF Toward0(i, b) = 0 THEN <<>> ELSE Stored(Toward0(i, b), b))
<1>1. PICK g : g = CHOOSE f : Stores(f, b)
  OBVIOUS
<1>2. \A j : Stored(j, b) = g[j]
  BY <1>1, Zenon DEF Stored, Stores, Unit
<1>3. Stores(g, b)
  BY <1>1, StoresExists
<1>5. PICK r \in Int : r = Toward0(i, b)
  BY DivisionStep DEF Divides
<1>6. g[i] = <<Unit(i, b)>> \o (IF Toward0(i, b) = 0 THEN <<>> ELSE g[Toward0(i, b)])
  BY <1>3, Zenon DEF Stores
<1>7. QED
  BY <1>2, <1>5, <1>6

LEMMA ReverseCons ==
  ASSUME NEW T, NEW d \in T, NEW s \in Seq(T)
  PROVE  Reverse(<<d>> \o s) = Append(Reverse(s), d)
<1>1. PICK n \in Nat : n = Len(s)
  BY LenProperties
<1> DEFINE t == <<d>> \o s
           r == Reverse(s)
<1>2. Len(t) = n + 1 /\ t[1] = d /\ \A i \in 1 .. n : t[i + 1] = s[i]
  <2>1. <<d>> \in Seq(T) /\ Len(<<d>>) = 1 /\ <<d>>[1] = d
    OBVIOUS
  <2>2. /\ Len(t) = 1 + n
        /\ \A i \in 1 .. 1 + n : t[i] = IF i <= 1 THEN <<d>>[i] ELSE s[i - 1]
    BY <1>1, <2>1, ConcatProperties
  <2> HIDE DEF t
  <2>3. \A i \in 1 .. n : t[i + 1] = s[i]
    <3>1. TAKE i \in 1 .. n
    <3>2. PICK k \in 1 .. 1 + n : k = i + 1 /\ ~(k <= 1) /\ k - 1 = i
      OBVIOUS
    <3>3. t[k] = s[k - 1]
      BY <2>2, <3>2
    <3>4. QED
      BY <3>2, <3>3
  <2>4. t[1] = <<d>>[1]
    BY <2>2
  <2>5. QED
    BY <2>1, <2>2, <2>3, <2>4
<1>3. /\ r \in Seq(T) /\ Len(r) = n
      /\ \A i \in 1 .. n : r[i] = s[(n - i) + 1]
  <2>1. r = [i \in 1 .. n |-> s[(n - i) + 1]]
    BY <1>1 DEF Reverse
  <2>2. \A i \in 1 .. n : s[(n - i) + 1] \in T
    <3>1. TAKE i \in 1 .. n
    <3>2. (n - i) + 1 \in 1 .. n
      OBVIOUS
    <3>3. QED
      BY <1>1, <3>2, ElementOfSeq
  <2>3. r \in [1 .. n -> T]
    BY <2>1, <2>2
  <2>4. QED
    BY <2>1, <2>3, SeqDef, LenProperties
<1>4. /\ Append(r, d) \in Seq(T) /\ Len(Append(r, d)) = n + 1
      /\ \A i \in 1 .. n : Append(r, d)[i] = r[i]
      /\ Append(r, d)[n + 1] = d
  <2> HIDE DEF r
  <2>1. QED
    BY <1>3, AppendProperties
<1>5. Reverse(t) = [i \in 1 .. n + 1 |-> t[((n + 1) - i) + 1]]
  BY <1>2 DEF Reverse
<1> HIDE DEF t, r
<1>6. \A i \in 1 .. n + 1 : t[((n + 1) - i) + 1] = Append(r, d)[i]
  <2>1. TAKE i \in 1 .. n + 1
  <2>2. CASE i = n + 1
    <3>1. ((n + 1) - i) + 1 = 1
      BY <2>2
    <3>2. QED
      BY <1>2, <1>4, <2>2, <3>1
  <2>3. CASE i # n + 1
    <3>1. PICK k \in 1 .. n : k = (n - i) + 1
      BY <2>3
    <3>2. i \in 1 .. n /\ ((n + 1) - i) + 1 = k + 1
      BY <2>3, <3>1
    <3>3. t[k + 1] = s[k]
      BY <1>2, <3>1
    <3>4. QED
      BY <1>3, <1>4, <3>1, <3>2, <3>3
  <2>4. QED
    BY <2>2, <2>3
<1>7. Append(r, d) = [i \in 1 .. n + 1 |-> Append(r, d)[i]]
  BY <1>4, LenProperties
<1>8. Reverse(t) = Append(r, d)
  BY <1>5, <1>6, <1>7
<1>9. QED
  BY <1>8 DEF t, r

LEMMA ReverseType ==
  ASSUME NEW T, NEW s \in Seq(T)
  PROVE  Reverse(s) \in Seq(T) /\ Len(Reverse(s)) = Len(s)
<1>1. PICK n \in Nat : n = Len(s)
  BY LenProperties
<1>2. Reverse(s) = [i \in 1 .. n |-> s[(n - i) + 1]]
  BY <1>1 DEF Reverse
<1>3. \A i \in 1 .. n : s[(n - i) + 1] \in T
  <2>1. TAKE i \in 1 .. n
  <2>2. (n - i) + 1 \in 1 .. n
    OBVIOUS
  <2>3. QED
    BY <1>1, <2>2, ElementOfSeq
<1>4. Reverse(s) \in [1 .. n -> T]
  BY <1>2, <1>3
<1>5. QED
  BY <1>1, <1>4, SeqDef, LenProperties

(* The function by which Reads is defined. *)
Accumulates(f, t, b) ==
  f = [i \in 0 .. Len(t) |-> IF i = 0 THEN 0 ELSE f[i - 1] * b + t[i]]

LEMMA ReadsIs ==
  ASSUME NEW b \in {10, 16}, NEW t \in Seq(Int)
  PROVE  \E f : Accumulates(f, t, b) /\ Reads(t, b) = f[Len(t)]
<1>1. PICK n \in Nat : n = Len(t)
  BY LenProperties
<1>2. \A i \in 1 .. n : t[i] \in Int
  BY <1>1, ElementOfSeq
<1> DEFINE step == [p \in Int \X (1 .. n) |-> p[1] * b + t[p[2]]]
<1>3. \A v \in Int, i \in 1 .. n : step[<<v, i>>] = v * b + t[i]
  OBVIOUS
<1>4. step \in [Int \X (1 .. n) -> Int]
  <2>1. \A v \in Int, i \in 1 .. n : v * b + t[i] \in Int
    BY <1>2
  <2>2. QED
    BY <2>1
<1> HIDE DEF step
<1>5. PICK h : Recurses(h, Int, 0, step, n)
  <2>1. 0 \in Int
    OBVIOUS
  <2>2. QED
    BY <1>4, <2>1, RecursionExists, Zenon
<1>6. h = [i \in 0 .. n |-> IF i = 0 THEN 0 ELSE h[i - 1] * b + t[i]]
  <2>1. ASSUME NEW i \in 0 .. n, i # 0
        PROVE  h[i] = h[i - 1] * b + t[i]
    <3>1. i \in 1 .. n /\ i - 1 \in 0 .. n
      BY <2>1
    <3>2. h[i - 1] \in Int /\ h[i] = step[<<h[i - 1], i>>]
      BY <1>5, <3>1 DEF Recurses
    <3>3. QED
      BY <1>3, <3>1, <3>2
  <2>2. h \in [0 .. n -> Int] /\ h[0] = 0
    BY <1>5 DEF Recurses
  <2>3. QED
    BY <2>1, <2>2, Zenon
<1>7. Accumulates(h, t, b)
  BY <1>1, <1>6 DEF Accumulates
<1>8. QED
  BY <1>7 DEF Reads, Accumulates

LEMMA ReadsEmpty ==
  ASSUME NEW b \in {10, 16}
  PROVE  Reads(<<>>, b) = 0
<1>1. <<>> \in Seq(Int) /\ Len(<<>>) = 0
  BY EmptySeq
<1>2. PICK f : Accumulates(f, <<>>, b) /\ Reads(<<>>, b) = f[0]
  BY <1>1, ReadsIs
<1>3. QED
  BY <1>1, <1>2 DEF Accumulates

LEMMA ReadsAppend ==
  ASSUME NEW b \in {10, 16}, NEW s \in Seq(Int), NEW e \in Int
  PROVE  Reads(Append(s, e), b) = Reads(s, b) * b + e
<1>1. PICK n \in Nat : n = Len(s)
  BY LenProperties
<1> DEFINE t == Append(s, e)
<1>2. /\ t \in Seq(Int) /\ Len(t) = n + 1
      /\ \A i \in 1 .. n : t[i] = s[i]
      /\ t[n + 1] = e
  BY <1>1, AppendProperties
<1> HIDE DEF t
<1>3. PICK g : Accumulates(g, t, b) /\ Reads(t, b) = g[n + 1]
  BY <1>2, ReadsIs
<1>4. PICK f : Accumulates(f, s, b) /\ Reads(s, b) = f[n]
  BY <1>1, ReadsIs
<1>5. g[0] = 0 /\ \A i \in 1 .. n + 1 : g[i] = g[i - 1] * b + t[i]
  BY <1>2, <1>3 DEF Accumulates
<1>6. f[0] = 0 /\ \A i \in 1 .. n : f[i] = f[i - 1] * b + s[i]
  <2>1. f = [i \in 0 .. n |-> IF i = 0 THEN 0 ELSE f[i - 1] * b + s[i]]
    BY <1>1, <1>4, Zenon DEF Accumulates
  <2>2. QED
    BY <2>1
<1> DEFINE P == {k \in Nat : k <= n => g[k] = f[k]}
<1>7. 0 \in P
  BY <1>5, <1>6
<1>8. ASSUME NEW k \in Nat, k \in P
      PROVE  k + 1 \in P
  <2>1. CASE k + 1 <= n
    <3>1. k + 1 \in 1 .. n /\ k + 1 \in 1 .. n + 1 /\ (k + 1) - 1 = k
      BY <2>1
    <3>2. g[k + 1] = g[k] * b + t[k + 1] /\ f[k + 1] = f[k] * b + s[k + 1]
      BY <1>5, <1>6, <3>1, Zenon
    <3>3. g[k] = f[k] /\ t[k + 1] = s[k + 1]
      BY <1>2, <1>8, <2>1, <3>1
    <3>4. QED
      BY <3>2, <3>3
  <2>2. CASE ~ (k + 1 <= n)
    BY <2>2
  <2>3. QED
    BY <2>1, <2>2
<1> HIDE DEF P
<1>9. Nat \subseteq P
  BY <1>7, <1>8, SetInduction
<1>10. g[n] = f[n]
  BY <1>9 DEF P
<1>11. g[n + 1] = g[n] * b + t[n + 1]
  <2>1. n + 1 \in 1 .. n + 1 /\ (n + 1) - 1 = n
    OBVIOUS
  <2>2. QED
    BY <1>5, <2>1, Zenon
<1>12. QED
  BY <1>2, <1>3, <1>4, <1>10, <1>11 DEF t

(* t are digits of n, without a leading zero. *)
Writes(t, n, b) ==
  /\ t \in Seq(Int) /\ Len(t) >= 1
  /\ Reads(t, b) = n
  /\ t[1] = 0 => n = 0

(* The loops of convert() and convertHex() store the digits of the absolute *)
(* value of every integer (convertHex() is called for no negative one).     *)
THEOREM DigitsReadBack ==
  ASSUME NEW i \in Int, NEW b \in {10, 16}, b = 10 \/ i >= 0
  PROVE  Writes(Reverse(Stored(i, b)), Abs(i), b)
<1> DEFINE Good(j) == /\ Stored(j, b) \in Seq(Int)
                      /\ Writes(Reverse(Stored(j, b)), Abs(j), b)
           P == {n \in Nat : \A j \in Int : (b = 10 \/ j >= 0) /\ Abs(j) < n => Good(j)}
<1>1. \A j \in Int : Abs(j) \in Nat
  BY DEF Abs
<1>2. 0 \in P
  BY <1>1
<1>3. ASSUME NEW n \in Nat, n \in P
      PROVE  n + 1 \in P
  <2>1. ASSUME NEW j \in Int, b = 10 \/ j >= 0, Abs(j) < n + 1
        PROVE  Good(j)
    <3>1. PICK rest \in Int : rest = Toward0(j, b)
      BY StoredIs
    <3>2. PICK d \in Nat : d = Unit(j, b) /\ Abs(j) = Abs(rest) * b + d
      BY <2>1, <3>1, UnitIs
    <3>3. Stored(j, b) = <<d>> \o (IF rest = 0 THEN <<>> ELSE Stored(rest, b))
      BY <3>1, <3>2, StoredIs
    <3>4. ASSUME NEW s \in Seq(Int), Stored(j, b) = <<d>> \o s, Reads(Reverse(s), b) = Abs(rest),
                 s = <<>> \/ (Len(s) >= 1 /\ Reverse(s)[1] # 0), s = <<>> => rest = 0
          PROVE  Good(j)
      <4>1. PICK r \in Seq(Int) : r = Reverse(s) /\ Len(r) = Len(s)
        BY ReverseType
      <4>2. PICK t \in Seq(Int) : t = Append(r, d) /\ Len(t) = Len(r) + 1
        <5>1. d \in Int
          OBVIOUS
        <5>2. QED
          BY <4>1, <5>1, AppendProperties
      <4>3. Reverse(Stored(j, b)) = t
        <5>1. d \in Int
          OBVIOUS
        <5>2. Reverse(<<d>> \o s) = Append(Reverse(s), d)
          BY <5>1, ReverseCons
        <5>3. QED
          BY <3>4, <4>1, <4>2, <5>2, Zenon
      <4>4. Reads(t, b) = Abs(j)
        <5>1. Reads(t, b) = Reads(r, b) * b + d
          BY <4>2, ReadsAppend
        <5>2. QED
          BY <3>2, <3>4, <4>1, <5>1
      <4>5. t[1] = 0 => Abs(j) = 0
        <5>1. CASE s = <<>>
          <6>1. Len(r) = 0
            BY <4>1, <5>1
          <6>2. t[1] = d
            BY <4>2, <6>1, AppendProperties
          <6>3. Abs(j) = d
            BY <3>2, <3>4, <5>1 DEF Abs
          <6>4. QED
            BY <6>2, <6>3
        <5>2. CASE Len(s) >= 1 /\ Reverse(s)[1] # 0
          <6>1. 1 \in 1 .. Len(r)
            BY <4>1, <5>2, LenProperties
          <6>2. t[1] = r[1]
            BY <4>2, <6>1, AppendProperties
          <6>3. QED
            BY <4>1, <5>2, <6>2
        <5>3. QED
          BY <3>4, <5>1, <5>2
      <4>6. Len(t) >= 1
        BY <4>1, <4>2, LenProperties
      <4>7. Stored(j, b) \in Seq(Int)
        BY <3>4
      <4>8. QED
        BY <4>2, <4>3, <4>4, <4>5, <4>6, <4>7 DEF Writes
    <3>5. CASE rest = 0
      <4>1. Stored(j, b) = <<d>> \o <<>> /\ <<>> \in Seq(Int)
        BY <3>3, <3>5
      <4>2. Reverse(<<>>) = <<>>
        <5>1. Reverse(<<>>) \in Seq(Int) /\ Len(Reverse(<<>>)) = Len(<<>>)
          BY <4>1, ReverseType
        <5>2. QED
          BY <5>1, EmptySeq
      <4>3. Reads(Reverse(<<>>), b) = Abs(rest)
        BY <3>5, <4>2, ReadsEmpty DEF Abs
      <4> HIDE DEF Good
      <4>4. PICK s \in Seq(Int) : s = <<>>
        BY <4>1
      <4>5. Stored(j, b) = <<d>> \o s /\ Reads(Reverse(s), b) = Abs(rest)
        BY <4>1, <4>3, <4>4, Zenon
      <4>6. QED
        BY <3>4, <3>5, <4>4, <4>5, Zenon
    <3>6. CASE rest # 0
      <4>1. Abs(rest) < Abs(j) /\ (j >= 0 => rest >= 0)
        BY <3>1, <3>6, DivisionStep DEF Divides
      <4>2. Abs(rest) < n
        BY <1>1, <2>1, <4>1
      <4>3. Good(rest)
        BY <1>3, <2>1, <4>1, <4>2
      <4>4. Stored(j, b) = <<d>> \o Stored(rest, b)
        BY <3>3, <3>6
      <4>5. PICK s \in Seq(Int) : s = Stored(rest, b) /\ Len(Reverse(s)) = Len(s)
        BY <4>3, ReverseType
      <4>6. Len(s) >= 1 /\ Reads(Reverse(s), b) = Abs(rest)
        BY <4>3, <4>5 DEF Writes
      <4>7. Abs(rest) # 0
        BY <3>6 DEF Abs
      <4>8. Reverse(s)[1] # 0
        BY <4>3, <4>5, <4>7 DEF Writes
      <4>9. s # <<>>
        BY <4>6
      <4> HIDE DEF Good
      <4>10. QED
        BY <3>4, <4>4, <4>5, <4>6, <4>8, <4>9
    <3>7. QED
      BY <3>5, <3>6
  <2> HIDE DEF Good
  <2>2. QED
    BY <2>1
<1> HIDE DEF P
<1>4. Nat \subseteq P
  BY <1>2, <1>3, SetInduction
<1>5. PICK n \in Nat : n = Abs(i) + 1 /\ Abs(i) < n
  BY <1>1
<1>6. Good(i)
  <2>1. n \in P
    BY <1>4
  <2> HIDE DEF Good
  <2>2. QED
    BY <1>5, <2>1, Zenon DEF P
<1>7. QED
  BY <1>6

(* The text of every integer reads back as that integer, in decimal with    *)
(* its sign and in hexadecimal, and has no leading zero.                    *)
THEOREM IntegersReadBackInvariance == Spec => []IntegersReadBack
<1>1. InputInv => IntegersReadBack
  <2> SUFFICES ASSUME InputInv, input.kind = "int" PROVE IntegersReadBack
    BY DEF IntegersReadBack
  <2>1. PICK i \in Int : i = input.n
    BY DEF InputInv, YearInput, InstantInput, NumberInput
  <2>2. Writes(Convert(i).text, Abs(i), 10)
    BY DigitsReadBack DEF Convert
  <2>3. i >= 0 => Writes(ConvertHex(i).text, Abs(i), 16)
    BY DigitsReadBack DEF ConvertHex
  <2>4. Abs(i) = IF Convert(i).minus THEN -i ELSE i
    <3>1. Convert(i).minus <=> i < 0
      BY Zenon DEF Convert
    <3>2. Abs(i) = IF i < 0 THEN -i ELSE i
      BY DEF Abs
    <3>3. QED
      BY <3>1, <3>2, Zenon
  <2>5. i >= 0 => Abs(i) = i
    BY DEF Abs
  <2>6. Abs(i) = 0 => i = 0
    BY DEF Abs
  <2>7. QED
    BY <2>1, <2>2, <2>3, <2>4, <2>5, <2>6, Zenon DEF IntegersReadBack, Writes
<1>2. QED
  BY <1>1, InputInvariance, PTL

-----------------------------------------------------------------------------
(* Log statements: a stream after its parts.                                 *)

Names == {"time", "micro", "tid", "level", "string", "errno=", "errno", ")",
          "body", "p", "d", " - ", "name", ":", "line", "newline"}

Streams == [parts : Seq(Names), length : Int]

Parts == [type : {"text", "integer", "pointer", "double"}, name : Names, size : Int]

LEMMA InsertType ==
  ASSUME NEW s \in Streams, NEW p \in Parts
  PROVE  Insert(s, p) \in Streams
<1>1. \A size \in Int : [parts |-> Append(s.parts, p.name), length |-> s.length + size] \in Streams
  <2>1. s.parts \in Seq(Names) /\ s.length \in Int /\ p.name \in Names
    BY DEF Streams, Parts
  <2>2. Append(s.parts, p.name) \in Seq(Names)
    BY <2>1
  <2>3. QED
    BY <2>1, <2>2 DEF Streams
<1>2. Add(s, p) \in Streams
  BY <1>1 DEF Add, Parts
<1>3. Add(s, [p EXCEPT !.size = @ + 2]) \in Streams
  <2>1. PICK q : q = [p EXCEPT !.size = @ + 2]
    OBVIOUS
  <2>2. q.name = p.name /\ q.size \in Int
    BY <2>1 DEF Parts
  <2>3. QED
    BY <1>1, <2>1, <2>2 DEF Add
<1>4. p.type \in {"text", "integer", "pointer", "double"}
  BY DEF Parts
<1>5. QED
  BY <1>2, <1>3, <1>4, Zenon DEF Insert, AppendText, AppendInteger, AppendPointer, AppendDouble

(* The largest element of a set of numbers up to k, and the others. *)
LEMMA MaxIs ==
  ASSUME NEW k \in Nat, NEW S \in SUBSET (1 .. k), S # {}
  PROVE  Max(S) \in S /\ \A x \in S : x <= Max(S)
<1> DEFINE T == {k - x : x \in S}
<1>1. T \subseteq Nat /\ T # {}
  <2>1. \A x \in S : k - x \in Nat
    OBVIOUS
  <2>2. PICK x : x \in S
    OBVIOUS
  <2>3. k - x \in T
    BY <2>2
  <2>4. QED
    BY <2>1, <2>3
<1>2. PICK t \in T : \A u \in T : t <= u
  BY <1>1, SetMin
<1>3. PICK m \in S : t = k - m
  BY <1>2
<1>4. \A x \in S : m >= x
  <2>1. TAKE x \in S
  <2>2. t <= k - x
    BY <1>2
  <2>3. QED
    BY <1>3, <2>2
<1>5. \E m1 \in S : \A x \in S : m1 >= x
  BY <1>3, <1>4
<1>6. Max(S) \in S /\ \A x \in S : Max(S) >= x
  BY <1>5 DEF Max
<1>7. QED
  BY <1>6

(* The function by which InsertAll is defined, as a fold. *)
Inserts(f, s, ps) ==
  f = [S \in SUBSET (DOMAIN ps) |->
         IF S = {} THEN s ELSE Insert(f[S \ {Max(S)}], ps[Max(S)])]

LEMMA InsertsExists ==
  ASSUME NEW s \in Streams, NEW ps \in Seq(Parts)
  PROVE  \E f : Inserts(f, s, ps)
<1>1. PICK n \in Nat : n = Len(ps)
  BY LenProperties
<1>2. DOMAIN ps = 1 .. n /\ \A i \in 1 .. n : ps[i] \in Parts
  BY <1>1, LenProperties, ElementOfSeq
<1> DEFINE Sets == SUBSET (1 .. n)
           V == [Sets -> Streams]
           More(g, S) == IF S = {} THEN s ELSE Insert(g[S \ {Max(S)}], ps[Max(S)])
           none == [S \in Sets |-> s]
           step == [g \in V |-> [S \in Sets |-> More(g, S)]]
<1>3. \A S \in Sets : S # {} => Max(S) \in 1 .. n /\ S \ {Max(S)} \in Sets
  BY MaxIs
<1>4. \A g \in V, S \in Sets : More(g, S) \in Streams
  <2>1. TAKE g \in V, S \in Sets
  <2>2. CASE S = {}
    BY <2>2
  <2>3. CASE S # {}
    <3>1. PICK m \in 1 .. n : m = Max(S) /\ S \ {m} \in Sets
      BY <1>3, <2>3
    <3>2. g[S \ {m}] \in Streams /\ ps[m] \in Parts
      BY <1>2, <3>1
    <3>3. Insert(g[S \ {m}], ps[m]) \in Streams
      BY <3>2, InsertType
    <3>4. QED
      BY <2>3, <3>1, <3>3
  <2>4. QED
    BY <2>2, <2>3
<1>5. \A g, h, S : S = {} \/ g[S \ {Max(S)}] = h[S \ {Max(S)}] => More(g, S) = More(h, S)
  BY Zenon
<1> HIDE DEF More
<1>6. none \in V /\ step \in [V -> V] /\ \A g \in V : step[g] = [S \in Sets |-> More(g, S)]
  BY <1>4
<1> HIDE DEF none, step
<1>7. PICK F : Iterates(F, V, none, step)
  <2> HIDE DEF V
  <2>1. QED
    BY <1>6, IterationExists
<1>8. \A k \in Nat : F[k] \in V /\ F[k + 1] = [S \in Sets |-> More(F[k], S)]
  BY <1>6, <1>7 DEF Iterates
<1>9. \A k \in Nat, S \in Sets : F[k + 1][S] = More(F[k], S)
  <2>1. TAKE k \in Nat, S \in Sets
  <2>2. F[k + 1] = [R \in Sets |-> More(F[k], R)]
    BY <1>8
  <2>3. QED
    BY <2>2, Zenon
<1> DEFINE P == {k \in Nat : \A S \in Sets : S \subseteq 1 .. k => F[(k + 1) + 1][S] = F[k + 1][S]}
<1>10. 0 \in P
  <2>1. ASSUME NEW S \in Sets, S \subseteq 1 .. 0
        PROVE  F[(0 + 1) + 1][S] = F[0 + 1][S]
    <3>1. S = {}
      BY <2>1
    <3>2. PICK one \in Nat : one = 0 + 1
      OBVIOUS
    <3>3. F[one + 1][S] = More(F[one], S)
      BY <1>9
    <3>4. F[0 + 1][S] = More(F[0], S)
      BY <1>9
    <3>5. More(F[one], S) = More(F[0], S)
      BY <1>5, <3>1, Zenon
    <3>6. QED
      BY <3>2, <3>3, <3>4, <3>5
  <2>2. QED
    BY <2>1
<1>11. ASSUME NEW k \in Nat, k \in P
       PROVE  k + 1 \in P
  <2>1. PICK j \in Nat : j = k + 1
    OBVIOUS
  <2>2. ASSUME NEW S \in Sets, S \subseteq 1 .. j
        PROVE  F[(j + 1) + 1][S] = F[j + 1][S]
    <3>1. j + 1 \in Nat
      OBVIOUS
    <3>2. F[(j + 1) + 1][S] = More(F[j + 1], S) /\ F[j + 1][S] = More(F[j], S)
      BY <1>9, <3>1
    <3>3. CASE S = {}
      BY <1>5, <3>2, <3>3, Zenon
    <3>4. CASE S # {}
      <4>1. PICK m \in S : m = Max(S) /\ \A x \in S : x <= m
        BY <2>2, <3>4, MaxIs
      <4>2. S \ {m} \in Sets /\ S \ {m} \subseteq 1 .. k
        <5>1. \A x \in S : x # m => x \in 1 .. k
          BY <2>1, <2>2, <4>1
        <5>2. QED
          BY <5>1
      <4>3. F[(k + 1) + 1][S \ {m}] = F[k + 1][S \ {m}]
        BY <1>11, <4>2
      <4>4. QED
        <5>1. F[j + 1][S \ {m}] = F[j][S \ {m}]
          BY <2>1, <4>3, Zenon
        <5>2. More(F[j + 1], S) = More(F[j], S)
          BY <1>5, <4>1, <5>1, Zenon
        <5>3. QED
          BY <3>2, <5>2, Zenon
    <3>5. QED
      BY <3>3, <3>4
  <2>3. QED
    BY <2>1, <2>2
<1> HIDE DEF P
<1>12. Nat \subseteq P
  BY <1>10, <1>11, SetInduction
<1>13. \A S \in Sets : F[(n + 1) + 1][S] = F[n + 1][S]
  <2>1. n \in P
    BY <1>12
  <2>2. QED
    BY <2>1 DEF P
<1>14. PICK f : f = F[n + 1]
  OBVIOUS
<1>15. f \in V /\ \A S \in Sets : f[S] = More(f, S)
  <2>1. n + 1 \in Nat
    OBVIOUS
  <2>2. QED
    BY <1>8, <1>9, <1>13, <1>14, <2>1
<1>16. f = [S \in Sets |-> More(f, S)]
  BY <1>15
<1>17. Inserts(f, s, ps)
  BY <1>2, <1>16, Zenon DEF Inserts, More
<1>18. QED
  BY <1>17

(* The streams after the first parts. *)
LEMMA InsertAllIs ==
  ASSUME NEW s \in Streams, NEW ps \in Seq(Parts)
  PROVE  \E f : /\ f[0] = s
                /\ \A i \in 1 .. Len(ps) : f[i] = Insert(f[i - 1], ps[i])
                /\ InsertAll(s, ps) = f[Len(ps)]
<1>1. PICK n \in Nat : n = Len(ps)
  BY LenProperties
<1>2. DOMAIN ps = 1 .. n
  BY <1>1, LenProperties
<1>3. InsertAll(s, ps) = (CHOOSE g : Inserts(g, s, ps))[DOMAIN ps]
  BY Zenon DEF InsertAll, FoldLeft, MapThenFoldSet, Inserts
<1>4. PICK g : Inserts(g, s, ps) /\ InsertAll(s, ps) = g[1 .. n]
  BY <1>2, <1>3, InsertsExists
<1>5. \A S \in SUBSET (1 .. n) : g[S] = IF S = {} THEN s ELSE Insert(g[S \ {Max(S)}], ps[Max(S)])
  <2>1. g = [S \in SUBSET (1 .. n) |->
               IF S = {} THEN s ELSE Insert(g[S \ {Max(S)}], ps[Max(S)])]
    BY <1>2, <1>4, Zenon DEF Inserts
  <2>2. QED
    BY <2>1, Zenon
<1>6. PICK f : f = [i \in 0 .. n |-> g[1 .. i]]
  OBVIOUS
<1>7. f[0] = s
  <2>1. f[0] = g[1 .. 0] /\ 1 .. 0 = {} /\ {} \in SUBSET (1 .. n)
    BY <1>6
  <2>2. QED
    BY <1>5, <2>1, Zenon
<1>8. ASSUME NEW i \in 1 .. n
      PROVE  f[i] = Insert(f[i - 1], ps[i])
  <2>1. f[i] = g[1 .. i] /\ f[i - 1] = g[1 .. i - 1]
    BY <1>6
  <2>2. 1 .. i # {} /\ 1 .. i \in SUBSET (1 .. i) /\ 1 .. i \in SUBSET (1 .. n) /\ i \in 1 .. i /\ i \in Nat
    <3>1. \A x \in 1 .. i : x \in 1 .. n
      OBVIOUS
    <3>2. i \in 1 .. i /\ i \in Nat
      OBVIOUS
    <3>3. QED
      BY <3>1, <3>2, Zenon
  <2>3. PICK m \in 1 .. i : m = Max(1 .. i) /\ \A x \in 1 .. i : x <= m
    BY <2>2, MaxIs
  <2>4. m = i
    BY <2>2, <2>3
  <2>5. (1 .. i) \ {i} = 1 .. i - 1
    OBVIOUS
  <2>6. g[1 .. i] = Insert(g[(1 .. i) \ {m}], ps[m])
    BY <1>5, <2>2, <2>3, Zenon
  <2>7. QED
    BY <2>1, <2>4, <2>5, <2>6, Zenon
<1>9. f[n] = g[1 .. n]
  BY <1>6
<1>10. QED
  BY <1>1, <1>4, <1>7, <1>8, <1>9

LEMMA InsertAllEmpty ==
  ASSUME NEW s \in Streams
  PROVE  InsertAll(s, <<>>) = s
<1>1. <<>> \in Seq(Parts) /\ Len(<<>>) = 0
  BY EmptySeq
<1>2. PICK ps \in Seq(Parts) : ps = <<>> /\ Len(ps) = 0
  BY <1>1
<1>3. PICK f : f[0] = s /\ InsertAll(s, ps) = f[Len(ps)]
  BY InsertAllIs
<1>4. QED
  BY <1>2, <1>3

LEMMA InsertAllAppend ==
  ASSUME NEW s \in Streams, NEW ps \in Seq(Parts), NEW p \in Parts
  PROVE  InsertAll(s, Append(ps, p)) = Insert(InsertAll(s, ps), p)
<1>1. PICK n \in Nat : n = Len(ps)
  BY LenProperties
<1> DEFINE qs == Append(ps, p)
<1>2. /\ qs \in Seq(Parts) /\ Len(qs) = n + 1
      /\ \A i \in 1 .. n : qs[i] = ps[i]
      /\ qs[n + 1] = p
  BY <1>1, AppendProperties
<1> HIDE DEF qs
<1>3. PICK g : /\ g[0] = s
               /\ \A i \in 1 .. Len(qs) : g[i] = Insert(g[i - 1], qs[i])
               /\ InsertAll(s, qs) = g[Len(qs)]
  BY <1>2, InsertAllIs
<1>4. PICK f : /\ f[0] = s
               /\ \A i \in 1 .. Len(ps) : f[i] = Insert(f[i - 1], ps[i])
               /\ InsertAll(s, ps) = f[Len(ps)]
  BY InsertAllIs
<1> DEFINE P == {k \in Nat : k <= n => g[k] = f[k]}
<1>5. 0 \in P
  BY <1>3, <1>4
<1>6. ASSUME NEW k \in Nat, k \in P
      PROVE  k + 1 \in P
  <2>1. CASE k + 1 <= n
    <3>1. k + 1 \in 1 .. n /\ k + 1 \in 1 .. n + 1 /\ (k + 1) - 1 = k
      BY <2>1
    <3>2. g[k + 1] = Insert(g[k], qs[k + 1]) /\ f[k + 1] = Insert(f[k], ps[k + 1])
      BY <1>1, <1>2, <1>3, <1>4, <3>1, Zenon
    <3>3. g[k] = f[k] /\ qs[k + 1] = ps[k + 1]
      BY <1>2, <1>6, <2>1, <3>1
    <3>4. QED
      BY <3>2, <3>3
  <2>2. CASE ~ (k + 1 <= n)
    BY <2>2
  <2>3. QED
    BY <2>1, <2>2
<1> HIDE DEF P
<1>7. Nat \subseteq P
  BY <1>5, <1>6, SetInduction
<1>8. g[n] = f[n]
  BY <1>7 DEF P
<1>9. g[n + 1] = Insert(g[n], p)
  <2>1. n + 1 \in 1 .. n + 1 /\ (n + 1) - 1 = n
    OBVIOUS
  <2>2. QED
    BY <1>2, <1>3, <2>1, Zenon
<1>10. QED
  BY <1>1, <1>2, <1>3, <1>4, <1>8, <1>9, Zenon DEF qs

(* What a stream may be after any number of parts of a kind: every property *)
(* that each of them keeps.                                                 *)
LEMMA InsertAllKeeps ==
  ASSUME NEW K, K \subseteq Parts, NEW Kept, Kept \subseteq Streams,
         \A s \in Kept, p \in K : Insert(s, p) \in Kept,
         NEW s0 \in Kept, NEW ps \in Seq(K)
  PROVE  InsertAll(s0, ps) \in Kept
<1> DEFINE P == {qs \in Seq(K) : InsertAll(s0, qs) \in Kept}
<1>1. <<>> \in P
  <2>1. InsertAll(s0, <<>>) = s0
    BY InsertAllEmpty
  <2>2. QED
    BY <2>1
<1>2. ASSUME NEW qs \in Seq(K), qs \in P, NEW p \in K
      PROVE  Append(qs, p) \in P
  <2>1. qs \in Seq(Parts) /\ p \in Parts /\ s0 \in Streams /\ Append(qs, p) \in Seq(K)
    OBVIOUS
  <2>2. InsertAll(s0, Append(qs, p)) = Insert(InsertAll(s0, qs), p)
    BY <2>1, InsertAllAppend
  <2>3. QED
    BY <1>2, <2>1, <2>2
<1> HIDE DEF P
<1>3. ps \in P
  BY <1>1, <1>2, SequenceInduction
<1>4. QED
  BY <1>3 DEF P

LEMMA InsertAllConcat ==
  ASSUME NEW s \in Streams, NEW ps \in Seq(Parts), NEW qs \in Seq(Parts)
  PROVE  InsertAll(s, ps \o qs) = InsertAll(InsertAll(s, ps), qs)
<1>1. InsertAll(s, ps) \in Streams
  BY InsertAllKeeps, InsertType
<1> DEFINE P == {rs \in Seq(Parts) : InsertAll(s, ps \o rs) = InsertAll(InsertAll(s, ps), rs)}
<1>2. <<>> \in P
  <2>1. <<>> \in Seq(Parts) /\ ps \o <<>> = ps
    BY ConcatEmptySeq
  <2>2. InsertAll(InsertAll(s, ps), <<>>) = InsertAll(s, ps)
    BY <1>1, InsertAllEmpty
  <2>3. QED
    BY <2>1, <2>2
<1>3. ASSUME NEW rs \in Seq(Parts), rs \in P, NEW p \in Parts
      PROVE  Append(rs, p) \in P
  <2>1. ps \o rs \in Seq(Parts) /\ ps \o Append(rs, p) = Append(ps \o rs, p)
    BY ConcatAppend
  <2>2. PICK ts \in Seq(Parts) : ts = ps \o rs
    BY <2>1
  <2>3. InsertAll(s, Append(ts, p)) = Insert(InsertAll(s, ts), p)
    BY InsertAllAppend
  <2>4. InsertAll(InsertAll(s, ps), Append(rs, p)) = Insert(InsertAll(InsertAll(s, ps), rs), p)
    BY <1>1, InsertAllAppend
  <2>5. Append(rs, p) \in Seq(Parts)
    OBVIOUS
  <2>6. QED
    BY <1>3, <2>1, <2>2, <2>3, <2>4, <2>5
<1> HIDE DEF P
<1>4. qs \in P
  BY <1>2, <1>3, SequenceInduction
<1>5. QED
  BY <1>4 DEF P

LEMMA InsertOne ==
  ASSUME NEW s \in Streams, NEW p \in Parts
  PROVE  InsertAll(s, <<p>>) = Insert(s, p)
<1>1. <<>> \in Seq(Parts) /\ Append(<<>>, p) = <<p>>
  OBVIOUS
<1>2. InsertAll(s, Append(<<>>, p)) = Insert(InsertAll(s, <<>>), p)
  BY <1>1, InsertAllAppend
<1>3. QED
  BY <1>1, <1>2, InsertAllEmpty

LEMMA InsertFour ==
  ASSUME NEW s \in Streams, NEW p1 \in Parts, NEW p2 \in Parts, NEW p3 \in Parts, NEW p4 \in Parts
  PROVE  InsertAll(s, <<p1, p2, p3, p4>>) = Insert(Insert(Insert(Insert(s, p1), p2), p3), p4)
<1> DEFINE q1 == <<p1>>
           q2 == Append(q1, p2)
           q3 == Append(q2, p3)
<1>1. q1 \in Seq(Parts)
  OBVIOUS
<1>2. q2 \in Seq(Parts)
  BY <1>1
<1>3. q3 \in Seq(Parts)
  BY <1>2
<1>4. <<p1, p2, p3, p4>> = Append(q3, p4)
  OBVIOUS
<1>5. InsertAll(s, q1) = Insert(s, p1)
  BY InsertOne
<1> HIDE DEF q1
<1>6. InsertAll(s, q2) = Insert(InsertAll(s, q1), p2)
  BY <1>1, InsertAllAppend
<1> HIDE DEF q2
<1>7. InsertAll(s, q3) = Insert(InsertAll(s, q2), p3)
  BY <1>2, InsertAllAppend
<1> HIDE DEF q3
<1>8. InsertAll(s, Append(q3, p4)) = Insert(InsertAll(s, q3), p4)
  BY <1>3, InsertAllAppend
<1>9. QED
  BY <1>4, <1>5, <1>6, <1>7, <1>8, Zenon

LEMMA TextIs ==
  ASSUME NEW name \in Names, NEW size \in Int
  PROVE  /\ Text(name, size) \in Parts
         /\ Text(name, size).type = "text"
         /\ Text(name, size).name = name
         /\ Text(name, size).size = size
BY DEF Text, Parts

LEMMA NumberIs ==
  ASSUME NEW type \in {"integer", "pointer", "double"}, NEW name \in Names, NEW size \in Int
  PROVE  /\ Number(type, name, size) \in Parts
         /\ Number(type, name, size).type = type
         /\ Number(type, name, size).name = name
         /\ Number(type, name, size).size = size
BY DEF Number, Parts

LEMMA InsertTextIs ==
  ASSUME NEW s, NEW p, p.type = "text"
  PROVE  Insert(s, p) = IF Room(s) > p.size THEN Add(s, p) ELSE s
BY DEF Insert, AppendText

LEMMA InsertIntegerIs ==
  ASSUME NEW s, NEW p, p.type = "integer"
  PROVE  Insert(s, p) = IF Room(s) >= MaxNumericSize THEN Add(s, p) ELSE s
BY DEF Insert, AppendInteger

LEMMA AddIs ==
  ASSUME NEW s \in Streams, NEW p, p.name \in Names, p.size \in Int
  PROVE  /\ Add(s, p) \in Streams
         /\ Add(s, p).length = s.length + p.size
         /\ Len(Add(s, p).parts) = Len(s.parts) + 1
         /\ Last(Add(s, p).parts) = p.name
         /\ ToSet(Add(s, p).parts) = ToSet(s.parts) \cup {p.name}
<1>1. PICK ps \in Seq(Names) : ps = s.parts /\ s.length \in Int
  BY DEF Streams
<1>2. PICK qs : qs = Append(ps, p.name)
  OBVIOUS
<1>3. PICK n \in Nat : n = Len(ps)
  BY LenProperties
<1>4. qs \in Seq(Names) /\ Len(qs) = n + 1 /\ qs[n + 1] = p.name
  BY <1>2, <1>3, AppendProperties
<1>5. ToSet(qs) = ToSet(ps) \cup {p.name}
  BY <1>2, ToSetAppend
<1>6. Add(s, p) = [parts |-> qs, length |-> s.length + p.size]
  BY <1>1, <1>2 DEF Add
<1>7. QED
  BY <1>1, <1>3, <1>4, <1>5, <1>6 DEF Streams, Last

(* Parts that their test of the room left suffices for, and of another name *)
(* than the line number.                                                    *)
Fitting == {p \in Parts : p.type # "text" => p.size + 2 < MaxNumericSize}
BodyParts == {p \in Fitting : p.name # "line"}

Within == {s \in Streams : s.length < SmallBuffer}
Bodies == {s \in Within : "line" \notin ToSet(s.parts)}

LEMMA InsertFits ==
  ASSUME NEW s \in Within, NEW p \in Fitting
  PROVE  /\ Insert(s, p) \in Within
         /\ ToSet(Insert(s, p).parts) \subseteq ToSet(s.parts) \cup {p.name}
<1>0. s \in Streams
  BY DEF Within
<1>1. s \in Streams /\ s.length \in Int /\ s.length < 4096 /\ Room(s) = 4096 - s.length
  BY DEF Within, Streams, Room, SmallBuffer
<1>2. PICK name, size : name = p.name /\ size = p.size /\ name \in Names /\ size \in Int
  BY DEF Fitting, Parts
<1>3. /\ Add(s, p) \in Streams /\ Add(s, p).length = s.length + size
      /\ ToSet(Add(s, p).parts) = ToSet(s.parts) \cup {name}
  BY <1>0, <1>2, AddIs, Zenon
<1>4. PICK q : q = [p EXCEPT !.size = @ + 2]
  OBVIOUS
<1>5. q.name = name /\ q.size = size + 2 /\ size + 2 \in Int
  BY <1>2, <1>4 DEF Fitting, Parts
<1>6. /\ Add(s, q) \in Streams /\ Add(s, q).length = s.length + (size + 2)
      /\ ToSet(Add(s, q).parts) = ToSet(s.parts) \cup {name}
  BY <1>0, <1>2, <1>5, AddIs, ZenonT(30)
<1>7. p.type # "text" => size + 2 < 48
  BY <1>2 DEF Fitting, MaxNumericSize
<1>8. CASE p.type = "text"
  <2>1. Insert(s, p) = IF Room(s) > size THEN Add(s, p) ELSE s
    BY <1>2, <1>8, InsertTextIs
  <2>2. Room(s) > size => s.length + size < 4096
    BY <1>1, <1>2
  <2>3. QED
    BY <1>1, <1>2, <1>3, <2>1, <2>2 DEF Within, SmallBuffer
<1>9. CASE p.type \in {"integer", "double"}
  <2>1. Insert(s, p) = IF Room(s) >= 48 THEN Add(s, p) ELSE s
    BY <1>9, Zenon DEF Insert, AppendInteger, AppendDouble, MaxNumericSize
  <2>2. Room(s) >= 48 => s.length + size < 4096
    BY <1>1, <1>2, <1>7, <1>9
  <2>3. QED
    BY <1>1, <1>2, <1>3, <2>1, <2>2 DEF Within, SmallBuffer
<1>10. CASE p.type = "pointer"
  <2>1. Insert(s, p) = IF Room(s) >= 48 THEN Add(s, q) ELSE s
    BY <1>4, <1>10, Zenon DEF Insert, AppendPointer, MaxNumericSize
  <2>2. Room(s) >= 48 => s.length + (size + 2) < 4096
    BY <1>1, <1>2, <1>7, <1>10
  <2>3. QED
    BY <1>1, <1>2, <1>6, <2>1, <2>2 DEF Within, SmallBuffer
<1>11. p.type \in {"text", "integer", "pointer", "double"}
  BY DEF Fitting, Parts
<1>12. QED
  BY <1>8, <1>9, <1>10, <1>11

LEMMA BodyKept ==
  ASSUME NEW s \in Bodies, NEW ps \in Seq(BodyParts)
  PROVE  InsertAll(s, ps) \in Bodies
<1>1. ASSUME NEW t \in Bodies, NEW p \in BodyParts
      PROVE  Insert(t, p) \in Bodies
  <2>1. t \in Within /\ p \in Fitting /\ p.name # "line" /\ "line" \notin ToSet(t.parts)
    BY DEF Bodies, BodyParts
  <2>2. QED
    BY <2>1, InsertFits DEF Bodies
<1>2. BodyParts \subseteq Parts /\ Bodies \subseteq Streams
  BY DEF BodyParts, Fitting, Bodies, Within
<1>3. QED
  BY <1>1, <1>2, InsertAllKeeps

(* A short part finds room at the beginning. *)
Short == {p \in Parts : p.type \in {"text", "integer"} /\ p.size \in 0 .. 20 /\ p.name # "line"}

Openings == {s \in Streams : "line" \notin ToSet(s.parts) /\ s.length <= 1000}
Early  == {s \in Openings : s.length <= 80}

LEMMA InsertShort ==
  ASSUME NEW s \in Openings, NEW p \in Short
  PROVE  /\ Insert(s, p) \in Streams
         /\ Insert(s, p).length <= s.length + 20
         /\ Len(Insert(s, p).parts) = Len(s.parts) + 1
         /\ "line" \notin ToSet(Insert(s, p).parts)
<1>1. /\ s \in Streams /\ s.length \in Int /\ s.length <= 1000 /\ "line" \notin ToSet(s.parts)
      /\ Room(s) = 4096 - s.length /\ MaxNumericSize = 48
  BY DEF Openings, Streams, Room, SmallBuffer, MaxNumericSize
<1>2. /\ p.name \in Names /\ p.size \in Int /\ p.size <= 20 /\ p.name # "line"
      /\ p.type = "text" \/ p.type = "integer"
  BY DEF Short, Parts
<1>3. Room(s) > p.size /\ Room(s) >= MaxNumericSize
  BY <1>1, <1>2
<1>4. Insert(s, p) = Add(s, p)
  BY <1>2, <1>3, InsertTextIs, InsertIntegerIs
<1>5. /\ Add(s, p) \in Streams /\ Add(s, p).length = s.length + p.size
      /\ Len(Add(s, p).parts) = Len(s.parts) + 1
      /\ ToSet(Add(s, p).parts) = ToSet(s.parts) \cup {p.name}
  <2>1. s \in Streams /\ p.name \in Names /\ p.size \in Int
    BY <1>1, <1>2
  <2>2. QED
    BY <2>1, AddIs, Zenon
<1>6. QED
  BY <1>1, <1>2, <1>4, <1>5

LEMMA FourShort ==
  ASSUME NEW s \in Early, NEW ps \in Seq(Short), Len(ps) = 4
  PROVE  /\ InsertAll(s, ps) \in Openings
         /\ s.length = 0 => InsertAll(s, ps) \in Early
         /\ Len(InsertAll(s, ps).parts) = Len(s.parts) + 4
<1>0. PICK p1 \in Short, p2 \in Short, p3 \in Short, p4 \in Short : ps = <<p1, p2, p3, p4>>
  <2>1. ps[1] \in Short /\ ps[2] \in Short /\ ps[3] \in Short /\ ps[4] \in Short
    <3>1. \A i \in 1 .. 4 : ps[i] \in Short
      BY ElementOfSeq
    <3>2. QED
      BY <3>1
  <2>2. ps = <<ps[1], ps[2], ps[3], ps[4]>>
    OBVIOUS
  <2>3. QED
    BY <2>1, <2>2, Zenon
<1>1. p1 \in Parts /\ p2 \in Parts /\ p3 \in Parts /\ p4 \in Parts /\ s \in Streams /\ s \in Openings
  BY DEF Short, Openings, Early
<1>2. PICK k \in Nat, n \in Int : k = Len(s.parts) /\ n = s.length /\ n <= 80
  BY LenProperties DEF Early, Openings, Streams
<1>3. PICK s1 : s1 = Insert(s, p1)
  OBVIOUS
<1>4. s1 \in Openings /\ s1.length \in Int /\ s1.length <= n + 20 /\ Len(s1.parts) = k + 1
  <2>1. /\ Insert(s, p1) \in Streams
        /\ Insert(s, p1).length <= s.length + 20
        /\ Len(Insert(s, p1).parts) = Len(s.parts) + 1
        /\ "line" \notin ToSet(Insert(s, p1).parts)
    BY <1>1, InsertShort, Zenon
  <2>2. QED
    BY <1>2, <1>3, <2>1 DEF Openings, Streams
<1>5. PICK s2 : s2 = Insert(s1, p2)
  OBVIOUS
<1>6. s2 \in Openings /\ s2.length \in Int /\ s2.length <= n + 40 /\ Len(s2.parts) = k + 2
  <2>1. /\ Insert(s1, p2) \in Streams
        /\ Insert(s1, p2).length <= s1.length + 20
        /\ Len(Insert(s1, p2).parts) = Len(s1.parts) + 1
        /\ "line" \notin ToSet(Insert(s1, p2).parts)
    BY <1>4, InsertShort, Zenon
  <2>2. QED
    BY <1>2, <1>4, <1>5, <2>1, SMTT(30) DEF Openings, Streams
<1>7. PICK s3 : s3 = Insert(s2, p3)
  OBVIOUS
<1>8. s3 \in Openings /\ s3.length \in Int /\ s3.length <= n + 60 /\ Len(s3.parts) = k + 3
  <2>1. /\ Insert(s2, p3) \in Streams
        /\ Insert(s2, p3).length <= s2.length + 20
        /\ Len(Insert(s2, p3).parts) = Len(s2.parts) + 1
        /\ "line" \notin ToSet(Insert(s2, p3).parts)
    BY <1>6, InsertShort, Zenon
  <2>2. QED
    BY <1>2, <1>6, <1>7, <2>1, SMTT(30) DEF Openings, Streams
<1>9. PICK s4 : s4 = Insert(s3, p4)
  OBVIOUS
<1>10. s4 \in Openings /\ s4.length \in Int /\ s4.length <= n + 80 /\ Len(s4.parts) = k + 4
  <2>1. /\ Insert(s3, p4) \in Streams
        /\ Insert(s3, p4).length <= s3.length + 20
        /\ Len(Insert(s3, p4).parts) = Len(s3.parts) + 1
        /\ "line" \notin ToSet(Insert(s3, p4).parts)
    BY <1>8, InsertShort, Zenon
  <2>2. QED
    BY <1>2, <1>8, <1>9, <2>1, SMTT(30) DEF Openings, Streams
<1>11. InsertAll(s, <<p1, p2, p3, p4>>) = s4
  BY <1>1, <1>3, <1>5, <1>7, <1>9, InsertFour
<1>12. QED
  BY <1>0, <1>2, <1>10, <1>11 DEF Early

(* The header is complete: four parts, and four more for an error. *)
LEMMA HeaderIs ==
  ASSUME NEW utc \in BOOLEAN, NEW error \in {0, 2}
  PROVE  /\ Header(utc, 15, [textSize |-> 9, digits |-> error]) \in Bodies
         /\ Len(Header(utc, 15, [textSize |-> 9, digits |-> error]).parts) =
              IF error = 0 THEN 4 ELSE 8
<1> DEFINE p1 == Text("time", 19)
           p2 == Text("micro", IF utc THEN 9 ELSE 8)
           p3 == Text("tid", 15)
           p4 == Text("level", 9)
           e1 == CString(FALSE, 9)
           e2 == Text("errno=", 8)
           e3 == Number("integer", "errno", error)
           e4 == Text(")", 2)
           four == <<p1, p2, p3, p4>>
           rest == IF error > 0 THEN <<e1, e2, e3, e4>> ELSE <<>>
           h == Header(utc, 15, [textSize |-> 9, digits |-> error])
<1>1. p1 \in Short /\ p2 \in Short /\ p3 \in Short /\ p4 \in Short
  <2>1. p1 \in Short
    BY DEF Short, Parts, Names, Text
  <2>2. p2 \in Short
    BY DEF Short, Parts, Names, Text
  <2>3. p3 \in Short
    BY DEF Short, Parts, Names, Text
  <2>4. p4 \in Short
    BY DEF Short, Parts, Names, Text
  <2>5. QED
    BY <2>1, <2>2, <2>3, <2>4
<1>2. e1 \in Short /\ e2 \in Short /\ e3 \in Short /\ e4 \in Short
  <2>1. e1 \in Short
    BY DEF Short, Parts, Names, Text, CString
  <2>2. e2 \in Short
    BY DEF Short, Parts, Names, Text
  <2>3. e3 \in Short
    BY DEF Short, Parts, Names, Number
  <2>4. e4 \in Short
    BY DEF Short, Parts, Names, Text
  <2>5. QED
    BY <2>1, <2>2, <2>3, <2>4
<1>3. h = InsertAll(NoStream, <<p1, p2>> \o <<p3, p4>> \o rest)
  <2>1. [textSize |-> 9, digits |-> error].textSize = 9 /\ [textSize |-> 9, digits |-> error].digits = error
    OBVIOUS
  <2>2. QED
    BY <2>1, Zenon DEF Header, TimeParts
<1> HIDE DEF p1, p2, p3, p4, e1, e2, e3, e4, h
<1>4. Short \subseteq Parts
  BY DEF Short
<1>5. four = <<p1, p2>> \o <<p3, p4>> /\ four \in Seq(Parts)
  BY <1>1, <1>4
<1>6. NoStream \in Openings /\ NoStream \in Streams /\ NoStream.length = 0 /\ Len(NoStream.parts) = 0
  <2>1. NoStream \in Streams /\ NoStream.length = 0 /\ NoStream.parts = <<>> /\ Len(NoStream.parts) = 0
    BY DEF NoStream, Streams
  <2>2. QED
    BY <2>1, ToSetEmpty DEF Openings
<1>7. PICK t : t = InsertAll(NoStream, four)
  OBVIOUS
<1>8. t \in Early /\ t \in Openings /\ Len(t.parts) = 4 /\ t \in Streams
  <2>1. NoStream \in Early
    BY <1>6 DEF Early
  <2>2. four \in Seq(Short) /\ Len(four) = 4
    BY <1>1
  <2> HIDE DEF four
  <2>3. t \in Early /\ Len(t.parts) = Len(NoStream.parts) + 4
    BY <1>6, <1>7, <2>1, <2>2, FourShort
  <2>4. QED
    BY <1>6, <2>3 DEF Openings, Early
<1>9. rest \in Seq(Parts)
  BY <1>2, <1>4
<1>10. h = InsertAll(t, rest)
  <2> HIDE DEF rest, four
  <2>1. h = InsertAll(NoStream, four \o rest)
    BY <1>3, <1>5, Zenon
  <2>2. QED
    BY <1>5, <1>6, <1>7, <1>9, <2>1, InsertAllConcat
<1>11. CASE error = 0
  <2>1. rest = <<>>
    BY <1>11
  <2>2. h = t
    BY <1>8, <1>10, <2>1, InsertAllEmpty
  <2>3. QED
    BY <1>8, <1>11, <2>2 DEF h, Openings, Bodies, Within, SmallBuffer, Streams
<1>12. CASE error = 2
  <2>1. rest = <<e1, e2, e3, e4>>
    BY <1>12
  <2>2. h \in Openings /\ Len(h.parts) = 8
    <3>1. h \in Openings /\ Len(h.parts) = Len(t.parts) + 4
      <4>1. rest \in Seq(Short) /\ Len(rest) = 4
        BY <1>2, <2>1
      <4> HIDE DEF rest
      <4>2. QED
        BY <1>8, <1>10, <4>1, FourShort
    <3>2. QED
      BY <1>8, <3>1
  <2>3. QED
    BY <1>12, <2>2 DEF h, Openings, Bodies, Within, SmallBuffer, Streams
<1>13. QED
  BY <1>11, <1>12

(* What finish() makes of any text: the line stays within the buffer, ends  *)
(* with the newline unless one byte is left, and names the file if it has   *)
(* the number.                                                              *)
LEMMA FinishIs ==
  ASSUME NEW s \in Bodies, NEW nameSize \in {11, 47}
  PROVE  /\ Finish(s, nameSize, 3).length < SmallBuffer
         /\ \/ Last(Finish(s, nameSize, 3).parts) = "newline"
            \/ Finish(s, nameSize, 3).length = SmallBuffer - 1
         /\ "line" \in ToSet(Finish(s, nameSize, 3).parts)
              => "name" \in ToSet(Finish(s, nameSize, 3).parts)
         /\ Finish(s, nameSize, 3) \in Streams
<1> DEFINE q1 == Text(" - ", 3)
           q2 == Text("name", nameSize)
           q3 == Text(":", 1)
           q4 == Number("integer", "line", 3)
           q5 == Text("newline", 1)
<1>1. q1 \in Fitting /\ q1.type = "text" /\ q1.name = " - " /\ q1.size = 3
  <2>1. \A n \in Names : Text(n, 3) \in Fitting /\ Text(n, 3).type = "text" 
                         /\ Text(n, 3).name = n /\ Text(n, 3).size = 3
    BY DEF Text, Fitting, Parts
  <2>2. " - " \in Names
    BY Zenon DEF Names
  <2>3. QED
    BY <2>1, <2>2, Zenon
<1>2. q2 \in Fitting /\ q2.type = "text" /\ q2.name = "name" /\ q2.size \in Int /\ q2.size < 48 /\ q2.size >= 0
  BY DEF Text, Fitting, Parts, Names
<1>3. q3 \in Fitting /\ q3.type = "text" /\ q3.name = ":" /\ q3.size = 1
  BY DEF Text, Fitting, Parts, Names
<1>4. q4 \in Fitting /\ q4.type = "integer" /\ q4.name = "line" /\ q4.size = 3
  BY DEF Number, Fitting, Parts, Names, MaxNumericSize
<1>5. q5 \in Fitting /\ q5.type = "text" /\ q5.name = "newline" /\ q5.size = 1
  BY DEF Text, Fitting, Parts, Names
<1>6. Finish(s, nameSize, 3) = InsertAll(s, <<q1, q2, q3, q4, q5>>)
  BY Zenon DEF Finish
<1> HIDE DEF q1, q2, q3, q4, q5
<1>7. s \in Streams /\ s \in Within /\ Fitting \subseteq Parts
  BY DEF Bodies, Within, Fitting
<1> DEFINE s1 == Insert(s, q1)
           s2 == Insert(s1, q2)
           s3 == Insert(s2, q3)
           s4 == Insert(s3, q4)
           s5 == Insert(s4, q5)
<1>8. Finish(s, nameSize, 3) = s5
  <2> DEFINE four == <<q1, q2, q3, q4>>
  <2>0. q1 \in Parts /\ q2 \in Parts /\ q3 \in Parts /\ q4 \in Parts
    BY <1>1, <1>2, <1>3, <1>4, <1>7, Zenon
  <2>1. four \in Seq(Parts) /\ <<q1, q2, q3, q4, q5>> = Append(four, q5)
    BY <2>0
  <2>2. InsertAll(s, four) = s4
    BY <1>7, <2>0, InsertFour
  <2> HIDE DEF four
  <2>3. q5 \in Parts
    BY <1>5, <1>7
  <2>4. InsertAll(s, Append(four, q5)) = Insert(InsertAll(s, four), q5)
    BY <1>7, <2>1, <2>3, InsertAllAppend
  <2>5. QED
    BY <1>6, <2>1, <2>2, <2>4, Zenon
<1>9. ASSUME NEW t \in Within, NEW q \in Fitting
      PROVE  /\ Insert(t, q) \in Within /\ t.length \in Int /\ Insert(t, q).length \in Int
             /\ Insert(t, q).length < SmallBuffer
             /\ ToSet(Insert(t, q).parts) \subseteq ToSet(t.parts) \cup {q.name}
  BY InsertFits DEF Within, Streams
<1>10. ASSUME NEW t \in Within, NEW q \in Fitting
       PROVE  /\ Add(t, q).length = t.length + q.size
              /\ Last(Add(t, q).parts) = q.name
              /\ ToSet(Add(t, q).parts) = ToSet(t.parts) \cup {q.name}
  <2>1. t \in Streams /\ q.name \in Names /\ q.size \in Int
    BY DEF Within, Fitting, Parts
  <2>2. QED
    BY <2>1, AddIs, ZenonT(40)
<1>11. s1 \in Within
  BY <1>1, <1>7, <1>9
<1> HIDE DEF s1
<1>12. s2 \in Within
  BY <1>2, <1>9, <1>11
<1> HIDE DEF s2
<1>13. s3 \in Within
  BY <1>3, <1>9, <1>12
<1> HIDE DEF s3
<1>14. s4 \in Within
  BY <1>4, <1>9, <1>13
<1> HIDE DEF s4
<1>15. s5 \in Within
  BY <1>5, <1>9, <1>14
<1>16. Room(s1) = 4096 - s1.length /\ Room(s3) = 4096 - s3.length /\ Room(s4) = 4096 - s4.length
       /\ Room(s2) = 4096 - s2.length
  BY DEF Room, SmallBuffer
<1>17. Last(s5.parts) = "newline" \/ s5.length = SmallBuffer - 1
  <2>1. s5 = IF Room(s4) > 1 THEN Add(s4, q5) ELSE s4
    BY <1>5, InsertTextIs
  <2>2. CASE Room(s4) > 1
    BY <1>5, <1>10, <1>14, <2>1, <2>2
  <2>3. CASE ~(Room(s4) > 1)
    <3>1. s4.length \in Int /\ s4.length < 4096
      BY <1>14 DEF Within, Streams, SmallBuffer
    <3>2. s4.length = 4095
      BY <1>16, <2>3, <3>1
    <3>3. QED
      BY <2>1, <2>3, <3>2 DEF SmallBuffer
  <2>4. QED
    BY <2>2, <2>3
<1>18. ASSUME NEW t \in Within, NEW q \in Fitting
       PROVE  ToSet(t.parts) \subseteq ToSet(Insert(t, q).parts)
  <2>1. q.type \in {"text", "integer", "pointer", "double"}
    BY DEF Fitting, Parts
  <2>2. ToSet(t.parts) \subseteq ToSet(Add(t, q).parts)
    BY <1>10
  <2>3. PICK r : r = [q EXCEPT !.size = @ + 2]
    OBVIOUS
  <2>4. r.name = q.name /\ r.name \in Names /\ r.size \in Int
    BY <2>3 DEF Fitting, Parts
  <2>5. ToSet(t.parts) \subseteq ToSet(Add(t, r).parts)
    <3>1. t \in Streams
      BY DEF Within
    <3>2. ToSet(Add(t, r).parts) = ToSet(t.parts) \cup {r.name}
      BY <2>4, <3>1, AddIs, Zenon
    <3>3. QED
      BY <3>2
  <2>6. QED
    BY <2>1, <2>2, <2>3, <2>5, Zenon DEF Insert, AppendText, AppendInteger, AppendPointer, AppendDouble
<1>19. "line" \in ToSet(s5.parts) => "name" \in ToSet(s5.parts)
  <2>1. SUFFICES ASSUME "line" \in ToSet(s5.parts) PROVE "name" \in ToSet(s5.parts)
    OBVIOUS
  <2>2. "line" \in ToSet(s4.parts)
    BY <1>5, <1>9, <1>14, <2>1
  <2>3. "line" \notin ToSet(s.parts)
    BY DEF Bodies
  <2>4. "line" \notin ToSet(s1.parts)
    BY <1>1, <1>7, <1>9, <2>3 DEF s1
  <2>5. "line" \notin ToSet(s2.parts)
    BY <1>2, <1>9, <1>11, <2>4 DEF s2
  <2>6. "line" \notin ToSet(s3.parts)
    BY <1>3, <1>9, <1>12, <2>5 DEF s3
  <2>7. Room(s3) >= 48
    <3>1. s4 = IF Room(s3) >= 48 THEN Add(s3, q4) ELSE s3
      BY <1>4, InsertIntegerIs DEF s4, MaxNumericSize
    <3>2. QED
      BY <2>2, <2>6, <3>1
  <2>8. /\ s1.length \in Int /\ s2.length \in Int /\ s3.length \in Int
    BY <1>11, <1>12, <1>13 DEF Within, Streams
  <2>9. s3.length >= s2.length
    <3>1. s3 = IF Room(s2) > 1 THEN Add(s2, q3) ELSE s2
      BY <1>3, InsertTextIs DEF s3
    <3>2. Add(s2, q3).length = s2.length + 1
      BY <1>3, <1>10, <1>12
    <3>3. QED
      BY <2>8, <3>1, <3>2
  <2>10. s2 = IF Room(s1) > q2.size THEN Add(s1, q2) ELSE s1
    BY <1>2, InsertTextIs DEF s2
  <2>11. Room(s1) > q2.size
    <3>1. SUFFICES ASSUME ~(Room(s1) > q2.size) PROVE FALSE
      OBVIOUS
    <3>2. s2 = s1
      BY <2>10, <3>1
    <3>3. QED
      BY <1>2, <1>16, <2>7, <2>8, <2>9, <3>1, <3>2
  <2>12. "name" \in ToSet(s2.parts)
    BY <1>2, <1>10, <1>11, <2>10, <2>11
  <2>13. "name" \in ToSet(s3.parts)
    BY <1>3, <1>12, <1>18, <2>12 DEF s3
  <2>14. "name" \in ToSet(s4.parts)
    BY <1>4, <1>13, <1>18, <2>13 DEF s4
  <2>15. QED
    BY <1>5, <1>14, <1>18, <2>14
<1>20. QED
  <2> HIDE DEF s5
  <2>1. s5 \in Streams /\ s5.length < SmallBuffer
    BY <1>15 DEF Within
  <2>2. QED
    BY <1>8, <1>17, <1>19, <2>1, Zenon

LEMMA ContainsIs ==
  ASSUME NEW s \in Streams, NEW name
  PROVE  Contains(s.parts, name) <=> name \in ToSet(s.parts)
<1>1. s.parts \in Seq(Names)
  BY DEF Streams
<1>2. QED
  BY <1>1, ToSetFacts DEF Contains

(* What LineEnds says of texts of n bytes. *)
EndsWell(n) ==
  \A utc \in BOOLEAN, error \in {0, 2}, name \in {11, 47},
     body \in {<<Text("body", n)>>,
               <<Number("pointer", "p", 12), CString(TRUE, 0), Text("body", n - 20)>>,
               <<Text("body", n - 18), Number("double", "d", 18)>>} :
    LET header == Header(utc, 15, [textSize |-> 9, digits |-> error])
        line   == Finish(InsertAll(header, body), name, 3)
    IN  /\ line.length < SmallBuffer
        /\ Last(line.parts) = "newline" \/ line.length = SmallBuffer - 1
        /\ Len(header.parts) = (IF error = 0 THEN 4 ELSE 8)
        /\ Contains(line.parts, "line") => Contains(line.parts, "name")

(* A line with a body of any size stays within its buffer, ends with a      *)
(* newline unless one byte is left and keeps its header.                    *)
THEOREM LinesEndWell ==
  ASSUME NEW n \in Int
  PROVE  EndsWell(n)
<1> SUFFICES ASSUME NEW utc \in BOOLEAN, NEW error \in {0, 2}, NEW name \in {11, 47},
                    NEW body \in {<<Text("body", n)>>,
                                  <<Number("pointer", "p", 12), CString(TRUE, 0), Text("body", n - 20)>>,
                                  <<Text("body", n - 18), Number("double", "d", 18)>>}
             PROVE  LET header == Header(utc, 15, [textSize |-> 9, digits |-> error])
                        line   == Finish(InsertAll(header, body), name, 3)
                    IN  /\ line.length < SmallBuffer
                        /\ Last(line.parts) = "newline" \/ line.length = SmallBuffer - 1
                        /\ Len(header.parts) = (IF error = 0 THEN 4 ELSE 8)
                        /\ Contains(line.parts, "line") => Contains(line.parts, "name")
  BY DEF EndsWell
<1>1. body \in Seq(BodyParts)
  <2>1. ASSUME NEW k \in Int
        PROVE  Text("body", k) \in BodyParts
    BY DEF Text, BodyParts, Fitting, Parts, Names
  <2>2. Number("pointer", "p", 12) \in BodyParts
    BY DEF Number, BodyParts, Fitting, Parts, Names, MaxNumericSize
  <2>3. Number("double", "d", 18) \in BodyParts
    BY DEF Number, BodyParts, Fitting, Parts, Names, MaxNumericSize
  <2>4. CString(TRUE, 0) \in BodyParts
    BY DEF CString, Text, BodyParts, Fitting, Parts, Names
  <2>5. n - 20 \in Int /\ n - 18 \in Int
    OBVIOUS
  <2>6. Text("body", n) \in BodyParts /\ Text("body", n - 20) \in BodyParts /\ Text("body", n - 18) \in BodyParts
    BY <2>1, <2>5
  <2>7. QED
    <3>1. <<Text("body", n)>> \in Seq(BodyParts)
      BY <2>6
    <3>2. <<Number("pointer", "p", 12), CString(TRUE, 0), Text("body", n - 20)>> \in Seq(BodyParts)
      <4>1. \A a, b, c \in BodyParts : <<a, b, c>> \in Seq(BodyParts)
        OBVIOUS
      <4>2. QED
        BY <2>2, <2>4, <2>6, <4>1, Zenon
    <3>3. <<Text("body", n - 18), Number("double", "d", 18)>> \in Seq(BodyParts)
      BY <2>3, <2>6
    <3>4. QED
      BY <3>1, <3>2, <3>3
<1>2. PICK header : header = Header(utc, 15, [textSize |-> 9, digits |-> error])
  OBVIOUS
<1>3. header \in Bodies /\ Len(header.parts) = IF error = 0 THEN 4 ELSE 8
  BY <1>2, HeaderIs
<1>4. PICK s \in Bodies : s = InsertAll(header, body)
  BY <1>1, <1>3, BodyKept
<1>5. PICK line : line = Finish(s, name, 3)
  OBVIOUS
<1>6. /\ line \in Streams
      /\ line.length < SmallBuffer
      /\ Last(line.parts) = "newline" \/ line.length = SmallBuffer - 1
      /\ "line" \in ToSet(line.parts) => "name" \in ToSet(line.parts)
  BY <1>5, FinishIs, Zenon
<1>7. Contains(line.parts, "line") => Contains(line.parts, "name")
  BY <1>6, ContainsIs, Zenon
<1>8. QED
  BY <1>2, <1>3, <1>4, <1>5, <1>6, <1>7, Zenon

(* Every line of a log statement stays within its buffer and ends with a    *)
(* newline unless one byte is left; its header is complete; it has a line   *)
(* number only if it has the name of the file.                              *)
THEOREM LineEndsInvariance == Spec => []LineEnds
<1>1. InputInv => LineEnds
  <2> SUFFICES ASSUME InputInv, input.kind = "line" PROVE EndsWell(input.n)
    BY DEF LineEnds, EndsWell
  <2>1. PICK n \in Int : n = input.n
    BY DEF InputInv, YearInput, InstantInput, NumberInput
  <2>2. QED
    BY <2>1, LinesEndWell
<1>2. QED
  BY <1>1, InputInvariance, PTL

-----------------------------------------------------------------------------
(* Formatted quantities.                                                    *)

LEMMA GroupIs ==
  ASSUME NEW n \in Numbers, NEW i \in 0 .. 6
  PROVE  n[i] \in Int /\ 0 <= n[i] /\ n[i] <= 999
<1>1. n[i] \in 0 .. 999
  BY SMT DEF Numbers
<1>2. QED
  BY <1>1, SMTT(30)

(* The function by which Carried is defined. *)
Carries(f, groups) ==
  f = [i \in 0 .. 7 |-> IF i = 0 THEN 0 ELSE (groups[i - 1] + f[i - 1]) \div 1000]

LEMMA CarriedType ==
  ASSUME NEW groups \in [0 .. 6 -> Int]
  PROVE  Carried(groups) \in Numbers
<1> DEFINE over(x) == x \div 1000
           step == [p \in Int \X (1 .. 7) |-> over(groups[p[2] - 1] + p[1])]
<1>0. \A x \in Int : over(x) \in Int
  OBVIOUS
<1> HIDE DEF over
<1>1. \A v \in Int, i \in 1 .. 7 :
        /\ step[<<v, i>>] = over(groups[i - 1] + v)
        /\ over(groups[i - 1] + v) \in Int
  BY <1>0
<1>2. step \in [Int \X (1 .. 7) -> Int]
  BY <1>1
<1> HIDE DEF step
<1>3. PICK h : Recurses(h, Int, 0, step, 7)
  <2>1. 0 \in Int /\ 7 \in Nat
    OBVIOUS
  <2>2. QED
    BY <1>2, <2>1, RecursionExists, Zenon
<1>4. h = [i \in 0 .. 7 |-> IF i = 0 THEN 0 ELSE over(groups[i - 1] + h[i - 1])]
  <2>1. ASSUME NEW i \in 0 .. 7, i # 0
        PROVE  h[i] = over(groups[i - 1] + h[i - 1])
    <3>1. i \in 1 .. 7 /\ i - 1 \in 0 .. 7
      BY <2>1
    <3>2. PICK v \in Int : v = h[i - 1] /\ h[i] = step[<<v, i>>]
      BY <1>3, <3>1 DEF Recurses
    <3>3. QED
      BY <1>1, <3>1, <3>2
  <2>2. h \in [0 .. 7 -> Int] /\ h[0] = 0
    BY <1>3 DEF Recurses
  <2>3. QED
    BY <2>1, <2>2, SMT
<1>5. Carries(h, groups)
  BY <1>4, SMT DEF Carries, over
<1>6. PICK f : Carries(f, groups) /\ Carried(groups) = [i \in 0 .. 6 |-> (groups[i] + f[i]) % 1000]
  BY <1>5, SMTT(30) DEF Carried, Carries
<1>7. f[0] = 0 /\ \A i \in 1 .. 7 : f[i] = (groups[i - 1] + f[i - 1]) \div 1000
  BY <1>6, SMT DEF Carries
<1>8. \A i \in 0 .. 7 : f[i] \in Int
  <2> DEFINE T == {i \in 0 .. 7 : f[i] \notin Int}
  <2>1. SUFFICES ASSUME T # {} PROVE FALSE
    BY SMT
  <2>2. PICK i \in T : \A j \in T : i <= j
    BY <2>1, SetMin, SMT
  <2>3. i # 0
    BY <1>7, <2>2, SMT
  <2>4. PICK j \in 0 .. 6 : j = i - 1
    BY <2>2, <2>3, SMT
  <2>5. f[j] \in Int /\ groups[j] \in Int
    BY <2>2, <2>4, SMTT(30)
  <2>6. f[i] = (groups[j] + f[j]) \div 1000
    BY <1>7, <2>2, <2>3, <2>4, SMT
  <2>7. QED
    BY <2>2, <2>5, <2>6, SMT
<1> DEFINE e(i)   == (groups[i] + f[i]) % 1000
           Digits == 0 .. 999
<1>9. ASSUME NEW i \in 0 .. 6
      PROVE  e(i) \in Digits
  <2>1. PICK a \in Int, c \in Int : a = groups[i] /\ c = f[i]
    BY <1>8, SMT
  <2>2. QED
    BY <2>1, SMT
<1>10. Carried(groups) = [i \in 0 .. 6 |-> e(i)] /\ Numbers = [0 .. 6 -> Digits]
  BY <1>6, SMT DEF Numbers
<1> HIDE DEF e, Digits
<1>11. QED
  BY <1>9, <1>10, SMT

LEMMA PlusOneType ==
  ASSUME NEW n \in Numbers
  PROVE  PlusOne(n) \in Numbers
<1> DEFINE g == [n EXCEPT ![0] = @ + 1]
<1>1. g \in [0 .. 6 -> Int]
  <2>1. n = [i \in 0 .. 6 |-> n[i]] /\ 0 \in 0 .. 6
    BY SMT DEF Numbers
  <2>2. \A i \in 0 .. 6 : n[i] \in Int
    BY GroupIs
  <2>3. n[0] + 1 \in Int
    BY <2>1, <2>2, SMT
  <2>4. QED
    BY <2>1, <2>2, <2>3, SMT
<1> HIDE DEF g
<1>2. Carried(g) \in Numbers
  BY <1>1, CarriedType
<1>3. QED
  BY <1>2 DEF PlusOne, g

LEMMA PlacesType == Places \subseteq Numbers
<1> DEFINE before(unit, hi, lo) ==
             [i \in 0 .. 6 |-> CASE i < unit - 1 -> 999 [] i = unit - 1 -> lo [] i = unit -> hi [] OTHER -> 0]
           digits(u) == {before(u, 9, 994), before(u, 99, 949), before(u, 999, 499), before(u, 0, 999)}
           others    == {before(5, 0, 999)} \cup UNION {digits(u) : u \in 1 .. 4}
           start(n)  == [n EXCEPT ![0] = @ - 4]
           Starts    == {n \in Numbers : 4 <= n[0]}
<1>1. ASSUME NEW u \in 1 .. 5, NEW hi \in {0, 9, 99, 999}, NEW lo \in {499, 949, 994, 999}
      PROVE  before(u, hi, lo) \in Starts
  BY SMT DEF Numbers
<1>2. ASSUME NEW n \in Starts
      PROVE  start(n) \in Numbers
  BY SMT DEF Numbers
<1>3. Places = IF Large THEN {start(n) : n \in digits(5)} ELSE {start(n) : n \in others}
  BY ZenonT(30) DEF Places
<1> HIDE DEF before, start, Starts
<1>4. ASSUME NEW u \in 1 .. 5
      PROVE  digits(u) \subseteq Starts
  <2>1. /\ before(u, 9, 994) \in Starts /\ before(u, 99, 949) \in Starts
        /\ before(u, 999, 499) \in Starts /\ before(u, 0, 999) \in Starts
    BY <1>1, SMT
  <2>2. QED
    BY <2>1, SMT
<1>5. before(5, 0, 999) \in Starts
  BY <1>1, SMT
<1> HIDE DEF digits
<1>6. digits(5) \subseteq Starts /\ others \subseteq Starts
  BY <1>4, <1>5, SMT
<1> HIDE DEF others
<1>7. CASE Large
  BY <1>2, <1>3, <1>6, <1>7, Zenon
<1>8. CASE ~Large
  BY <1>2, <1>3, <1>6, <1>8, Zenon
<1>9. QED
  BY <1>7, <1>8

(* The thousands of the smaller unit that a number has in its unit. *)
Lead(n, unit) == n[unit] * 1000 + n[unit - 1]

(* 2^53 = 9007199254740992. *)
LEMMA HeldIs ==
  ASSUME NEW n \in Numbers, LessThan(n, TwoTo(53))
  PROVE  n[6] = 0 /\ n[5] <= 9
<1>0. /\ n[6] \in Int /\ 0 <= n[6]
      /\ n[5] \in Int
  <2>1. 6 \in 0 .. 6 /\ 5 \in 0 .. 6
    OBVIOUS
  <2>2. QED
    BY <2>1, GroupIs
<1> DEFINE t == TwoTo(53)
<1>1. t[6] = 0 /\ t[5] = 9
  <2>1. t = [i \in 0 .. 6 |-> PowersFrom53[1][7 - i]]
    BY DEF TwoTo
  <2>2. t[6] = PowersFrom53[1][1] /\ t[5] = PowersFrom53[1][2]
    BY <2>1
  <2>3. PowersFrom53[1] = <<0, 9, 7, 199, 254, 740, 992>>
    BY DEF PowersFrom53
  <2>4. QED
    BY <2>2, <2>3
<1> HIDE DEF t
<1>2. PICK i \in 0 .. 6 : n[i] < t[i] /\ \A j \in i + 1 .. 6 : n[j] = t[j]
  BY DEF LessThan, t
<1>4. CASE i = 6
  <2>1. n[6] < t[6]
    BY <1>2, <1>4
  <2>2. n[6] < 0
    BY <1>1, <2>1
  <2>3. QED
    BY <1>0, <2>2, SMT
<1>5. CASE i = 5
  <2>1. 6 \in i + 1 .. 6 /\ n[5] < t[5]
    BY <1>2, <1>5
  <2>2. n[6] = t[6]
    BY <1>2, <2>1
  <2>3. QED
    BY <1>0, <1>1, <2>1, <2>2
<1>6. CASE i \in 0 .. 4
  <2>1. 6 \in i + 1 .. 6 /\ 5 \in i + 1 .. 6
    BY <1>6
  <2>2. QED
    BY <1>1, <1>2, <2>1
<1>7. QED
  BY <1>4, <1>5, <1>6

(* The unit: the number has no groups above it, and reaches 0.9995 of it. *)
LEMMA UnitSIIs ==
  ASSUME NEW n \in Numbers, LessThan(n, TwoTo(53)), ~ \A i \in 1 .. 6 : n[i] = 0,
         NEW u, u = UnitSI(n)
  PROVE  /\ u \in 1 .. 5
         /\ \A i \in u + 1 .. 6 : n[i] = 0
         /\ Lead(n, u) \in Int /\ 999 <= Lead(n, u) /\ Lead(n, u) < 999500
<1> DEFINE Is(x) == /\ x = 6 \/ Below(n, x, 999500)
                    /\ \A v \in 1 .. x - 1 : ~Below(n, v, 999500)
<1>1. \A i \in 0 .. 6 : n[i] \in Int /\ 0 <= n[i] /\ n[i] <= 999
  BY GroupIs
<1>2. n[6] = 0 /\ n[5] <= 9
  BY HeldIs, SMT
<1>3. Below(n, 5, 999500)
  BY <1>1, <1>2, SMT DEF Below
<1>4. \E x \in 1 .. 6 : Is(x)
  <2> DEFINE T == {x \in 1 .. 6 : Below(n, x, 999500)}
  <2>1. T \subseteq Nat /\ T # {}
    BY <1>3, SMT
  <2>2. PICK x \in T : \A y \in T : x <= y
    BY <2>1, SetMin, SMT
  <2>3. Below(n, x, 999500) /\ \A v \in 1 .. x - 1 : ~Below(n, v, 999500)
    BY <2>2, SMT
  <2>4. QED
    BY <2>2, <2>3, SMT
<1>5. u \in 1 .. 6 /\ Is(u)
  <2>1. u = CHOOSE x \in 1 .. 6 : Is(x)
    BY SMT DEF UnitSI
  <2> HIDE DEF Is
  <2>2. QED
    BY <1>4, <2>1, Zenon
<1>6. u # 6
  <2>1. SUFFICES ASSUME u = 6 PROVE FALSE
    BY SMT
  <2>2. 5 \in 1 .. u - 1
    BY <2>1, SMT
  <2>3. QED
    BY <1>3, <1>5, <2>2, SMT
<1>7. u \in 1 .. 5 /\ Below(n, u, 999500) /\ \A v \in 1 .. u - 1 : ~Below(n, v, 999500)
  BY <1>5, <1>6, SMT
<1>8. /\ n[u] \in Int /\ 0 <= n[u] /\ n[u - 1] \in Int /\ 0 <= n[u - 1] /\ n[u - 1] <= 999
      /\ n[u] * 1000 + n[u - 1] < 999500
      /\ \A i \in u + 1 .. 6 : n[i] = 0
  <2>1. u \in 0 .. 6 /\ u - 1 \in 0 .. 6
    BY <1>7, SMT
  <2>2. QED
    BY <1>1, <1>7, <2>1, SMT DEF Below
<1>9. n[u] * 1000 + n[u - 1] >= 999
  <2>1. CASE n[u] # 0
    BY <1>8, <2>1, SMT
  <2>2. CASE n[u] = 0 /\ u = 1
    <3>1. \A i \in 1 .. 6 : i = 1 \/ i \in u + 1 .. 6
      BY <2>2, SMT
    <3>2. \A i \in 1 .. 6 : n[i] = 0
      BY <1>8, <2>2, <3>1, SMT
    <3>3. QED
      BY <3>2, SMT
  <2>3. CASE n[u] = 0 /\ u # 1
    <3>1. PICK w \in 1 .. 4 : w = u - 1
      BY <1>7, <2>3, SMT
    <3>2. ~Below(n, w, 999500)
      BY <1>7, <3>1, SMT
    <3>3. \A i \in w + 1 .. 6 : n[i] = 0
      <4>1. \A i \in w + 1 .. 6 : i = u \/ i \in u + 1 .. 6
        BY <1>7, <3>1, SMT
      <4>2. QED
        BY <1>8, <2>3, <4>1, SMT
    <3>4. n[w] * 1000 + n[w - 1] >= 999500
      <4>1. w \in 0 .. 6 /\ w - 1 \in 0 .. 6
        BY SMT
      <4>2. QED
        BY <1>1, <3>2, <3>3, <4>1, SMT DEF Below
    <3>5. n[w - 1] \in Int /\ n[w - 1] <= 999
      <4>1. w - 1 \in 0 .. 6
        BY SMT
      <4>2. QED
        BY <1>1, <4>1, SMT
    <3>6. n[w] >= 999
      BY <1>8, <3>1, <3>4, <3>5, SMT
    <3>7. QED
      BY <1>8, <2>3, <3>1, <3>6, SMT
  <2>4. QED
    BY <2>1, <2>2, <2>3, SMT
<1>10. QED
  BY <1>7, <1>8, <1>9, SMT DEF Lead

(* formatSI() prints three digits and a unit of every number that a double  *)
(* holds, from 1000 on.                                                     *)
THEOREM FormatSIFits ==
  ASSUME NEW n \in Numbers, LessThan(n, TwoTo(53)), NEW q \in FormatSI(n)
  PROVE  IF q.unit = 0 THEN q.digits \in 0 .. 999 ELSE q.digits \in 100 .. 999
<1>1. CASE \A i \in 1 .. 6 : n[i] = 0
  <2>1. q = [digits |-> n[0], decimals |-> 0, unit |-> 0]
    BY <1>1, SMT DEF FormatSI
  <2>2. n[0] \in 0 .. 999
    BY SMT DEF Numbers
  <2>3. QED
    BY <2>1, <2>2, SMT
<1>2. CASE ~ \A i \in 1 .. 6 : n[i] = 0
  <2>1. PICK u : u = UnitSI(n)
    OBVIOUS
  <2>2. PICK d : d = DecimalsSI(n, u)
    OBVIOUS
  <2>3. AsDouble(n) = n
    BY SMT DEF AsDouble
  <2>4. PICK p \in PrintedSI(n, u, d) : q = [digits |-> p, decimals |-> d, unit |-> u]
    BY <1>2, <2>1, <2>2, <2>3, SMT DEF FormatSI
  <2>5. /\ u \in 1 .. 5
        /\ \A i \in u + 1 .. 6 : n[i] = 0
        /\ Lead(n, u) \in Int /\ 999 <= Lead(n, u) /\ Lead(n, u) < 999500
    BY <1>2, <2>1, UnitSIIs, SMT
  <2>6. PICK lead \in Int : /\ lead = n[u] * 1000 + n[u - 1]
                          /\ 999 <= lead /\ lead < 999500
    BY <2>5, SMT DEF Lead
  <2>7. d = IF lead < 9995 THEN 2 ELSE IF lead < 99950 THEN 1 ELSE 0
    BY <2>2, <2>5, <2>6, SMT DEF DecimalsSI, Below
  <2>8. p \in 100 .. 999
    <3>1. CASE lead < 9995
      BY <2>4, <2>6, <2>7, <3>1, SMT DEF PrintedSI
    <3>2. CASE 9995 <= lead /\ lead < 99950
      BY <2>4, <2>6, <2>7, <3>2, SMT DEF PrintedSI
    <3>3. CASE 99950 <= lead
      BY <2>4, <2>6, <2>7, <3>3, SMT DEF PrintedSI
    <3>4. QED
      BY <3>1, <3>2, <3>3, SMT
  <2>9. QED
    BY <2>4, <2>5, <2>8, SMT
<1>3. QED
  BY <1>1, <1>2, SMT

(* n is at least 2047 / 2048 of the unit, and less than 1023.5 of it. *)
Units(n, u) == /\ 2047 * SizeIEC(u) <= 2048 * n
               /\ 2 * n < 2047 * SizeIEC(u)

(* The unit is the first that the number is less than 1023.5 of; the fifth *)
(* is enough for numbers below 2^53.                                        *)
LEMMA UnitIECIs ==
  ASSUME NEW n \in Nat, 1024 <= n, n \div 2 ^ 26 < 2 ^ 27, NEW u, u = UnitIEC(n)
  PROVE  u \in 1 .. 5 /\ Units(n, u)
<1> DEFINE In(x) == BelowFraction(n, SizeIEC(x), 2047, 2)
           Is(x) == (x = 6 \/ In(x)) /\ \A v \in 1 .. x - 1 : ~In(v)
<1>1. \A x \in 1 .. 5 : In(x) <=> 2 * n < 2047 * SizeIEC(x)
  <2>1. TAKE x \in 1 .. 5
  <2>2. PICK size \in Nat : size = SizeIEC(x)
    BY SMT DEF SizeIEC
  <2>3. In(x) <=> n <= (size * 2047 - 1) \div 2
    BY <2>2, SMT DEF BelowFraction
  <2>4. QED
    BY <2>2, <2>3, SMT
<1>2. In(5)
  BY <1>1, SMT DEF SizeIEC
<1>3. \E x \in 1 .. 6 : Is(x)
  <2> DEFINE T == {x \in 1 .. 6 : In(x)}
  <2> HIDE DEF In
  <2>1. T \subseteq Nat /\ T # {}
    BY <1>2, SMT
  <2>2. PICK x \in T : \A y \in T : x <= y
    BY <2>1, SetMin, SMT
  <2>3. In(x) /\ \A v \in 1 .. x - 1 : ~In(v)
    BY <2>2, SMT
  <2>4. QED
    BY <2>2, <2>3, Zenon
<1>4. u \in 1 .. 6 /\ Is(u)
  <2>1. u = CHOOSE x \in 1 .. 6 : Is(x)
    BY SMT DEF UnitIEC
  <2> HIDE DEF Is
  <2>2. QED
    BY <1>3, <2>1, Zenon
<1>5. (u = 6 \/ In(u)) /\ \A v \in 1 .. u - 1 : ~In(v)
  BY <1>4, SMT
<1> HIDE DEF In, Is
<1>6. u # 6
  <2>1. SUFFICES ASSUME u = 6 PROVE FALSE
    BY SMT
  <2>2. 5 \in 1 .. u - 1
    BY <2>1, SMTT(30)
  <2>3. QED
    BY <1>2, <1>5, <2>2, Zenon
<1>7. u \in 1 .. 5 /\ In(u)
  BY <1>4, <1>5, <1>6, SMT
<1>8. CASE u = 1
  BY <1>7, <1>8, <1>1, SMT DEF Units, SizeIEC
<1>9. CASE u = 2
  <2>1. ~In(1) /\ In(2)
    BY <1>5, <1>7, <1>9, SMT
  <2>2. QED
    BY <1>9, <1>1, <2>1, SMT DEF Units, SizeIEC
<1>10. CASE u = 3
  <2>1. ~In(2) /\ In(3)
    BY <1>5, <1>7, <1>10, SMT
  <2>2. QED
    BY <1>10, <1>1, <2>1, SMT DEF Units, SizeIEC
<1>11. CASE u = 4
  <2>1. ~In(3) /\ In(4)
    BY <1>5, <1>7, <1>11, SMT
  <2>2. QED
    BY <1>11, <1>1, <2>1, SMT DEF Units, SizeIEC
<1>12. CASE u = 5
  <2>1. ~In(4) /\ In(5)
    BY <1>5, <1>7, <1>12, SMT
  <2>2. QED
    BY <1>12, <1>1, <2>1, SMT DEF Units, SizeIEC
<1>13. QED
  BY <1>7, <1>8, <1>9, <1>10, <1>11, <1>12, SMT

(* The rounded quotient is within half a unit of the exact one. *)
LEMMA RoundedQuotientIs ==
  ASSUME NEW u \in 1 .. 5, NEW m \in Nat
  PROVE  LET size == SizeIEC(u)
             q    == RoundedQuotient(m, size)
         IN  /\ q \in Int
             /\ m \div size <= q /\ q <= m \div size + 1
             /\ q * (2 * size) <= 2 * m + size /\ 2 * m - size <= q * (2 * size)
<1>1. CASE u = 1
  BY <1>1, SMT DEF RoundedQuotient, SizeIEC
<1>2. CASE u = 2
  BY <1>2, SMT DEF RoundedQuotient, SizeIEC
<1>3. CASE u = 3
  BY <1>3, SMT DEF RoundedQuotient, SizeIEC
<1>4. CASE u = 4
  BY <1>4, SMT DEF RoundedQuotient, SizeIEC
<1>5. CASE u = 5
  BY <1>5, SMT DEF RoundedQuotient, SizeIEC
<1>6. QED
  BY <1>1, <1>2, <1>3, <1>4, <1>5, SMT

Fits(n, digits, decimals, unit) ==
  LET size == SizeIEC(unit)
  IN  /\ digits \in (IF unit = 0 THEN 0 ELSE 100) .. (IF decimals = 0 THEN 1023 ELSE 999)
      /\ digits \div 10 ^ decimals \in n \div size .. n \div size + 1

Times(decimals) == CASE decimals = 2 -> 100 [] decimals = 1 -> 10 [] decimals = 0 -> 1

LEMMA DigitsFit ==
  ASSUME NEW n \in Nat, NEW u \in 1 .. 5, Units(n, u), NEW d, d = DecimalsIEC(n, u),
         NEW q, q = RoundedQuotient(n * Times(d), SizeIEC(u))
  PROVE  Fits(n, q, d, u)
<1>1. PICK size \in Nat : size = SizeIEC(u) /\ 0 < size
  BY SMT DEF SizeIEC
<1>2. u # 6
  BY SMT
<1>3. /\ BelowFraction(n, size, 1999, 200) <=> 200 * n < 1999 * size
      /\ BelowFraction(n, size, 1999, 20) <=> 20 * n < 1999 * size
  BY SMT DEF BelowFraction
<1>4. 2047 * size <= 2048 * n /\ 2 * n < 2047 * size
  BY <1>1, SMT DEF Units
<1>5. CASE 200 * n < 1999 * size
  <2>1. d = 2
    BY <1>1, <1>3, <1>5, SMT DEF DecimalsIEC
  <2>2. PICK m \in Nat : m = n * 100
    BY SMT
  <2>3. q = RoundedQuotient(m, SizeIEC(u))
    BY <2>1, <2>2, SMT DEF Times
  <2>4. /\ q \in Int
        /\ m \div size <= q /\ q <= m \div size + 1
        /\ q * (2 * size) <= 2 * m + size /\ 2 * m - size <= q * (2 * size)
    BY <1>1, <2>3, RoundedQuotientIs, SMT
  <2>5. 100 <= q /\ q <= 999
    BY <1>1, <1>4, <1>5, <2>2, <2>4, SMT
  <2>6. (m \div size) \div 100 = n \div size
    BY <1>1, <2>2, SMT DEF SizeIEC
  <2>7. QED
    BY <1>1, <2>1, <2>4, <2>5, <2>6, SMT DEF Fits
<1>6. CASE 1999 * size <= 200 * n /\ 20 * n < 1999 * size
  <2>1. d = 1
    BY <1>1, <1>2, <1>3, <1>6, SMT DEF DecimalsIEC
  <2>2. PICK m \in Nat : m = n * 10
    BY SMT
  <2>3. q = RoundedQuotient(m, SizeIEC(u))
    BY <2>1, <2>2, SMT DEF Times
  <2>4. /\ q \in Int
        /\ m \div size <= q /\ q <= m \div size + 1
        /\ q * (2 * size) <= 2 * m + size /\ 2 * m - size <= q * (2 * size)
    BY <1>1, <2>3, RoundedQuotientIs, SMT
  <2>5. 100 <= q /\ q <= 999
    BY <1>1, <1>4, <1>6, <2>2, <2>4, SMT
  <2>6. (m \div size) \div 10 = n \div size
    BY <1>1, <2>2, SMT DEF SizeIEC
  <2>7. QED
    BY <1>1, <2>1, <2>4, <2>5, <2>6, SMT DEF Fits
<1>7. CASE 1999 * size <= 20 * n
  <2>1. d = 0
    BY <1>1, <1>2, <1>3, <1>4, <1>7, SMT DEF DecimalsIEC
  <2>2. n * 1 = n
    BY SMT
  <2>3. q = RoundedQuotient(n, SizeIEC(u))
    BY <2>1, <2>2, SMT DEF Times
  <2>4. /\ q \in Int
        /\ n \div size <= q /\ q <= n \div size + 1
        /\ q * (2 * size) <= 2 * n + size /\ 2 * n - size <= q * (2 * size)
    BY <1>1, <2>3, RoundedQuotientIs, SMT
  <2>5. 100 <= q /\ q <= 1023
    BY <1>1, <1>4, <1>7, <2>4, SMT
  <2>6. QED
    BY <1>1, <2>1, <2>4, <2>5, SMT DEF Fits
<1>8. QED
  BY <1>1, <1>5, <1>6, <1>7, SMT

(* formatIEC() prints three digits, or four up to 1023, and a unit of every *)
(* number that a double holds, from 1024 on; they are off by no more than   *)
(* one.                                                                     *)
THEOREM FormatIECFits ==
  ASSUME NEW n \in Nat, n \div 2 ^ 26 < 2 ^ 27, NEW q, q = FormatIEC(n)
  PROVE  Fits(n, q.digits, q.decimals, q.unit)
<1>1. CASE n < 1024
  <2>1. q = [digits |-> n, decimals |-> 0, unit |-> 0]
    BY <1>1, SMT DEF FormatIEC
  <2>2. q.digits = n /\ q.decimals = 0 /\ q.unit = 0
    BY <2>1, SMT
  <2>3. Fits(n, n, 0, 0)
    BY <1>1, SMT DEF Fits, SizeIEC
  <2>4. QED
    BY <2>2, <2>3, SMT
<1>2. CASE 1024 <= n
  <2>1. PICK u : u = UnitIEC(n)
    OBVIOUS
  <2>2. PICK d : d = DecimalsIEC(n, u)
    OBVIOUS
  <2>3. q = [digits   |-> RoundedQuotient(n * Times(d), SizeIEC(u)),
             decimals |-> d, unit |-> u]
    <3>1. ~(n < 1024)
      BY <1>2, SMT
    <3>2. FormatIEC(n) = [digits   |-> RoundedQuotient(n * Times(d), SizeIEC(u)),
                          decimals |-> d, unit |-> u]
      <4>1. d \in 0 .. 2
        BY <2>2, SMT DEF DecimalsIEC
      <4>2. CASE d = 0
        BY <2>1, <2>2, <3>1, <4>2, SMT DEF FormatIEC, Times
      <4>3. CASE d = 1
        BY <2>1, <2>2, <3>1, <4>3, SMT DEF FormatIEC, Times
      <4>4. CASE d = 2
        BY <2>1, <2>2, <3>1, <4>4, SMT DEF FormatIEC, Times
      <4>5. QED
        BY <4>1, <4>2, <4>3, <4>4, SMT
    <3>3. QED
      BY <3>2
  <2>4. PICK p : p = RoundedQuotient(n * Times(d), SizeIEC(u))
    OBVIOUS
  <2>5. q.digits = p /\ q.decimals = d /\ q.unit = u
    BY <2>3, <2>4, SMT
  <2>6. u \in 1 .. 5 /\ Units(n, u)
    BY <1>2, <2>1, UnitIECIs, SMT
  <2>7. Fits(n, p, d, u)
    BY <2>2, <2>4, <2>6, DigitsFit, SMT
  <2>8. QED
    BY <2>5, <2>7, SMT
<1>3. QED
  BY <1>1, <1>2, SMT

(* What formatSI() and formatIEC() are given. *)
FormatInput ==
  /\ input.kind = "SI" => input.groups \in Numbers
  /\ input.kind = "IEC" => input.n \in Nat

LEMMA FormatInputInit == Init => FormatInput
<1> SUFFICES ASSUME Init PROVE FormatInput
  OBVIOUS
<1>1. CASE input.kind = "SI"
  <2>1. PICK n \in Places : input = [kind |-> "SI", groups |-> n, left |-> Stretch]
    BY <1>1, SMT DEF Init, First
  <2>2. QED
    BY <2>1, PlacesType, SMT DEF FormatInput
<1>2. CASE input.kind = "IEC"
  <2>1. PICK n \in PlacesIEC : input = [kind |-> "IEC", n |-> n, left |-> Stretch]
    BY <1>2, SMT DEF Init, First
  <2>2. PlacesIEC \subseteq Nat
    BY SMT DEF PlacesIEC
  <2>3. QED
    BY <2>1, <2>2, SMT DEF FormatInput
<1>3. QED
  BY <1>1, <1>2 DEF FormatInput

LEMMA FormatInputStep == InputInv /\ FormatInput /\ [Next]_input => FormatInput'
<1> SUFFICES ASSUME InputInv, FormatInput, [Next]_input PROVE FormatInput'
  OBVIOUS
<1>1. CASE NextNumber
  <2>1. NumberInput
    BY <1>1, SMT DEF InputInv, YearInput, InstantInput, NextNumber
  <2>2. CASE input.kind = "SI"
    <3>1. PICK n, l : input = [kind |-> "SI", groups |-> n, left |-> l]
      BY <2>1, <2>2, SMT DEF NumberInput
    <3>2. input' = [kind |-> "SI", groups |-> PlusOne(n), left |-> l - 1]
      BY <1>1, <3>1 DEF NextNumber
    <3>3. n \in Numbers
      BY <2>2, <3>1, SMT DEF FormatInput
    <3>4. QED
      BY <3>2, <3>3, PlusOneType, SMT DEF FormatInput
  <2>3. CASE input.kind # "SI"
    <3>1. PICK k \in {"IEC", "int", "line"}, n \in Int : \E l : input = [kind |-> k, n |-> n, left |-> l]
      BY <2>1, <2>3, SMT DEF NumberInput
    <3>2. PICK l : input = [kind |-> k, n |-> n, left |-> l]
      BY <3>1
    <3>3. input' = [kind |-> k, n |-> n + 1, left |-> l - 1]
      BY <1>1, <3>2 DEF NextNumber
    <3>4. k = "IEC" => n \in Nat
      BY <3>2, SMT DEF FormatInput
    <3>5. input'.kind = k /\ input'.n = n + 1
      BY <3>3, SMT
    <3>6. k = "IEC" => n + 1 \in Nat
      BY <3>4, SMT
    <3>7. QED
      BY <3>5, <3>6, SMT DEF FormatInput
  <2>4. QED
    BY <2>2, <2>3
<1>2. CASE NextYear \/ NextInstant
  <2>1. YearInput \/ InstantInput
    BY <1>2, SMT DEF InputInv, NumberInput, NextYear, NextInstant
  <2>2. input'.kind \in {"year", "instant"}
    <3>1. CASE NextYear
      BY <2>1, <3>1, SMT DEF YearInput, InstantInput, NextYear
    <3>2. CASE NextInstant
      BY <2>1, <3>2, SMT DEF YearInput, InstantInput, NextInstant
    <3>3. QED
      BY <1>2, <3>1, <3>2
  <2>3. QED
    BY <2>2, SMT DEF FormatInput
<1>3. CASE input' = input
  BY <1>3, SMT DEF FormatInput
<1>4. QED
  BY <1>1, <1>2, <1>3 DEF Next

LEMMA FormatInputInvariance == Spec => []FormatInput
BY InputInvariance, FormatInputInit, FormatInputStep, PTL DEF Spec

(* Every number below 2^53 prints with three significant digits if it has a *)
(* unit, never as 1000k; in binary units it prints as at most 1023 of the   *)
(* unit and is off by no more than one.                                     *)
THEOREM FormatsFitInvariance == Spec => []FormatsFit
<1>1. FormatInput => FormatsFit
  <2> SUFFICES ASSUME FormatInput PROVE FormatsFit
    OBVIOUS
  <2>1. ASSUME input.kind = "SI", LessThan(input.groups, TwoTo(53)), NEW q \in FormatSI(input.groups)
        PROVE  IF q.unit = 0 THEN q.digits \in 0 .. 999 ELSE q.digits \in 100 .. 999
    <3>1. PICK n \in Numbers : n = input.groups
      BY <2>1, Zenon DEF FormatInput
    <3>2. LessThan(n, TwoTo(53)) /\ q \in FormatSI(n)
      BY <2>1, <3>1, Zenon
    <3>3. QED
      BY <3>2, FormatSIFits, SMT
  <2>2. ASSUME input.kind = "IEC", input.n \div 2 ^ 26 < 2 ^ 27
        PROVE  LET q    == FormatIEC(input.n)
                   size == SizeIEC(q.unit)
               IN  /\ q.digits \in (IF q.unit = 0 THEN 0 ELSE 100) .. (IF q.decimals = 0 THEN 1023 ELSE 999)
                   /\ q.digits \div 10 ^ q.decimals \in input.n \div size .. input.n \div size + 1
    <3>1. PICK n \in Nat : n = input.n
      BY <2>2, SMT DEF FormatInput
    <3>2. PICK q : q = FormatIEC(n)
      OBVIOUS
    <3>3. Fits(n, q.digits, q.decimals, q.unit)
      BY <2>2, <3>1, <3>2, FormatIECFits, SMT
    <3>4. QED
      BY <3>1, <3>2, <3>3, SMT DEF Fits
  <2>3. QED
    BY <2>1, <2>2, SMT DEF FormatsFit
<1>2. QED
  BY <1>1, FormatInputInvariance, PTL
=============================================================================
