------------------------------ MODULE Calendar ------------------------------
(***************************************************************************)
(* Dates, times of day and time stamps: the conversions of                 *)
(* base/time/datetime.cc, the UTC part of base/time/time_zone.cc and       *)
(* pginf/base/timestamp.h.  A date is a record [year, month, day], a       *)
(* DateTime has the fields hour, minute and second besides, a Date of the  *)
(* code is its Julian day number, a Timestamp its count of microseconds.   *)
(***************************************************************************)
EXTENDS Integers

\* The operators / and % of C++ round towards zero, \div and % of TLA+ down.
Quotient(n, d) == IF n >= 0 THEN n \div d ELSE -((-n) \div d)
Remainder(n, d) == n - d * Quotient(n, d)

-----------------------------------------------------------------------------
(* Days.  All quotients are of natural numbers from year -4800 on.         *)

\* Defect: January and February are counted to their own year.
GetJulianDayNumberOwnYear(year, month, day) ==
  LET m == month + 12 * ((14 - month) \div 12) - 3
      y == year + 4800
  IN  day + (153 * m + 2) \div 5
        + y * 365 + y \div 4 - y \div 100 + y \div 400 - 32045

GetJulianDayNumber(year, month, day) ==
  LET a == (14 - month) \div 12   \* January and February end the year before
      y == year + 4800 - a
      m == month + 12 * a - 3
  IN  day + (153 * m + 2) \div 5
        + y * 365 + y \div 4 - y \div 100 + y \div 400 - 32045

GetYearMonthDay(julianDayNumber) ==
  LET a == julianDayNumber + 32044
      b == (4 * a + 3) \div 146097
      c == a - (b * 146097) \div 4
      d == (4 * c + 3) \div 1461
      e == c - (1461 * d) \div 4
      m == (5 * e + 2) \div 153
  IN  [year  |-> b * 100 + d - 4800 + m \div 10,
       month |-> m + 3 - 12 * (m \div 10),
       day   |-> e - (153 * m + 2) \div 5 + 1]

JulianDayOf19700101 == GetJulianDayNumber(1970, 1, 1)

WeekDay(julianDayNumber) == (julianDayNumber + 1) % 7

-----------------------------------------------------------------------------
(* Times of day.                                                           *)

SecondsPerDay == 24 * 60 * 60

\* fillHMS() stores into a DateTime; here it returns the three fields.
FillHMS(seconds) ==
  LET minutes == seconds \div 60
      hour    == minutes \div 60
  IN  [hour |-> hour, minute |-> minutes - hour * 60, second |-> seconds - minutes * 60]

At(date, hms) ==
  [year |-> date.year, month |-> date.month, day |-> date.day,
   hour |-> hms.hour, minute |-> hms.minute, second |-> hms.second]

\* Defect: the borrow of a day for times before 1970 is forgotten.
BreakTimeNoBorrow(t) ==
  LET seconds == Remainder(t, SecondsPerDay)
  IN  At(GetYearMonthDay(Quotient(t, SecondsPerDay) + JulianDayOf19700101),
         FillHMS(IF seconds < 0 THEN seconds + SecondsPerDay ELSE seconds))

BreakTime(t) ==
  LET seconds == Remainder(t, SecondsPerDay)
      days    == Quotient(t, SecondsPerDay)
      before  == seconds < 0
  IN  At(GetYearMonthDay((IF before THEN days - 1 ELSE days) + JulianDayOf19700101),
         FillHMS(IF before THEN seconds + SecondsPerDay ELSE seconds))

FromUtcTime(dt) ==
  (GetJulianDayNumber(dt.year, dt.month, dt.day) - JulianDayOf19700101) * SecondsPerDay
    + dt.hour * 3600 + dt.minute * 60 + dt.second

-----------------------------------------------------------------------------
(* The C library's gmtime_r(): the Gregorian calendar by its own rules, and *)
(* seconds since the epoch as POSIX counts them.  Nothing of the            *)
(* conversions above is used in it.                                         *)

IsLeapYear(y) == y % 4 = 0 /\ (y % 100 = 0 => y % 400 = 0)

MonthLengths(y) == <<31, IF IsLeapYear(y) THEN 29 ELSE 28, 31, 30, 31, 30, 31, 31, 30, 31, 30, 31>>

DaysBefore(y) ==
  LET before[m \in 1 .. 13] == IF m = 1 THEN 0 ELSE before[m - 1] + MonthLengths(y)[m - 1]
  IN  before

\* The days from the first of January of 1970 to that of the year.
DaysTo(year) ==
  (year - 1970) * 365 + (year - 1969) \div 4 - (year - 1901) \div 100 + (year - 1601) \div 400

Holds(year, days) == DaysTo(year) <= days /\ days < DaysTo(year + 1)

GmYear(days) ==
  LET a == 1970 + days \div 365
      b == 1970 + days \div 366
  IN  CHOOSE y \in (a .. b) \cup (b .. a) : Holds(y, days)

GmMonth(year, yearDay) ==
  CHOOSE m \in 1 .. 12 : DaysBefore(year)[m] <= yearDay /\ yearDay < DaysBefore(year)[m + 1]

GmDate(days) ==
  LET year    == GmYear(days)
      yearDay == days - DaysTo(year)
      month   == GmMonth(year, yearDay)
  IN  [year |-> year, month |-> month, day |-> yearDay - DaysBefore(year)[month] + 1]

GmClock(seconds) ==
  [hour |-> seconds \div 3600, minute |-> (seconds \div 60) % 60, second |-> seconds % 60]

GmTime(t) == At(GmDate(t \div SecondsPerDay), GmClock(t % SecondsPerDay))

-----------------------------------------------------------------------------
(* Time stamps.                                                            *)

MicrosecondsPerSecond == 1000 * 1000

FromUnixTime(t, microseconds) == t * MicrosecondsPerSecond + microseconds

Valid(timestamp) == timestamp > 0

SecondsSinceEpoch(timestamp) == Quotient(timestamp, MicrosecondsPerSecond)

\* The microseconds after the last full second, as toString(),
\* toFormattedString() and Logger::Data::formatTime() print them.
Microseconds(timestamp) ==
  timestamp - SecondsSinceEpoch(timestamp) * MicrosecondsPerSecond

ToFormattedString(timestamp) ==
  [dateTime |-> GmTime(SecondsSinceEpoch(timestamp)), micro |-> Microseconds(timestamp)]
=============================================================================
