------------------------------- MODULE MCBase -------------------------------
(***************************************************************************)
(* The algorithms of Calendar, TimeZone, NumberFormat and LogStream,       *)
(* checked over bounded inputs, against reference definitions where there  *)
(* is one.  The one variable is the input: the years from 1900 to 2500 are *)
(* walked one by one with the calendar's rules, instants by quarters of an *)
(* hour around the transitions of some zones, numbers one by one around    *)
(* the places where the format changes, and log statements byte by byte    *)
(* around the length at which their buffer is full.                        *)
(***************************************************************************)
EXTENDS TimeZone, NumberFormat, LogStream

CONSTANTS
  LastYear,      \* the years walked begin with 1900
  Stretch,       \* how many numbers are tried on from a place in Places
  Large          \* whether formatSI() is given numbers a double cannot hold

ASSUME StretchAssumption == Stretch \in Nat

VARIABLE input

-----------------------------------------------------------------------------
(* The reference, besides the calendar of gmtime_r(): the meaning of a zone *)
(* and of digits.                                                          *)

OffsetAt(zone, u) ==
  LET past == {i \in DOMAIN zone.transitions : zone.transitions[i].utcTime <= u}
  IN  IF past = {} THEN zone.localTimes[1].utcOffset
      ELSE LocalTimeAt(zone, CHOOSE i \in past : \A j \in past : j <= i).utcOffset

\* The instants at which clocks of the zone show a local time.
InstantsOf(zone, local) ==
  LET offsets == {zone.localTimes[i].utcOffset : i \in DOMAIN zone.localTimes}
  IN  {u \in {local - o : o \in offsets} : u + OffsetAt(zone, u) = local}

\* The number that digits make.
Reads(text, base) ==
  LET value[i \in 0 .. Len(text)] == IF i = 0 THEN 0 ELSE value[i - 1] * base + text[i]
  IN  value[Len(text)]

-----------------------------------------------------------------------------
(* Inputs.                                                                 *)

Noon(y, m, d, h) ==
  FromUtcTime([year |-> y, month |-> m, day |-> d, hour |-> h, minute |-> 0, second |-> 0])

\* The zone in the comment of findLocalTime(), with the local time that held
\* before standard time in front, and a western one that ends in summer time.
China ==
  LET offsets == AddLocalTime(AddLocalTime(FixedZone(29143), 8 * 3600, FALSE), 9 * 3600, TRUE)
      t1 == AddTransition(offsets, Noon(1989, 9, 16, 17), 2)
      t2 == AddTransition(t1, Noon(1990, 4, 14, 18), 3)
      t3 == AddTransition(t2, Noon(1990, 9, 15, 17), 2)
      t4 == AddTransition(t3, Noon(1991, 4, 13, 18), 3)
  IN  AddTransition(t4, Noon(1991, 9, 14, 17), 2)

Western ==
  LET offsets == AddLocalTime(FixedZone(-5 * 3600), -4 * 3600, TRUE)
      t1 == AddTransition(offsets, Noon(1965, 4, 25, 7), 2)
      t2 == AddTransition(t1, Noon(1965, 10, 31, 6), 1)
  IN  AddTransition(t2, Noon(1966, 4, 24, 7), 2)

Zones == {UTC, FixedZone(-12600), China, Western}

Small(k) == [i \in 0 .. 6 |-> IF i = k THEN 1 ELSE 0]

\* Numbers shortly before 1000, 9995, 99950 and 999500 with 0, 3, 6 ... zeros.
Places ==
  LET before(unit, hi, lo) ==
        [i \in 0 .. 6 |-> CASE i < unit - 1 -> 999 [] i = unit - 1 -> lo [] i = unit -> hi [] OTHER -> 0]
      digits(u) == {before(u, 9, 994), before(u, 99, 949), before(u, 999, 499), before(u, 0, 999)}
      start(n)  == [n EXCEPT ![0] = @ - 4]
  IN  IF Large THEN {start(n) : n \in digits(5)}
      ELSE {start(n) : n \in {before(5, 0, 999)} \cup UNION {digits(u) : u \in 1 .. 4}}

PlacesIEC == {0, 1020, 10230, 102345, 1048060, 10480510, 104805165, 1073217511}

PlacesInt == {-2147483647, -1005, -13, 95, 995, 2147483600}

First ==
  {[kind |-> "year", year |-> 1900, jan1 |-> 2415021, weekDay |-> 1]}     \* a Monday
  \cup {[kind |-> "instant", zone |-> z, utc |-> u, until |-> u + 4 * 3600] :
          z \in Zones, u \in {-7200, Noon(1965, 4, 25, 5), Noon(1965, 10, 31, 4), Noon(1966, 4, 24, 5),
                              Noon(1989, 9, 16, 15), Noon(1990, 4, 14, 16), Noon(1990, 9, 15, 15),
                              Noon(1991, 4, 13, 16), Noon(1991, 9, 14, 15)}}
  \cup {[kind |-> "SI", groups |-> n, left |-> Stretch] : n \in Places}
  \cup {[kind |-> "IEC", n |-> n, left |-> Stretch] : n \in PlacesIEC}
  \cup {[kind |-> "int", n |-> n, left |-> Stretch] : n \in PlacesInt}
  \cup {[kind |-> "line", n |-> n, left |-> Stretch] : n \in {3920 + k * Stretch : k \in 0 .. 5}}

Init == input \in First

NextYear ==
  /\ input.kind = "year" /\ input.year < LastYear
  /\ LET days == DaysBefore(input.year)[13]
     IN  input' = [input EXCEPT !.year = @ + 1, !.jan1 = @ + days, !.weekDay = (@ + days) % 7]

NextInstant ==
  /\ input.kind = "instant" /\ input.utc < input.until
  /\ input' = [input EXCEPT !.utc = @ + 900]

NextNumber ==
  /\ input.kind \in {"SI", "IEC", "int", "line"} /\ input.left > 0
  /\ input' = IF input.kind = "SI" THEN [input EXCEPT !.groups = PlusOne(@), !.left = @ - 1]
                                   ELSE [input EXCEPT !.n = @ + 1, !.left = @ - 1]

Next == NextYear \/ NextInstant \/ NextNumber

Spec == Init /\ [][Next]_input

-----------------------------------------------------------------------------
(* Properties.                                                             *)

\* getJulianDayNumber(), getYearMonthDay() and weekDay() agree with the
\* Gregorian calendar on every day of the years datetime.h promises.
DatesAgree ==
  input.kind = "year" =>
    \A m \in 1 .. 12 : \A d \in 1 .. MonthLengths(input.year)[m] :
      LET day == DaysBefore(input.year)[m] + d - 1
          jdn == input.jan1 + day
      IN  /\ GetJulianDayNumber(input.year, m, d) = jdn
          /\ GetYearMonthDay(jdn) = [year |-> input.year, month |-> m, day |-> d]
          /\ WeekDay(jdn) = (input.weekDay + day) % 7

\* breakTime() and fromUtcTime() agree with gmtime_r() on the time of day, and
\* undo one another, before 1970 too, where C++ rounds the quotients the other
\* way; a Timestamp from 1970 on, which gmtime_r() prints, shows the time that
\* breakTime() has for the seconds it was made from, and its microseconds.  The
\* years and instants are those whose seconds, or microseconds, are below 2^31.
TimesOfDayAgree ==
  /\ input.kind = "year" /\ 1902 <= input.year /\ input.year <= 2037 =>
       \A day \in {0, 58, 59, 60, 364} :
       \A h \in {0, 7, 23}, m \in {0, 59}, s \in {0, 1, 59} :
         LET date == GetYearMonthDay(input.jan1 + day)
             dt   == At(date, [hour |-> h, minute |-> m, second |-> s])
             t    == (input.jan1 + day - 2440588) * 86400 + h * 3600 + m * 60 + s
         IN  BreakTime(t) = dt /\ GmTime(t) = dt /\ FromUtcTime(dt) = t
  /\ input.kind = "instant" /\ 0 <= input.utc /\ input.utc <= 2146 =>
       \A us \in {0, 1, 999999} :
         LET ts == FromUnixTime(input.utc, us)
         IN  /\ Valid(ts) <=> input.utc + us > 0
             /\ ToFormattedString(ts) = [dateTime |-> BreakTime(input.utc), micro |-> us]

\* toLocalTime() uses the offset in force; fromLocalTime() of a local time
\* that clocks do show is an instant at which they show it, whatever the
\* value of post_transition.
LocalTimesInvert ==
  input.kind = "instant" =>
    LET z == input.zone
    IN  \A u \in {input.utc - 1, input.utc} :
          LET local == u + OffsetAt(z, u)
          IN  /\ ToLocalTime(z, u) = [dateTime |-> BreakTime(local), utcOffset |-> OffsetAt(z, u)]
              /\ \A post \in BOOLEAN :
                   FromLocalTime(z, BreakTime(local), post) \in InstantsOf(z, local)

\* post_transition chooses: of a local time that occurs twice the second
\* instant; of one that is skipped the instant reckoned with the offset after
\* the transition, which lies before it.  The code does so except at the ends
\* of the table: a repetition at the first or the last transition and a skip
\* at the first are resolved one way only.
Chooses(z, local) ==
  LET utc  == UtcTimes(z)
      n    == Len(utc)
      pre  == FromLocalTime(z, BreakTime(local), FALSE)
      post == FromLocalTime(z, BreakTime(local), TRUE)
      is   == InstantsOf(z, local)
  IN  /\ (\E i \in 2 .. n - 1, u, v \in is : u < utc[i] /\ utc[i] <= v)
           => is = {pre, post} /\ pre < post
      /\ (is = {} /\ n > 0 /\ local >= LocalTimes(z)[1])
           => \E i \in 2 .. n : post < utc[i] /\ utc[i] <= pre

\* So it is with every local time that an instant, or the second before it, has
\* with some offset of the zone.
PostTransitionChooses ==
  input.kind = "instant" =>
    LET z == input.zone
    IN  \A u \in {input.utc - 1, input.utc}, i \in DOMAIN z.localTimes :
          Chooses(z, u + z.localTimes[i].utcOffset)

\* For numbers that a double holds, those below 2^53, formatSI() prints three
\* significant digits with a unit: never "1000k" and never one character too
\* many.  formatIEC() prints [1.00, 9.99], [10.0, 99.9] or [100, 1023] with a
\* unit, as its comment says, never the 1024 of the next one, and less than one
\* more than the number.
FormatsFit ==
  /\ input.kind = "SI" /\ LessThan(input.groups, TwoTo(53)) =>
       \A q \in FormatSI(input.groups) :
         IF q.unit = 0 THEN q.digits \in 0 .. 999 ELSE q.digits \in 100 .. 999
  /\ input.kind = "IEC" /\ input.n \div 2^26 < 2^27 =>
       LET q    == FormatIEC(input.n)
           size == SizeIEC(q.unit)
       IN  /\ q.digits \in (IF q.unit = 0 THEN 0 ELSE 100) .. (IF q.decimals = 0 THEN 1023 ELSE 999)
           /\ q.digits \div 10 ^ q.decimals \in input.n \div size .. input.n \div size + 1

\* What log_util.h says of formatSI() for every number from 0 on: "The returned
\* string is atmost 5 characters long."  It fails where the number, as a double,
\* is rounded up to 99.95P after the integer was found to be below that.
FiveCharactersSI ==
  input.kind = "SI" =>
    \A q \in FormatSI(input.groups) :
      Len(Stored(q.digits, 10)) + (IF q.decimals > 0 THEN 1 ELSE 0)
                                + (IF q.unit > 0 THEN 1 ELSE 0) <= 5

\* A line never overflows its buffer; it ends with a newline unless all but one
\* of the bytes are used; its header is complete; and it has a line number only
\* if it has the name of the file too, provided that is shorter than a number.
LineEnds ==
  input.kind = "line" =>
    \A utc \in BOOLEAN, error \in {0, 2}, name \in {11, 47},
       body \in {<<Text("body", input.n)>>,
                 <<Number("pointer", "p", 12), CString(TRUE, 0), Text("body", input.n - 20)>>,
                 <<Text("body", input.n - 18), Number("double", "d", 18)>>} :
      LET header == Header(utc, 15, [textSize |-> 9, digits |-> error])
          line   == Finish(InsertAll(header, body), name, 3)
      IN  /\ line.length < SmallBuffer
          /\ Last(line.parts) = "newline" \/ line.length = SmallBuffer - 1
          /\ Len(header.parts) = (IF error = 0 THEN 4 ELSE 8)
          /\ Contains(line.parts, "line") => Contains(line.parts, "name")

\* The text of an integer of either sign reads back as that integer and has no
\* leading zero.
IntegersReadBack ==
  input.kind = "int" =>
    LET dec == Convert(input.n)
        hex == ConvertHex(input.n)
    IN  /\ Reads(dec.text, 10) = (IF dec.minus THEN -input.n ELSE input.n)
        /\ dec.text[1] = 0 => input.n = 0
        /\ input.n >= 0 => Reads(hex.text, 16) = input.n
=============================================================================
