------------------------------ MODULE TimeZone ------------------------------
(***************************************************************************)
(* Time zones, base/time/time_zone.cc.  A zone is its Data: the local      *)
(* times (offsets from UTC) and the transitions between them, sorted by    *)
(* UTC time.  The public constructor makes zones without transitions; the  *)
(* searches through a table of transitions are those a loader of zone      *)
(* files would rely on.  Positions in sequences count from 1.              *)
(***************************************************************************)
EXTENDS Calendar, Sequences

EmptyData == [localTimes |-> <<>>, transitions |-> <<>>]

AddLocalTime(zone, utcOffset, isDst) ==
  [zone EXCEPT !.localTimes = Append(@, [utcOffset |-> utcOffset, isDst |-> isDst])]

AddTransition(zone, utcTime, localTimeIdx) ==
  LET offset == zone.localTimes[localTimeIdx].utcOffset
  IN  [zone EXCEPT !.transitions =
         Append(@, [utcTime |-> utcTime, localTime |-> utcTime + offset, idx |-> localTimeIdx])]

\* TimeZone(east_of_utc, name).
FixedZone(eastOfUtc) == AddLocalTime(EmptyData, eastOfUtc, FALSE)

UTC == FixedZone(0)

\* The comparators by which std::upper_bound() searches.
UtcTimes(zone) == [i \in DOMAIN zone.transitions |-> zone.transitions[i].utcTime]
LocalTimes(zone) == [i \in DOMAIN zone.transitions |-> zone.transitions[i].localTime]

\* std::upper_bound(): the first position whose value is greater.
UpperBound(values, value) ==
  CHOOSE i \in 1 .. Len(values) + 1 :
    /\ i <= Len(values) => values[i] > value
    /\ \A j \in 1 .. i - 1 : values[j] <= value

LocalTimeAt(zone, i) == zone.localTimes[zone.transitions[i].idx]

\* Defect: std::lower_bound() instead, so a transition comes a second late.
FindLocalTimeOfUtcLate(zone, utcTime) ==
  LET n == Len(zone.transitions)
  IN  IF n = 0 \/ utcTime < UtcTimes(zone)[1] THEN Head(zone.localTimes)
      ELSE LET i == UpperBound(UtcTimes(zone), utcTime - 1)
           IN  IF i = 1 THEN Head(zone.localTimes) ELSE LocalTimeAt(zone, i - 1)

\* findLocalTime(utc_time): the local time in force at an instant.
FindLocalTimeOfUtc(zone, utcTime) ==
  LET n == Len(zone.transitions)
  IN  IF n = 0 \/ utcTime < UtcTimes(zone)[1]
        THEN Head(zone.localTimes)
        ELSE LocalTimeAt(zone, UpperBound(UtcTimes(zone), utcTime) - 1)

\* The last second before the transition at position i, in the local time of
\* the transition before it.
PriorSecond(zone, i) ==
  zone.transitions[i].utcTime - 1 + LocalTimeAt(zone, i - 1).utcOffset

\* Defect: the two local times of a repeated hour are swapped.
FindLocalTimeSwapped(zone, local, postTransition) ==
  LET n == Len(zone.transitions)
      i == UpperBound(LocalTimes(zone), local)
  IN  IF n = 0 \/ local < LocalTimes(zone)[1] THEN Head(zone.localTimes)
      ELSE IF i > n THEN LocalTimeAt(zone, n)
      ELSE IF PriorSecond(zone, i) < local
        THEN LocalTimeAt(zone, IF postTransition THEN i ELSE i - 1)
      ELSE IF i - 1 > 1 /\ local <= PriorSecond(zone, i - 1)
        THEN LocalTimeAt(zone, IF postTransition THEN i - 2 ELSE i - 1)
      ELSE LocalTimeAt(zone, i - 1)

\* findLocalTime(local, post_transition).  After the first of the transitions
\* prior_trans and prior_second keep the values of the transition after it, so
\* that the last test succeeds and both answers are the first one's local time;
\* after the last transition nothing is tested at all.
FindLocalTimeOfLocal(zone, local, postTransition) ==
  LET n == Len(zone.transitions)
      i == UpperBound(LocalTimes(zone), local)
  IN  IF n = 0 \/ local < LocalTimes(zone)[1] THEN Head(zone.localTimes)
      ELSE IF i > n THEN LocalTimeAt(zone, n)
      ELSE IF PriorSecond(zone, i) < local                        \* a skip
        THEN LocalTimeAt(zone, IF postTransition THEN i ELSE i - 1)
      ELSE IF i - 1 > 1 /\ local <= PriorSecond(zone, i - 1)      \* a repeat
        THEN LocalTimeAt(zone, IF postTransition THEN i - 1 ELSE i - 2)
      ELSE LocalTimeAt(zone, i - 1)

ToLocalTime(zone, seconds) ==
  LET offset == FindLocalTimeOfUtc(zone, seconds).utcOffset
  IN  [dateTime |-> BreakTime(seconds + offset), utcOffset |-> offset]

FromLocalTime(zone, dt, postTransition) ==
  LET local == FromUtcTime(dt)
  IN  local - FindLocalTimeOfLocal(zone, local, postTransition).utcOffset
=============================================================================
