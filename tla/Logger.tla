------------------------------- MODULE Logger -------------------------------
(***************************************************************************)
(* The front end of the log, base/log/logging.cc, with a LogFile behind    *)
(* it: setOutput() was given File::append() and setFlush() File::flush().  *)
(*                                                                         *)
(* A log statement of a thread is a Logger object: its constructor takes   *)
(* the time and formats it, from a cache of the thread while the second is *)
(* the same; its destructor outputs the line, and for FATAL flushes and    *)
(* aborts.  A text of a time is the second and the zone it was made with.  *)
(* setTimeZone() is called while no thread is in a log statement, as it    *)
(* would race otherwise; setLogLevel() at any time.                        *)
(***************************************************************************)
EXTENDS LogFile, TLC

CONSTANTS
  Threads,
  Zones, NoZone,            \* NoZone is the default TimeZone, which means UTC
  Levels, Fatal,            \* of LogLevel, as numbers
  Sizes,                    \* of lines
  MaxLines                  \* how many log statements there are

ASSUME LoggerAssumption ==
  /\ NoZone \in Zones
  /\ Levels \subseteq 0 .. Fatal /\ Fatal \in Nat
  /\ Sizes \subseteq Nat /\ MaxLines \in Nat

VARIABLES
  logLevel,   \* g_log_level
  zone,       \* g_log_time_zone
  shown,      \* history: the seconds the clock has shown until setTimeZone()
  cache,      \* t_last_second and t_time of each thread
  pc,         \* "out" of any statement, "open", "flush", "abort"
  line,       \* the line of the statement a thread is in
  place,      \* history: the file and position of a thread's FATAL line
  logged,     \* how many statements were begun
  aborted     \* empty, or who ended the program

loggerVars == <<logLevel, zone, shown, cache, pc, line, place, logged, aborted>>
vars == <<clockVars, fileVars, loggerVars>>

NoLine == [second |-> 0]
NoPlace == [file |-> 0, position |-> 0]
Symmetry == Permutations(Threads)

TypeOK ==
  /\ FileTypeOK
  /\ logLevel \in Levels /\ zone \in Zones
  /\ shown \subseteq FirstSecond .. LastSecond
  /\ \A t \in Threads : /\ pc[t] \in {"out", "open", "flush", "abort"}
                        /\ pc[t] = "out" <=> line[t] = NoLine
                        /\ cache[t].second \in 0 .. LastSecond
  /\ logged \in 0 .. MaxLines /\ aborted \subseteq Threads

Init ==
  /\ FileInit
  /\ logLevel \in Levels /\ zone = NoZone /\ shown = {now}
  /\ cache = [t \in Threads |-> [second |-> 0, zone |-> NoZone]]
  /\ pc = [t \in Threads |-> "out"] /\ line = [t \in Threads |-> NoLine]
  /\ place = [t \in Threads |-> NoPlace]
  /\ logged = 0 /\ aborted = {}

SetLogLevel ==
  /\ \E l \in Levels : logLevel' = l
  /\ UNCHANGED <<clockVars, fileVars, zone, shown, cache, pc, line, place, logged, aborted>>

\* The zone is set at most once.
SetTimeZone ==
  /\ zone = NoZone
  /\ \A t \in Threads : pc[t] = "out"
  /\ \E z \in Zones \ {NoZone} : zone' = z
  /\ UNCHANGED <<clockVars, fileVars, logLevel, shown, cache, pc, line, place, logged, aborted>>

\* Defect: the text is made anew only when time has advanced.
FormattedTime_Later(t) ==
  IF now > cache[t].second THEN [second |-> now, zone |-> zone] ELSE cache[t]

\* formatTime(): the text for this second, made anew unless it is the cached one.
FormattedTime(t) ==
  IF now # cache[t].second THEN [second |-> now, zone |-> zone] ELSE cache[t]

\* The constructor: Timestamp::now(), formatTime() and the rest of the header.
\* The mark Z of UTC is added according to the zone of this moment.
Construct(t) ==
  /\ pc[t] = "out" /\ logged < MaxLines
  /\ cache' = [cache EXCEPT ![t] = FormattedTime(t)]
  /\ \E l \in Levels : line' = [line EXCEPT ![t] = [level |-> l, second |-> now]]
  /\ pc' = [pc EXCEPT ![t] = "open"]
  /\ logged' = logged + 1
  /\ UNCHANGED <<clockVars, fileVars, logLevel, zone, shown, place, aborted>>

\* The end of the destructor, or the beginning of what it does for FATAL.
Leaves(t) ==
  LET fatal == line[t].level = Fatal
  IN  /\ pc' = [pc EXCEPT ![t] = IF fatal THEN "flush" ELSE "out"]
      /\ line' = [line EXCEPT ![t] = IF fatal THEN @ ELSE NoLine]

\* Where the next line goes.
Here == [file |-> file.name, position |-> Len(file.lines) + 1]

\* The destructor up to the output.  An exception from there terminates the
\* program, as destructors do not throw.
Destruct(t) ==
  /\ pc[t] = "open"
  /\ IF line[t].level >= logLevel
       THEN \E size \in Sizes, ok, opens \in {TRUE, ~Faults} :
              /\ AppendToFile(size, ok, opens)
              /\ place' = [place EXCEPT ![t] = IF line[t].level = Fatal THEN Here ELSE NoPlace]
              /\ aborted' = IF failed' # failed THEN {t} ELSE {}
              /\ Leaves(t)
       ELSE Leaves(t) /\ UNCHANGED <<fileVars, place, aborted>>
  /\ UNCHANGED <<clockVars, logLevel, zone, shown, cache, logged>>

\* Defect: the program is aborted without a flush.
FlushFatal_Nothing(t) ==
  /\ pc[t] = "flush"
  /\ pc' = [pc EXCEPT ![t] = "abort"]
  /\ UNCHANGED <<clockVars, fileVars, logLevel, zone, shown, cache, line, place, logged, aborted>>

\* FATAL: g_flush(), then abort().
FlushFatal(t) ==
  /\ pc[t] = "flush"
  /\ FlushFile
  /\ pc' = [pc EXCEPT ![t] = "abort"]
  /\ UNCHANGED <<clockVars, logLevel, zone, shown, cache, line, place, logged, aborted>>

Abort(t) ==
  /\ pc[t] = "abort"
  /\ aborted' = {t}
  /\ UNCHANGED <<clockVars, fileVars, logLevel, zone, shown, cache, pc, line, place, logged>>

Statement(t) == Construct(t) \/ Destruct(t) \/ FlushFatal(t) \/ Abort(t)

ClockMoves ==
  /\ Clock
  /\ shown' = IF zone = NoZone THEN shown \cup {now'} ELSE shown
  /\ UNCHANGED <<logLevel, zone, cache, pc, line, place, logged, aborted>>

Next ==
  /\ aborted = {}
  /\ \/ \E t \in Threads : Statement(t)
     \/ SetLogLevel \/ SetTimeZone \/ ClockMoves

Spec == Init /\ [][Next]_vars

-----------------------------------------------------------------------------
(* Properties.                                                             *)

\* The time in a line is that of its second, also when the clock was set back.
\* It is told in the zone that is set, but for seconds that the clock had shown
\* before that was set: the second of setTimeZone() itself, and any other that
\* the clock is set back to.  There a thread may still have the text of the old
\* zone in its cache, and puts it under the mark of the new one.
TimeTextCurrent ==
  \A t \in Threads : line[t] # NoLine =>
    /\ cache[t].second = line[t].second
    /\ cache[t].zone # zone => line[t].second \in shown

\* When a FATAL line ends the program, all that was written of it is on the
\* disk, although other threads may log and roll the file between its output,
\* the flush and abort().
FatalOnDisk ==
  \A t \in aborted : pc[t] = "abort" =>
    \/ place[t].file \in past
    \/ place[t].file = file.name /\ place[t].position <= file.onDisk
=============================================================================
