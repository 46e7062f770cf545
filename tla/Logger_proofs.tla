---------------------------- MODULE Logger_proofs ----------------------------
(***************************************************************************)
(* Proofs about the Logger on its file, for any threads, lines, levels and *)
(* zones, all parameters of the file and any movement of the clock.        *)
(***************************************************************************)
EXTENDS Logger, LogFile_proofs

Text == [second : 0 .. LastSecond, zone : Zones]
OpenLine == [level : Levels, second : FirstSecond .. LastSecond]

LoggerTypes ==
  /\ logLevel \in Levels /\ zone \in Zones
  /\ shown \subseteq FirstSecond .. LastSecond
  /\ cache \in [Threads -> Text]
  /\ pc \in [Threads -> {"out", "open", "flush", "abort"}]
  /\ line \in [Threads -> OpenLine \cup {NoLine}]
  /\ \A t \in Threads : pc[t] = "out" <=> line[t] = NoLine
  /\ place \in [Threads -> [file : Nat, position : Nat]]
  /\ logged \in 0 .. MaxLines /\ aborted \subseteq Threads

(* A cached text of another zone than the one set is of a second that the    *)
(* clock had shown by then (or of none, in a thread that has not logged yet);*)
(* until a zone is set, all texts are such, and what the clock shows too.    *)
Old(text) == text.second \in shown \cup {0}

TextsFit ==
  /\ \A t \in Threads : line[t] # NoLine => cache[t].second = line[t].second
  /\ \A t \in Threads : cache[t].zone # zone => Old(cache[t])
  /\ zone = NoZone => /\ now \in shown
                      /\ \A t \in Threads : cache[t].zone = NoZone /\ Old(cache[t])

(* A FATAL line is where it was written, and on the disk after the flush.    *)
PlacesFit ==
  \A t \in Threads :
    /\ pc[t] \in {"flush", "abort"} =>
         \/ place[t].file \in past
         \/ place[t].file = file.name /\ place[t].position <= Len(file.lines)
    /\ pc[t] = "abort" =>
         \/ place[t].file \in past
         \/ place[t].file = file.name /\ place[t].position <= file.onDisk

LoggerInv == FileInv /\ LoggerTypes /\ TextsFit /\ PlacesFit

-----------------------------------------------------------------------------
LEMMA ConstantTypes ==
  /\ FirstSecond \in Nat \ {0} /\ LastSecond \in Nat /\ FirstSecond <= LastSecond
  /\ MaxLines \in Nat /\ NoZone \in Zones /\ Fatal \in Nat
  /\ \A l \in Levels : l \in Nat /\ l <= Fatal
  /\ \A size \in Sizes : size \in Nat
  BY FileAssumption, LoggerAssumption

LEMMA FaultsAreBoolean ==
  ASSUME NEW b \in {TRUE, ~Faults}
  PROVE  b \in BOOLEAN
  BY Zenon, FileAssumption

LEMMA LineIsNew ==
  ASSUME NEW l \in OpenLine
  PROVE  l # NoLine
<1>1. l.second # 0
  BY ConstantTypes DEF OpenLine
<1>2. NoLine.second = 0
  BY DEF NoLine
<1>3. QED
  BY <1>1, <1>2

LEMMA InitInv == Init => LoggerInv
<1> SUFFICES ASSUME Init PROVE LoggerInv
  OBVIOUS
<1>1. FileInv
  BY FileInitInv DEF Init
<1>2. LoggerTypes
  <2>1. 0 \in 0 .. LastSecond /\ 0 \in 0 .. MaxLines /\ NoZone \in Zones
    BY ConstantTypes
  <2>2. NoPlace \in [file : Nat, position : Nat]
    BY DEF NoPlace
  <2>3. shown \subseteq FirstSecond .. LastSecond
    BY <1>1 DEF Init, FileInv, FileTypes
  <2>4. QED
    BY <2>1, <2>2, <2>3 DEF Init, LoggerTypes, Text
<1>3. TextsFit
  <2>1. \A t \in Threads : cache[t].second = 0 /\ cache[t].zone = NoZone
    BY DEF Init
  <2>2. QED
    BY <2>1 DEF Init, TextsFit, Old
<1>4. PlacesFit
  BY DEF Init, PlacesFit
<1>5. QED
  BY <1>1, <1>2, <1>3, <1>4 DEF LoggerInv

(* What a statement, a change of the settings or of the clock does to the   *)
(* file is one of the operations on it.                                     *)
LEMMA FileStep ==
  ASSUME LoggerInv, [Next]_vars
  PROVE  FileInv'
<1>1. FileInv
  BY DEF LoggerInv
<1>2. CASE UNCHANGED <<clockVars, fileVars>>
  BY <1>1, <1>2, FileUnchanged
<1>3. CASE ClockMoves
  BY <1>1, <1>3, ClockKeeps DEF ClockMoves
<1>4. ASSUME NEW t \in Threads, Destruct(t) PROVE FileInv'
  <2>1. CASE line[t].level >= logLevel
    <3>1. PICK size \in Sizes, ok \in {TRUE, ~Faults}, opens \in {TRUE, ~Faults} :
            AppendToFile(size, ok, opens)
      BY <1>4, <2>1 DEF Destruct
    <3>2. size \in Nat /\ ok \in BOOLEAN /\ opens \in BOOLEAN
      BY ConstantTypes, FaultsAreBoolean
    <3>3. UNCHANGED <<now, setBack>>
      BY <1>4 DEF Destruct, clockVars
    <3>4. QED
      BY <1>1, <3>1, <3>2, <3>3, AppendKeeps
  <2>2. CASE ~(line[t].level >= logLevel)
    BY <1>2, <1>4, <2>2 DEF Destruct
  <2>3. QED
    BY <2>1, <2>2
<1>5. ASSUME NEW t \in Threads, FlushFatal(t) PROVE FileInv'
  BY <1>1, <1>5, FlushKeeps DEF FlushFatal, clockVars
<1>6. ASSUME NEW t \in Threads, Construct(t) \/ Abort(t) PROVE FileInv'
  BY <1>2, <1>6 DEF Construct, Abort
<1>7. CASE SetLogLevel \/ SetTimeZone
  BY <1>2, <1>7 DEF SetLogLevel, SetTimeZone
<1>8. CASE UNCHANGED vars
  BY <1>2, <1>8 DEF vars
<1>9. QED
  BY <1>3, <1>4, <1>5, <1>6, <1>7, <1>8 DEF Next, Statement

LEMMA TypesStep ==
  ASSUME LoggerInv, [Next]_vars
  PROVE  LoggerTypes'
<1>1. LoggerTypes
  BY DEF LoggerInv
<1>2. now \in FirstSecond .. LastSecond /\ now \in 0 .. LastSecond /\ now \in Nat
  BY ConstantTypes DEF LoggerInv, FileInv, FileTypes
<1>3. ASSUME NEW t \in Threads, Construct(t) PROVE LoggerTypes'
  <2>1. PICK l \in Levels : line' = [line EXCEPT ![t] = [level |-> l, second |-> now]]
    BY <1>3 DEF Construct
  <2>2. [level |-> l, second |-> now] \in OpenLine
    BY <1>2 DEF OpenLine
  <2>3. [level |-> l, second |-> now] # NoLine
    BY <2>2, LineIsNew
  <2>4. FormattedTime(t) \in Text
    BY <1>1, <1>2 DEF FormattedTime, LoggerTypes, Text
  <2>5. logged' \in 0 .. MaxLines
    BY <1>1, <1>3, ConstantTypes DEF Construct, LoggerTypes
  <2>6. pc' \in [Threads -> {"out", "open", "flush", "abort"}]
        /\ cache' \in [Threads -> Text] /\ line' \in [Threads -> OpenLine \cup {NoLine}]
    BY <1>1, <1>3, <2>1, <2>2, <2>4 DEF Construct, LoggerTypes
  <2>7. ASSUME NEW u \in Threads PROVE pc'[u] = "out" <=> line'[u] = NoLine
    BY <1>1, <1>3, <2>1, <2>3 DEF Construct, LoggerTypes
  <2>8. UNCHANGED <<logLevel, zone, shown, place, aborted>>
    BY <1>3 DEF Construct
  <2>9. QED
    BY <1>1, <2>5, <2>6, <2>7, <2>8 DEF LoggerTypes
<1>4. ASSUME NEW t \in Threads, Destruct(t) PROVE LoggerTypes'
  <2>1. pc[t] = "open" /\ line[t] # NoLine
    BY <1>1, <1>4 DEF Destruct, LoggerTypes
  <2>2. Leaves(t)
    BY <1>4 DEF Destruct
  <2>3. /\ pc' \in [Threads -> {"out", "open", "flush", "abort"}]
        /\ line' \in [Threads -> OpenLine \cup {NoLine}]
        /\ \A u \in Threads : pc'[u] = "out" <=> line'[u] = NoLine
    <3>1. CASE line[t].level = Fatal
      BY <1>1, <2>1, <2>2, <3>1 DEF Leaves, LoggerTypes
    <3>2. CASE line[t].level # Fatal
      BY <1>1, <2>1, <2>2, <3>2 DEF Leaves, LoggerTypes
    <3>3. QED
      BY <3>1, <3>2
  <2>4. Here \in [file : Nat, position : Nat] /\ NoPlace \in [file : Nat, position : Nat]
    BY FileNumbers DEF LoggerInv, Here, NoPlace
  <2>5. place' \in [Threads -> [file : Nat, position : Nat]] /\ aborted' \subseteq Threads
    <3>1. CASE line[t].level >= logLevel
      BY <1>1, <1>4, <2>4, <3>1 DEF Destruct, LoggerTypes
    <3>2. CASE ~(line[t].level >= logLevel)
      BY <1>1, <1>4, <3>2 DEF Destruct, LoggerTypes
    <3>3. QED
      BY <3>1, <3>2
  <2>6. UNCHANGED <<logLevel, zone, shown, cache, logged>>
    BY <1>4 DEF Destruct
  <2>7. QED
    BY <1>1, <2>3, <2>5, <2>6 DEF LoggerTypes
<1>5. ASSUME NEW t \in Threads, FlushFatal(t) PROVE LoggerTypes'
  BY <1>1, <1>5 DEF FlushFatal, LoggerTypes
<1>6. ASSUME NEW t \in Threads, Abort(t) PROVE LoggerTypes'
  BY <1>1, <1>6 DEF Abort, LoggerTypes
<1>7. CASE SetLogLevel
  BY <1>1, <1>7 DEF SetLogLevel, LoggerTypes
<1>8. CASE SetTimeZone
  BY <1>1, <1>2, <1>8 DEF SetTimeZone, LoggerTypes
<1>9. CASE UNCHANGED loggerVars
  BY <1>1, <1>9 DEF loggerVars, LoggerTypes
<1>10. CASE ClockMoves
  <2>1. now' \in FirstSecond .. LastSecond
    BY FileStep DEF LoggerInv, FileInv, FileTypes
  <2>2. shown' \subseteq FirstSecond .. LastSecond
    BY <1>1, <1>10, <2>1 DEF ClockMoves, LoggerTypes
  <2>3. UNCHANGED <<logLevel, zone, cache, pc, line, place, logged, aborted>>
    BY <1>10 DEF ClockMoves
  <2>4. QED
    BY <1>1, <2>2, <2>3 DEF LoggerTypes
<1>11. QED
  BY <1>3, <1>4, <1>5, <1>6, <1>7, <1>8, <1>9, <1>10 DEF Next, Statement, vars

LEMMA TextsStep ==
  ASSUME LoggerInv, [Next]_vars
  PROVE  TextsFit'
<1>1. LoggerTypes /\ TextsFit
  BY DEF LoggerInv
<1>2. ASSUME NEW t \in Threads, Construct(t) PROVE TextsFit'
  <2>1. PICK l \in Levels : line' = [line EXCEPT ![t] = [level |-> l, second |-> now]]
    BY <1>2 DEF Construct
  <2>2. UNCHANGED <<now, zone, shown>>
    BY <1>2 DEF Construct, clockVars
  <2>3. \A u \in Threads \ {t} : cache'[u] = cache[u] /\ line'[u] = line[u]
    BY <1>1, <1>2, <2>1 DEF Construct, LoggerTypes
  <2>4. cache'[t] = FormattedTime(t) /\ line'[t].second = now
    BY <1>1, <1>2, <2>1 DEF Construct, LoggerTypes
  <2>5. /\ cache'[t].second = now
        /\ cache'[t] = cache[t] \/ cache'[t].zone = zone
    BY <2>4 DEF FormattedTime
  <2>6. ASSUME NEW u \in Threads, line'[u] # NoLine PROVE cache'[u].second = line'[u].second
    <3>1. CASE u = t
      BY <2>4, <2>5, <3>1
    <3>2. CASE u # t
      BY <1>1, <2>3, <2>6, <3>2 DEF TextsFit
    <3>3. QED
      BY <3>1, <3>2
  <2>7. ASSUME NEW u \in Threads, cache'[u].zone # zone PROVE cache'[u].second \in shown \cup {0}
    <3>1. cache'[u] = cache[u]
      BY <2>3, <2>5, <2>7
    <3>2. QED
      BY <1>1, <2>7, <3>1 DEF TextsFit, Old
  <2>8. ASSUME zone = NoZone, NEW u \in Threads
        PROVE  cache'[u].zone = NoZone /\ cache'[u].second \in shown \cup {0}
    <3>1. cache[u].zone = NoZone /\ cache[u].second \in shown \cup {0} /\ now \in shown
      BY <1>1, <2>8 DEF TextsFit, Old
    <3>2. CASE u = t
      BY <2>5, <2>8, <3>1, <3>2
    <3>3. CASE u # t
      BY <2>3, <3>1, <3>3
    <3>4. QED
      BY <3>2, <3>3
  <2>9. zone = NoZone => now \in shown
    BY <1>1 DEF TextsFit
  <2>10. QED
    BY <2>2, <2>6, <2>7, <2>8, <2>9 DEF TextsFit, Old
<1>3. ASSUME NEW t \in Threads, Destruct(t) PROVE TextsFit'
  <2>1. UNCHANGED <<now, zone, shown, cache>> /\ Leaves(t)
    BY <1>3 DEF Destruct, clockVars
  <2>2. \A u \in Threads : line'[u] # NoLine => line'[u] = line[u]
    BY <1>1, <2>1 DEF Leaves, LoggerTypes
  <2>3. QED
    BY <1>1, <2>1, <2>2 DEF TextsFit, Old
<1>4. CASE UNCHANGED <<now, zone, shown, cache, line>>
  BY <1>1, <1>4 DEF TextsFit, Old
<1>5. ASSUME NEW t \in Threads, FlushFatal(t) \/ Abort(t) PROVE TextsFit'
  BY <1>4, <1>5 DEF FlushFatal, Abort, clockVars
<1>6. CASE SetLogLevel \/ UNCHANGED vars
  BY <1>4, <1>6 DEF SetLogLevel, vars, clockVars, loggerVars
<1>7. CASE SetTimeZone
  <2>1. UNCHANGED <<now, shown, cache, line>> /\ zone = NoZone /\ zone' # NoZone
    BY <1>7 DEF SetTimeZone, clockVars
  <2>2. QED
    BY <1>1, <2>1 DEF TextsFit, Old
<1>8. CASE ClockMoves
  <2>1. UNCHANGED <<zone, cache, line>>
        /\ shown' = IF zone = NoZone THEN shown \cup {now'} ELSE shown
    BY <1>8 DEF ClockMoves
  <2>2. shown \subseteq shown' /\ (zone = NoZone => now' \in shown')
    BY <2>1
  <2>3. QED
    BY <1>1, <2>1, <2>2 DEF TextsFit, Old
<1>9. QED
  BY <1>2, <1>3, <1>5, <1>6, <1>7, <1>8 DEF Next, Statement

LEMMA PlacesStep ==
  ASSUME LoggerInv, [Next]_vars
  PROVE  PlacesFit'
<1>1. LoggerTypes /\ PlacesFit
  BY DEF LoggerInv
<1>2. /\ file.onDisk \in Nat /\ Len(file.lines) \in Nat /\ file.onDisk <= Len(file.lines)
      /\ file.name \in Nat
      /\ \A t \in Threads : place[t].position \in Nat /\ place[t].file \in Nat
  BY FileNumbers DEF LoggerInv, LoggerTypes
<1>3. ASSUME NEW t \in Threads, Destruct(t), line[t].level >= logLevel PROVE PlacesFit'
  <2>1. PICK size \in Sizes, ok \in {TRUE, ~Faults}, opens \in {TRUE, ~Faults} :
          AppendToFile(size, ok, opens)
    BY <1>3 DEF Destruct
  <2>2. size \in Nat /\ ok \in BOOLEAN /\ opens \in BOOLEAN
    BY ConstantTypes, FaultsAreBoolean
  <2>3. /\ past \subseteq past'
        /\ \/ file.name \in past'
           \/ /\ file'.name = file.name /\ Len(file'.lines) = Len(file.lines) + 1
              /\ file'.onDisk >= file.onDisk
    BY <2>1, <2>2, AppendGrows DEF LoggerInv
  <2>4. FileInv'
    BY FileStep
  <2>5. file'.onDisk \in Nat /\ Len(file'.lines) \in Nat
    BY <2>4 DEF FileInv, FileTypes, FileRecord
  <2>6. ASSUME NEW u \in Threads \ {t}
        PROVE  pc'[u] = pc[u] /\ place'[u] = place[u]
    BY <1>1, <1>3 DEF Destruct, Leaves, LoggerTypes
  <2>7. ASSUME pc'[t] # "out" PROVE pc'[t] = "flush" /\ place'[t] = Here
    BY <1>1, <1>3, <2>7 DEF Destruct, Leaves, LoggerTypes
  <2>8. ASSUME NEW u \in Threads, pc'[u] \in {"flush", "abort"}
        PROVE  \/ place'[u].file \in past'
               \/ place'[u].file = file'.name /\ place'[u].position <= Len(file'.lines)
    <3>1. CASE u = t
      <4>1. place'[u].file = file.name /\ place'[u].position = Len(file.lines) + 1
        BY <2>7, <2>8, <3>1 DEF Here
      <4>2. QED
        BY <1>2, <2>3, <4>1
    <3>2. CASE u # t
      BY <1>1, <1>2, <2>3, <2>5, <2>6, <2>8, <3>2 DEF PlacesFit
    <3>3. QED
      BY <3>1, <3>2
  <2>9. ASSUME NEW u \in Threads, pc'[u] = "abort"
        PROVE  \/ place'[u].file \in past'
               \/ place'[u].file = file'.name /\ place'[u].position <= file'.onDisk
    <3>1. u # t
      BY <2>7, <2>9
    <3>2. QED
      BY <1>1, <1>2, <2>3, <2>5, <2>6, <2>9, <3>1 DEF PlacesFit
  <2>10. QED
    BY <2>8, <2>9 DEF PlacesFit
<1>4. ASSUME NEW t \in Threads, Destruct(t), ~(line[t].level >= logLevel) PROVE PlacesFit'
  <2>1. line[t].level # Fatal
    <3>1. line[t] \in OpenLine
      BY <1>1, <1>4 DEF Destruct, LoggerTypes
    <3>2. logLevel \in Levels /\ line[t].level \in Levels
      BY <1>1, <3>1 DEF LoggerTypes, OpenLine
    <3>3. QED
      BY <1>4, <3>2, ConstantTypes
  <2>2. UNCHANGED <<file, past, place>>
    BY <1>4 DEF Destruct, fileVars
  <2>3. \A u \in Threads : pc'[u] \in {"flush", "abort"} => pc'[u] = pc[u]
    BY <1>1, <1>4, <2>1 DEF Destruct, Leaves, LoggerTypes
  <2>4. QED
    BY <1>1, <2>2, <2>3 DEF PlacesFit
<1>5. ASSUME NEW t \in Threads, FlushFatal(t) PROVE PlacesFit'
  <2>1. /\ file'.name = file.name /\ file'.lines = file.lines
        /\ file'.onDisk = Len(file.lines) /\ past' = past /\ place' = place
    BY <1>5, FlushedType DEF FlushFatal, FlushFile, LoggerInv, FileInv, FileTypes
  <2>2. pc[t] = "flush" /\ \A u \in Threads \ {t} : pc'[u] = pc[u]
    BY <1>1, <1>5 DEF FlushFatal, LoggerTypes
  <2>3. ASSUME NEW u \in Threads, pc'[u] \in {"flush", "abort"}
        PROVE  \/ place[u].file \in past
               \/ place[u].file = file.name /\ place[u].position <= Len(file.lines)
    BY <1>1, <2>2, <2>3 DEF PlacesFit
  <2>4. QED
    BY <2>1, <2>3 DEF PlacesFit
<1>6. ASSUME NEW t \in Threads, Construct(t) PROVE PlacesFit'
  <2>1. UNCHANGED <<file, past, place>> /\ \A u \in Threads :
          pc'[u] \in {"flush", "abort"} => pc'[u] = pc[u]
    BY <1>1, <1>6 DEF Construct, fileVars, LoggerTypes
  <2>2. QED
    BY <1>1, <2>1 DEF PlacesFit
<1>7. CASE UNCHANGED <<file, past, place, pc>>
  BY <1>1, <1>7 DEF PlacesFit
<1>8. ASSUME NEW t \in Threads, Abort(t) PROVE PlacesFit'
  BY <1>7, <1>8 DEF Abort, fileVars
<1>9. CASE SetLogLevel \/ SetTimeZone \/ UNCHANGED vars
  BY <1>7, <1>9 DEF SetLogLevel, SetTimeZone, vars, fileVars, loggerVars
<1>10. CASE ClockMoves
  BY <1>7, <1>10 DEF ClockMoves, Clock, fileVars
<1>11. QED
  BY <1>3, <1>4, <1>5, <1>6, <1>8, <1>9, <1>10 DEF Next, Statement

LEMMA InvInvariance == Spec => []LoggerInv
<1>1. LoggerInv /\ [Next]_vars => LoggerInv'
  BY FileStep, TypesStep, TextsStep, PlacesStep DEF LoggerInv
<1>2. QED
  BY InitInv, <1>1, PTL DEF Spec

-----------------------------------------------------------------------------
(* The types of the front end and of the file; that the counter of append()  *)
(* stays below its limit and the last flush is never before the last roll.   *)
THEOREM TypeInvariance == Spec => []TypeOK
<1>1. LoggerInv => TypeOK
  <2> SUFFICES ASSUME LoggerInv PROVE TypeOK
    OBVIOUS
  <2>1. FileTypeOK
    BY FileNumbers DEF LoggerInv, FileInv, FileTypes, FileRecord, FileTypeOK
  <2>2. QED
    BY <2>1 DEF LoggerInv, LoggerTypes, Text, TypeOK
<1>2. QED
  BY <1>1, InvInvariance, PTL

(* Rolling never opens a file of a name that was used before, also when the  *)
(* clock is set back and when rolling fails.                                 *)
THEOREM FilesDistinctInvariance == Spec => []FilesDistinct
<1>1. LoggerInv => FilesDistinct
  BY DEF LoggerInv, FileInv, NamesFit, FilesDistinct
<1>2. QED
  BY <1>1, InvInvariance, PTL

(* A file over its size gets no further line unless it could not be rolled   *)
(* in that second.                                                           *)
THEOREM RolledBySizeInvariance == Spec => []RolledBySize
<1>1. LoggerInv => RolledBySize
  <2> SUFFICES ASSUME LoggerInv, ~failed, NEW i \in 1 .. Len(file.lines) - 1,
                      file.lines[i].total > RollSize
               PROVE  file.lines[i].at <= file.name
    BY DEF RolledBySize
  <2>1. i \in 1 .. Len(file.lines)
    BY FileNumbers DEF LoggerInv
  <2>2. QED
    BY <2>1 DEF LoggerInv, FileInv, LargeAtOnce
<1>2. QED
  BY <1>1, InvInvariance, PTL

(* Fewer than check_every_n lines of a later period follow one another in    *)
(* the open file.                                                            *)
THEOREM RolledByPeriodInvariance == Spec => []RolledByPeriod
<1>1. LoggerInv => RolledByPeriod
  BY DEF LoggerInv, FileInv, Prompt, Windows, InPeriod, RolledByPeriod
<1>2. QED
  BY <1>1, InvInvariance, PTL

(* Fewer than check_every_n lines in a row wait for a flush that is due.     *)
THEOREM FlushedInTimeInvariance == Spec => []FlushedInTime
<1>1. LoggerInv => FlushedInTime
  BY DEF LoggerInv, FileInv, Prompt, Windows, InTime, FlushedInTime
<1>2. QED
  BY <1>1, InvInvariance, PTL

(* Under any movement of the clock, the text of a time is that of the line's *)
(* second, and told in the zone that is set, but for seconds that the clock  *)
(* had shown before that was set.                                            *)
THEOREM TimeTextInvariance == Spec => []TimeTextCurrent
<1>1. LoggerInv => TimeTextCurrent
  <2> SUFFICES ASSUME LoggerInv, NEW t \in Threads, line[t] # NoLine
               PROVE  /\ cache[t].second = line[t].second
                      /\ cache[t].zone # zone => line[t].second \in shown
    BY DEF TimeTextCurrent
  <2>1. line[t].second # 0
    BY ConstantTypes DEF LoggerInv, LoggerTypes, OpenLine
  <2>2. QED
    BY <2>1 DEF LoggerInv, TextsFit, Old
<1>2. QED
  BY <1>1, InvInvariance, PTL

(* The FATAL line that ends the program is on the disk by then, whatever     *)
(* other threads write and roll after it.                                    *)
THEOREM FatalOnDiskInvariance == Spec => []FatalOnDisk
<1>1. LoggerInv => FatalOnDisk
  BY DEF LoggerInv, LoggerTypes, PlacesFit, FatalOnDisk
<1>2. QED
  BY <1>1, InvInvariance, PTL
=============================================================================
