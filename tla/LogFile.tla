------------------------------- MODULE LogFile -------------------------------
(***************************************************************************)
(* The log file that rolls: log::File (base/log/file.cc) on AppendFile     *)
(* (base/util/file.cc), and the wall clock it reads, which moves by any    *)
(* step and may be set back.  append() and flush() hold the mutex from     *)
(* beginning to end, so each of them is one step.                          *)
(*                                                                         *)
(* A file is named for the second in which it was opened.  What is written *)
(* goes to the buffer of stdio; only flushing or closing the file is taken *)
(* to bring it to the disk (a full buffer does so earlier).  Of a line the  *)
(* model keeps the second it was appended in and how many bytes its file   *)
(* had afterwards.                                                         *)
(***************************************************************************)
EXTENDS Naturals, Sequences

CONSTANTS
  RollSize, FlushInterval, CheckEveryN,   \* the parameters of File::File()
  SecondsPerRoll,                         \* SECONDS_PER_ROLL
  FirstSecond, LastSecond,                \* the clock starts at one and ends at the other
  MaxSetBack,                             \* how often the clock is set back
  Faults                                  \* whether writing and opening may fail

ASSUME FileAssumption ==
  /\ {RollSize, FlushInterval, MaxSetBack, LastSecond} \subseteq Nat
  /\ {CheckEveryN, SecondsPerRoll, FirstSecond} \subseteq Nat \ {0}
  /\ FirstSecond <= LastSecond
  /\ Faults \in BOOLEAN

VARIABLES
  now,       \* what time(2) returns
  setBack,   \* history: how often the clock was set back
  file,      \* file_: its name, lines, how many are on disk, written_bytes_
  times,     \* last_roll_, last_flush_ and start_of_period_
  count,     \* count_
  past,      \* history: the names of the files closed so far
  failed     \* history: a file could not be opened

fileVars == <<file, times, count, past, failed>>
clockVars == <<now, setBack>>

Period(second) == (second \div SecondsPerRoll) * SecondsPerRoll

NewFile(second) == [name |-> second, lines |-> <<>>, onDisk |-> 0, written |-> 0]

\* File::File(): rolls for the first time.  If that fails there is no object.
FileInit ==
  /\ now = FirstSecond /\ setBack = 0
  /\ file = NewFile(now)
  /\ times = [lastRoll |-> now, lastFlush |-> now, period |-> Period(now)]
  /\ count = 0 /\ past = {} /\ failed = FALSE

\* AppendFile::append(): after an error the rest of the line is lost, and its
\* size is not added to the bytes written.
Write(f, size, ok) ==
  LET written == IF ok THEN f.written + size ELSE f.written
  IN  [f EXCEPT !.lines = Append(@, [at |-> now, total |-> written]), !.written = written]

Flushed(f) == [f EXCEPT !.onDisk = Len(f.lines)]

\* Defect: a second file may be opened in the same second.
RollFile_SameSecond(f, opens) ==
  IF now >= times.lastRoll
    THEN /\ times' = [lastRoll |-> now, lastFlush |-> now, period |-> Period(now)]
         /\ file' = IF opens THEN NewFile(now) ELSE f
         /\ past' = IF opens THEN past \cup {f.name} ELSE past
         /\ failed' = (failed \/ ~opens)
    ELSE file' = f /\ UNCHANGED <<times, past, failed>>

\* rollFile() with f as the open file.  The times are set before the new file
\* is opened, so if AppendFile() throws the old one stays with the new times.
\* reset() closes the old file, which flushes it.
RollFile(f, opens) ==
  IF now > times.lastRoll
    THEN /\ times' = [lastRoll |-> now, lastFlush |-> now, period |-> Period(now)]
         /\ file' = IF opens THEN NewFile(now) ELSE f
         /\ past' = IF opens THEN past \cup {f.name} ELSE past
         /\ failed' = (failed \/ ~opens)
    ELSE file' = f /\ UNCHANGED <<times, past, failed>>

\* Defect: nothing is flushed, only the period is looked at.
CheckTime_NoFlush(f, opens) ==
  IF Period(now) # times.period THEN RollFile(f, opens)
  ELSE file' = f /\ UNCHANGED <<times, past, failed>>

\* Defect: a new period is noticed only when nothing is to be flushed.
CheckTime_FlushFirst(f, opens) ==
  IF now > times.lastFlush + FlushInterval
    THEN /\ file' = Flushed(f)
         /\ times' = [times EXCEPT !.lastFlush = now]
         /\ UNCHANGED <<past, failed>>
  ELSE IF Period(now) # times.period THEN RollFile(f, opens)
  ELSE file' = f /\ UNCHANGED <<times, past, failed>>

\* The test that every check_every_n-th append() makes.
CheckTime(f, opens) ==
  IF Period(now) # times.period THEN RollFile(f, opens)
  ELSE IF now > times.lastFlush + FlushInterval
    THEN /\ file' = Flushed(f)
         /\ times' = [times EXCEPT !.lastFlush = now]
         /\ UNCHANGED <<past, failed>>
  ELSE file' = f /\ UNCHANGED <<times, past, failed>>

\* Defect: the count goes past its limit before it is compared.
AppendToFile_Late(size, ok, opens) ==
  LET f == Write(file, size, ok)
  IN  IF f.written > RollSize THEN count' = count /\ RollFile(f, opens)
      ELSE IF count >= CheckEveryN THEN count' = 0 /\ CheckTime(f, opens)
      ELSE count' = count + 1 /\ file' = f /\ UNCHANGED <<times, past, failed>>

\* Defect: the size is compared before the line is added to it.
AppendToFile_OldSize(size, ok, opens) ==
  LET f == Write(file, size, ok)
  IN  IF file.written > RollSize THEN count' = count /\ RollFile(f, opens)
      ELSE IF count + 1 >= CheckEveryN THEN count' = 0 /\ CheckTime(f, opens)
      ELSE count' = count + 1 /\ file' = f /\ UNCHANGED <<times, past, failed>>

\* append_unlocked().  An exception of the roll reaches the caller.
AppendToFile(size, ok, opens) ==
  LET f == Write(file, size, ok)
  IN  IF f.written > RollSize THEN count' = count /\ RollFile(f, opens)
      ELSE IF count + 1 >= CheckEveryN THEN count' = 0 /\ CheckTime(f, opens)
      ELSE count' = count + 1 /\ file' = f /\ UNCHANGED <<times, past, failed>>

FlushFile == file' = Flushed(file) /\ UNCHANGED <<times, count, past, failed>>

\* The clock goes on, or is set back.
Tick == \E s \in now + 1 .. LastSecond : now' = s /\ UNCHANGED setBack

SetBack ==
  /\ setBack < MaxSetBack
  /\ \E s \in FirstSecond .. now - 1 : now' = s
  /\ setBack' = setBack + 1

Clock == (Tick \/ SetBack) /\ UNCHANGED fileVars

-----------------------------------------------------------------------------
(* Properties.                                                             *)

FileTypeOK ==
  /\ now \in FirstSecond .. LastSecond /\ setBack \in 0 .. MaxSetBack
  /\ file.name \in FirstSecond .. LastSecond /\ file.written \in Nat
  /\ file.onDisk \in 0 .. Len(file.lines)
  /\ times.lastRoll <= times.lastFlush /\ times.period = Period(times.lastRoll)
  /\ count \in 0 .. CheckEveryN - 1 /\ failed \in BOOLEAN

\* Each file is opened once: no two have a name in common, although fopen()
\* would append to one that exists, and whatever the clock does.
FilesDistinct == \A name \in past : name < file.name

\* A file that has become too large gets another line only if it did so in the
\* second it was opened in, or while the clock was set back to before that.
RolledBySize ==
  ~failed => \A i \in 1 .. Len(file.lines) - 1 :
               file.lines[i].total > RollSize => file.lines[i].at <= file.name

\* Less than check_every_n lines of a later period are in the open file in a
\* row: the last of as many makes it roll.
Late(l) == l.at > file.name /\ Period(l.at) # Period(file.name)
RolledByPeriod ==
  ~failed => \A i \in 1 .. Len(file.lines) - CheckEveryN + 1 :
               \E j \in i .. i + CheckEveryN - 1 : ~Late(file.lines[j])

\* Less than check_every_n lines in a row wait for the disk that were appended
\* more than the flush interval after the last flush.
Overdue(i) == i > file.onDisk /\ file.lines[i].at > times.lastFlush + FlushInterval
FlushedInTime ==
  ~failed => \A i \in 1 .. Len(file.lines) - CheckEveryN + 1 :
               \E j \in i .. i + CheckEveryN - 1 : ~Overdue(j)
=============================================================================
