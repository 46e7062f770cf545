--------------------------- MODULE LogFile_proofs ---------------------------
(***************************************************************************)
(* What every operation on the log file preserves, for all parameters and  *)
(* whatever the clock does.  Logger_proofs has the theorems.               *)
(***************************************************************************)
EXTENDS LogFile, SequenceTheorems, TLAPS

Line == [at : Nat, total : Nat]
FileRecord == [name : Nat, lines : Seq(Line), onDisk : Nat, written : Nat]
Periods == {Period(second) : second \in Nat}

FileTypes ==
  /\ now \in FirstSecond .. LastSecond /\ setBack \in 0 .. MaxSetBack
  /\ file \in FileRecord /\ file.name \in FirstSecond .. LastSecond
  /\ file.onDisk <= Len(file.lines)
  /\ times \in [lastRoll : Nat, lastFlush : Nat, period : Periods]
  /\ times.lastRoll <= times.lastFlush /\ times.period = Period(times.lastRoll)
  /\ count \in 0 .. CheckEveryN - 1 /\ past \subseteq Nat /\ failed \in BOOLEAN

(* A file is named for the last roll, unless that could not open one.      *)
NamesFit ==
  /\ \A name \in past : name < file.name
  /\ file.name <= times.lastRoll
  /\ ~failed => file.name = times.lastRoll

LargeAtOnce ==
  \A i \in 1 .. Len(file.lines) : file.lines[i].total > RollSize => file.lines[i].at <= file.name

(* Of a sequence of n lines the ones in G are harmless.  c lines at most    *)
(* follow the last harmless one, and so CheckEveryN in a row have one.      *)
Recent(n, c, G) == n > c => \E j \in n - c .. n : j \in G
Windows(n, G) == \A i \in 1 .. n - CheckEveryN + 1 : \E j \in i .. i + CheckEveryN - 1 : j \in G

InPeriod == {j \in 1 .. Len(file.lines) : ~Late(file.lines[j])}
InTime == {j \in 1 .. Len(file.lines) : ~Overdue(j)}

Prompt(G) == Recent(Len(file.lines), count, G) /\ Windows(Len(file.lines), G)

FileInv ==
  /\ FileTypes
  /\ NamesFit
  /\ ~failed => LargeAtOnce /\ Prompt(InPeriod) /\ Prompt(InTime)

-----------------------------------------------------------------------------
(* One more line keeps the harmless ones often enough, if the count goes up *)
(* and stays below CheckEveryN or if the line is harmless itself.           *)
LEMMA OneMoreLine ==
  ASSUME NEW n \in Nat, NEW c \in 0 .. CheckEveryN - 1, NEW d \in 0 .. CheckEveryN - 1,
         NEW G, NEW H, \A j \in 1 .. n : j \in G => j \in H,
         Recent(n, c, G), Windows(n, G),
         d = c + 1 \/ n + 1 \in H
  PROVE  Recent(n + 1, d, H) /\ Windows(n + 1, H)
<1>0. CheckEveryN \in Nat \ {0}
  BY FileAssumption
<1>1. Recent(n + 1, d, H)
  <2> SUFFICES ASSUME n + 1 > d PROVE \E j \in n + 1 - d .. n + 1 : j \in H
    BY DEF Recent
  <2>1. CASE n + 1 \in H
    <3>1. n + 1 \in n + 1 - d .. n + 1
      BY <1>0
    <3>2. QED
      BY <2>1, <3>1
  <2>2. CASE d = c + 1
    <3>1. PICK j \in n - c .. n : j \in G
      BY <1>0, <2>2 DEF Recent
    <3>2. j \in 1 .. n /\ j \in n + 1 - d .. n + 1
      BY <1>0, <2>2
    <3>3. QED
      BY <3>1, <3>2
  <2>3. QED
    BY <2>1, <2>2
<1>2. Windows(n + 1, H)
  <2> SUFFICES \A i \in 1 .. (n + 1) - CheckEveryN + 1 :
                 \E j \in i .. i + CheckEveryN - 1 : j \in H
    BY Zenon DEF Windows
  <2> TAKE i \in 1 .. (n + 1) - CheckEveryN + 1
  <2>1. CASE i \in 1 .. n - CheckEveryN + 1
    <3>1. PICK j \in i .. i + CheckEveryN - 1 : j \in G
      BY <2>1 DEF Windows
    <3>2. j \in 1 .. n
      BY <1>0, <2>1
    <3>3. QED
      BY <3>1, <3>2
  <2>2. CASE i = n + 1 - CheckEveryN + 1
    <3>1. n + 1 > d
      BY <1>0, <2>2
    <3>2. PICK j \in n + 1 - d .. n + 1 : j \in H
      BY <1>1, <3>1 DEF Recent
    <3>3. j \in i .. i + CheckEveryN - 1
      BY <1>0, <2>2
    <3>4. QED
      BY <3>2, <3>3
  <2>3. QED
    BY <1>0, <2>1, <2>2
<1>3. QED
  BY <1>1, <1>2

LEMMA NoLines == \A G, c : c \in Nat => Recent(0, c, G) /\ Windows(0, G)
  BY FileAssumption DEF Recent, Windows

LEMMA NewFileType ==
  ASSUME NEW second \in Nat
  PROVE  /\ NewFile(second) \in FileRecord
         /\ NewFile(second).name = second /\ NewFile(second).onDisk = 0
         /\ Len(NewFile(second).lines) = 0
<1>1. <<>> \in Seq(Line) /\ Len(<<>>) = 0
  OBVIOUS
<1>2. QED
  BY <1>1 DEF NewFile, FileRecord

LEMMA WriteType ==
  ASSUME NEW f \in FileRecord, NEW size \in Nat, NEW ok \in BOOLEAN, now \in Nat
  PROVE  LET w == Write(f, size, ok) IN
         /\ w \in FileRecord
         /\ w.name = f.name /\ w.onDisk = f.onDisk
         /\ Len(w.lines) = Len(f.lines) + 1
         /\ \A j \in 1 .. Len(f.lines) : w.lines[j] = f.lines[j]
         /\ w.lines[Len(f.lines) + 1] = [at |-> now, total |-> w.written]
<1> DEFINE total == IF ok THEN f.written + size ELSE f.written
           last == [at |-> now, total |-> total]
<1>1. total \in Nat /\ f.lines \in Seq(Line)
  BY DEF FileRecord
<1>2. last \in Line
  BY <1>1 DEF Line
<1> HIDE DEF total, last
<1>3. /\ Append(f.lines, last) \in Seq(Line)
      /\ Len(Append(f.lines, last)) = Len(f.lines) + 1
      /\ \A j \in 1 .. Len(f.lines) : Append(f.lines, last)[j] = f.lines[j]
      /\ Append(f.lines, last)[Len(f.lines) + 1] = last
  BY <1>1, <1>2, AppendProperties
<1>4. Write(f, size, ok) = [f EXCEPT !.lines = Append(f.lines, last), !.written = total]
  BY DEF Write, total, last
<1>5. QED
  BY <1>1, <1>2, <1>3, <1>4 DEF FileRecord, last

LEMMA FlushedType ==
  ASSUME NEW f \in FileRecord
  PROVE  /\ Flushed(f) \in FileRecord
         /\ Flushed(f).name = f.name /\ Flushed(f).lines = f.lines
         /\ Flushed(f).written = f.written
         /\ Flushed(f).onDisk = Len(f.lines)
  BY LenProperties DEF Flushed, FileRecord

-----------------------------------------------------------------------------
LEMMA FileInitInv == FileInit => FileInv
<1> SUFFICES ASSUME FileInit PROVE FileInv
  OBVIOUS
<1>1. now \in Nat /\ now \in FirstSecond .. LastSecond /\ 0 \in 0 .. MaxSetBack
      /\ 0 \in 0 .. CheckEveryN - 1
  BY FileAssumption DEF FileInit
<1>2. /\ file \in FileRecord /\ file.name = now /\ file.onDisk = 0
      /\ Len(file.lines) = 0
  BY <1>1, NewFileType DEF FileInit
<1>3. times = [lastRoll |-> now, lastFlush |-> now, period |-> Period(now)]
      /\ Period(now) \in Periods
  BY <1>1 DEF FileInit, Periods
<1>4. FileTypes
  <2>1. failed \in BOOLEAN
    BY Zenon DEF FileInit
  <2>2. QED
    BY <1>1, <1>2, <1>3, <2>1 DEF FileTypes, FileInit
<1>5. NamesFit /\ LargeAtOnce
  BY <1>1, <1>2, <1>3 DEF NamesFit, LargeAtOnce, FileInit
<1>6. Prompt(InPeriod) /\ Prompt(InTime)
  BY <1>2, NoLines DEF Prompt, FileInit
<1>7. QED
  BY <1>4, <1>5, <1>6 DEF FileInv

(* The three outcomes of a step on the open file, which has become f.       *)

Rolled(f) ==
  /\ now > times.lastRoll
  /\ file' = NewFile(now)
  /\ times' = [lastRoll |-> now, lastFlush |-> now, period |-> Period(now)]
  /\ past' = past \cup {f.name} /\ failed' = failed

RollFailed(f) ==
  /\ now > times.lastRoll
  /\ file' = f
  /\ times' = [lastRoll |-> now, lastFlush |-> now, period |-> Period(now)]
  /\ past' = past /\ failed' = TRUE

Kept(f) == file' = f /\ UNCHANGED <<times, past, failed>>

JustFlushed(f) ==
  /\ now > times.lastFlush
  /\ file' = Flushed(f)
  /\ times' = [times EXCEPT !.lastFlush = now]
  /\ UNCHANGED <<past, failed>>

LEMMA RollOutcome ==
  ASSUME NEW f, f.name = file.name, NEW opens \in BOOLEAN, FileTypes, RollFile(f, opens)
  PROVE  Rolled(f) \/ RollFailed(f) \/ (Kept(f) /\ now <= times.lastRoll)
<1>1. now \in Nat /\ times.lastRoll \in Nat /\ failed \in BOOLEAN
  BY FileAssumption DEF FileTypes
<1>2. CASE now > times.lastRoll
  <2>1. CASE opens
    BY <1>1, <1>2, <2>1, Zenon DEF RollFile, Rolled
  <2>2. CASE ~opens
    BY <1>1, <1>2, <2>2, Zenon DEF RollFile, RollFailed
  <2>3. QED
    BY <2>1, <2>2
<1>3. CASE ~(now > times.lastRoll)
  <2>1. Kept(f)
    BY <1>3, Zenon DEF RollFile, Kept
  <2>2. QED
    BY <1>1, <1>3, <2>1
<1>4. QED
  BY <1>2, <1>3

(* The line is harmless unless the count goes up.                           *)
LEMMA AppendOutcome ==
  ASSUME FileTypes, NEW size \in Nat, NEW ok \in BOOLEAN, NEW opens \in BOOLEAN,
         AppendToFile(size, ok, opens)
  PROVE  LET f == Write(file, size, ok) IN
         /\ count' \in 0 .. CheckEveryN - 1
         /\ \/ Rolled(f) \/ RollFailed(f)
            \/ /\ Kept(f)
               /\ f.written > RollSize => now <= times.lastRoll
               /\ \/ count' = count + 1
                  \/ now <= times.lastRoll
                  \/ Period(now) = times.period /\ ~(now > times.lastFlush + FlushInterval)
            \/ /\ JustFlushed(f)
               /\ ~(f.written > RollSize)
               /\ Period(now) = times.period
<1> DEFINE f == Write(file, size, ok)
<1>1. /\ CheckEveryN \in Nat \ {0} /\ FlushInterval \in Nat
      /\ now \in Nat /\ times.lastFlush \in Nat
      /\ count \in 0 .. CheckEveryN - 1
  BY FileAssumption DEF FileTypes
<1>2. f.name = file.name
  BY <1>1, WriteType DEF FileTypes
<1>3. AppendToFile(size, ok, opens) <=>
        IF f.written > RollSize THEN count' = count /\ RollFile(f, opens)
        ELSE IF count + 1 >= CheckEveryN THEN count' = 0 /\ CheckTime(f, opens)
        ELSE count' = count + 1 /\ file' = f /\ UNCHANGED <<times, past, failed>>
  BY DEF AppendToFile
<1> HIDE DEF f
<1>4. CASE f.written > RollSize
  <2>1. count' = count /\ RollFile(f, opens)
    BY <1>3, <1>4
  <2>2. Rolled(f) \/ RollFailed(f) \/ (Kept(f) /\ now <= times.lastRoll)
    BY <1>2, <2>1, RollOutcome
  <2>3. QED
    BY <1>1, <2>1, <2>2 DEF f
<1>5. CASE ~(f.written > RollSize) /\ count + 1 >= CheckEveryN
  <2>1. count' = 0 /\ CheckTime(f, opens)
    BY <1>3, <1>5
  <2>2. CASE Period(now) # times.period
    <3>1. RollFile(f, opens)
      BY <2>1, <2>2 DEF CheckTime
    <3>2. Rolled(f) \/ RollFailed(f) \/ (Kept(f) /\ now <= times.lastRoll)
      BY <1>2, <3>1, RollOutcome
    <3>3. QED
      BY <1>1, <1>5, <2>1, <3>2 DEF f
  <2>3. CASE Period(now) = times.period /\ now > times.lastFlush + FlushInterval
    <3>1. JustFlushed(f)
      BY <1>1, <2>1, <2>3 DEF CheckTime, JustFlushed
    <3>2. QED
      BY <1>1, <1>5, <2>1, <2>3, <3>1 DEF f
  <2>4. CASE Period(now) = times.period /\ ~(now > times.lastFlush + FlushInterval)
    <3>1. Kept(f)
      BY <2>1, <2>4 DEF CheckTime, Kept
    <3>2. QED
      BY <1>1, <1>5, <2>1, <2>4, <3>1 DEF f
  <2>5. QED
    BY <2>2, <2>3, <2>4
<1>6. CASE ~(f.written > RollSize) /\ ~(count + 1 >= CheckEveryN)
  <2>1. count' = count + 1 /\ Kept(f)
    BY <1>3, <1>6 DEF Kept
  <2>2. QED
    BY <1>1, <1>6, <2>1 DEF f
<1>7. QED
  BY <1>4, <1>5, <1>6

(* One lemma per outcome.                                                   *)

LEMMA RolledKeeps ==
  ASSUME FileInv, UNCHANGED <<now, setBack>>, count' \in 0 .. CheckEveryN - 1,
         NEW f, f.name = file.name, Rolled(f)
  PROVE  FileInv'
<1>1. /\ CheckEveryN \in Nat \ {0} /\ now \in Nat /\ now \in FirstSecond .. LastSecond
      /\ file.name \in Nat
  BY FileAssumption DEF FileInv, FileTypes
<1>2. /\ file' \in FileRecord /\ file'.name = now /\ file'.onDisk = 0
      /\ Len(file'.lines) = 0
  BY <1>1, NewFileType DEF Rolled
<1>3. times' = [lastRoll |-> now, lastFlush |-> now, period |-> Period(now)]
      /\ Period(now) \in Periods
  BY <1>1 DEF Rolled, Periods
<1>4. FileTypes'
  <2>1. (failed \in BOOLEAN)'
    BY Zenon DEF FileInv, FileTypes, Rolled
  <2>2. past' \subseteq Nat
    BY <1>1 DEF FileInv, FileTypes, Rolled
  <2>3. QED
    BY <1>1, <1>2, <1>3, <2>1, <2>2 DEF FileInv, FileTypes
<1>5. file.name < now
  BY <1>1 DEF FileInv, FileTypes, NamesFit, Rolled
<1>6. NamesFit'
  <2>1. ASSUME NEW name \in past' PROVE name < now
    <3>1. CASE name \in past
      <4>1. name < file.name
        BY <3>1 DEF FileInv, NamesFit
      <4>2. name \in Nat
        BY <3>1 DEF FileInv, FileTypes
      <4>3. QED
        BY <1>1, <1>5, <4>1, <4>2
    <3>2. CASE name = file.name
      BY <1>5, <3>2
    <3>3. QED
      BY <3>1, <3>2 DEF Rolled
  <2>2. QED
    BY <1>1, <1>2, <1>3, <2>1 DEF NamesFit
<1>7. LargeAtOnce'
  BY <1>2 DEF LargeAtOnce
<1>8. Prompt(InPeriod)' /\ Prompt(InTime)'
  BY <1>1, <1>2, NoLines DEF Prompt
<1>9. QED
  BY <1>4, <1>6, <1>7, <1>8 DEF FileInv

LEMMA RollFailedKeeps ==
  ASSUME FileInv, UNCHANGED <<now, setBack>>, count' \in 0 .. CheckEveryN - 1,
         NEW f \in FileRecord, f.name = file.name, f.onDisk <= Len(f.lines), RollFailed(f)
  PROVE  FileInv'
<1>1. now \in Nat /\ times.lastRoll \in Nat /\ file.name \in Nat
  BY FileAssumption DEF FileInv, FileTypes
<1>2. times' = [lastRoll |-> now, lastFlush |-> now, period |-> Period(now)]
      /\ Period(now) \in Periods
  BY <1>1 DEF RollFailed, Periods
<1>3. file' = f /\ past' = past /\ failed'
  BY Zenon DEF RollFailed
<1>4. file.name <= now
  BY <1>1 DEF FileInv, FileTypes, NamesFit, RollFailed
<1>5. FileTypes'
  <2>1. (failed \in BOOLEAN)'
    BY Zenon DEF RollFailed
  <2>2. QED
    BY <1>1, <1>2, <1>3, <2>1 DEF FileInv, FileTypes
<1>6. NamesFit'
  BY <1>1, <1>2, <1>3, <1>4 DEF NamesFit, FileInv
<1>7. QED
  BY <1>3, <1>5, <1>6 DEF FileInv

(* The line stays in the open file, of which f is the new content, and      *)
(* perhaps all of it is flushed.                                            *)

Longer(f) ==
  /\ f \in FileRecord /\ f.name = file.name
  /\ Len(f.lines) = Len(file.lines) + 1
  /\ \A j \in 1 .. Len(file.lines) : f.lines[j] = file.lines[j]
  /\ f.lines[Len(file.lines) + 1] = [at |-> now, total |-> f.written]
  /\ f.written > RollSize => now <= times.lastRoll

Stays(f) ==
  /\ file' \in FileRecord /\ file'.name = f.name /\ file'.lines = f.lines
  /\ \/ file'.onDisk = file.onDisk /\ times' = times
     \/ /\ file'.onDisk = Len(f.lines) /\ now > times.lastFlush
        /\ times' = [times EXCEPT !.lastFlush = now]

Harmless(f) ==
  \/ now <= times.lastRoll
  \/ /\ Period(now) = times.period
     /\ file'.onDisk = Len(f.lines) \/ ~(now > times.lastFlush + FlushInterval)

LEMMA FileNumbers ==
  ASSUME FileInv
  PROVE  /\ CheckEveryN \in Nat \ {0} /\ FlushInterval \in Nat /\ RollSize \in Nat
         /\ now \in Nat /\ times.lastRoll \in Nat /\ times.lastFlush \in Nat
         /\ file.name \in Nat /\ file.onDisk \in Nat /\ Len(file.lines) \in Nat
         /\ file.onDisk <= Len(file.lines) /\ times.lastRoll <= times.lastFlush
         /\ file.name <= times.lastRoll
         /\ count \in 0 .. CheckEveryN - 1
         /\ \A j \in 1 .. Len(file.lines) : file.lines[j].at \in Nat
<1>1. file.lines \in Seq(Line)
  BY DEF FileInv, FileTypes, FileRecord
<1>2. Len(file.lines) \in Nat /\ \A j \in 1 .. Len(file.lines) : file.lines[j] \in Line
  BY <1>1
<1>3. \A j \in 1 .. Len(file.lines) : file.lines[j].at \in Nat
  BY <1>2 DEF Line
<1>4. file.name \in Nat /\ file.onDisk \in Nat
  BY DEF FileInv, FileTypes, FileRecord
<1>5. FirstSecond \in Nat /\ LastSecond \in Nat /\ now \in FirstSecond .. LastSecond
  BY FileAssumption DEF FileInv, FileTypes
<1>6. times \in [lastRoll : Nat, lastFlush : Nat, period : Periods]
      /\ times.lastRoll <= times.lastFlush /\ file.name <= times.lastRoll
      /\ file.onDisk <= Len(file.lines) /\ count \in 0 .. CheckEveryN - 1
  BY DEF FileInv, FileTypes, NamesFit
<1>7. QED
  BY <1>2, <1>3, <1>4, <1>5, <1>6, FileAssumption

LEMMA SameFileKeeps ==
  ASSUME FileInv, UNCHANGED <<now, setBack, past, failed>>, count' \in 0 .. CheckEveryN - 1,
         NEW f, Longer(f), Stays(f), count' = count + 1 \/ Harmless(f)
  PROVE  FileInv'
<1>0. PICK n \in Nat : n = Len(file.lines)
  BY FileNumbers
<1>1. /\ CheckEveryN \in Nat \ {0} /\ FlushInterval \in Nat
      /\ now \in Nat /\ times.lastRoll \in Nat /\ times.lastFlush \in Nat
      /\ file.name \in Nat /\ file.onDisk \in Nat /\ n \in Nat
      /\ file.onDisk <= n /\ times.lastRoll <= times.lastFlush
      /\ \A j \in 1 .. n : file.lines[j].at \in Nat
      /\ count \in 0 .. CheckEveryN - 1
  BY <1>0, FileNumbers
<1>2. times \in [lastRoll : Nat, lastFlush : Nat, period : Periods]
      /\ times.period = Period(times.lastRoll)
  BY DEF FileInv, FileTypes
<1>3. /\ times' \in [lastRoll : Nat, lastFlush : Nat, period : Periods]
      /\ times'.lastRoll = times.lastRoll /\ times'.period = times.period
      /\ times'.lastFlush \in Nat /\ times.lastFlush <= times'.lastFlush
  BY <1>1, <1>2 DEF Stays
<1>4. /\ file' \in FileRecord /\ file'.name = file.name /\ Len(file'.lines) = n + 1
      /\ file'.lines[n + 1].at = now /\ file'.lines[n + 1].total = f.written
      /\ \A j \in 1 .. n : file'.lines[j] = file.lines[j]
      /\ f.written > RollSize => now <= times.lastRoll
  BY <1>0 DEF Longer, Stays
<1>5. file'.onDisk \in Nat /\ file'.onDisk <= n + 1 /\ file.onDisk <= file'.onDisk
  <2>1. file'.onDisk = file.onDisk \/ file'.onDisk = n + 1
    BY <1>0 DEF Longer, Stays
  <2>2. QED
    BY <1>1, <2>1
<1>6. FileTypes'
  BY <1>0, <1>1, <1>2, <1>3, <1>4, <1>5 DEF FileInv, FileTypes
<1>7. NamesFit'
  BY <1>3, <1>4 DEF FileInv, NamesFit
<1>8. count' = count + 1 \/ now <= times.lastRoll
      \/ /\ Period(now) = times.period
         /\ file'.onDisk = n + 1 \/ ~(now > times.lastFlush + FlushInterval)
  BY <1>0 DEF Harmless, Longer
<1>9. ASSUME ~failed PROVE LargeAtOnce' /\ Prompt(InPeriod)' /\ Prompt(InTime)'
  <2>1. file.name = times.lastRoll /\ LargeAtOnce
    BY <1>9 DEF FileInv, NamesFit
  <2>2. LargeAtOnce'
    <3> SUFFICES ASSUME NEW i \in 1 .. n + 1, file'.lines[i].total > RollSize
                 PROVE  file'.lines[i].at <= file.name
      BY <1>4 DEF LargeAtOnce
    <3>1. CASE i = n + 1
      BY <1>4, <2>1, <3>1
    <3>2. CASE i \in 1 .. n
      BY <1>0, <1>4, <2>1, <3>2 DEF LargeAtOnce
    <3>3. QED
      BY <1>1, <3>1, <3>2
  <2>3. \A j \in 1 .. n : j \in InPeriod => j \in InPeriod'
    <3> SUFFICES ASSUME NEW j \in 1 .. n, j \in InPeriod PROVE j \in InPeriod'
      OBVIOUS
    <3>1. ~Late(file.lines[j]) /\ file'.lines[j] = file.lines[j]
      BY <1>0, <1>4 DEF InPeriod
    <3>2. ~Late(file.lines[j])'
      BY <1>4, <3>1 DEF Late
    <3>3. QED
      BY <1>1, <1>4, <3>2 DEF InPeriod
  <2>4. \A j \in 1 .. n : j \in InTime => j \in InTime'
    <3> SUFFICES ASSUME NEW j \in 1 .. n, j \in InTime PROVE j \in InTime'
      OBVIOUS
    <3>1. ~Overdue(j) /\ file'.lines[j] = file.lines[j] /\ file.lines[j].at \in Nat
      BY <1>0, <1>1, <1>4 DEF InTime
    <3>2. ~Overdue(j)'
      BY <1>1, <1>3, <1>5, <3>1 DEF Overdue
    <3>3. QED
      BY <1>1, <1>4, <3>2 DEF InTime
  <2>5. count' = count + 1 \/ n + 1 \in InPeriod'
    <3>1. CASE now <= times.lastRoll \/ Period(now) = times.period
      <4>1. ~(now > file.name /\ Period(now) # Period(file.name))
        BY <1>1, <1>2, <2>1, <3>1
      <4>2. ~Late(file.lines[n + 1])'
        BY <1>4, <4>1 DEF Late
      <4>3. QED
        BY <1>1, <1>4, <4>2 DEF InPeriod
    <3>2. QED
      BY <1>8, <3>1
  <2>6. count' = count + 1 \/ n + 1 \in InTime'
    <3>1. CASE \/ now <= times.lastRoll
               \/ ~(now > times.lastFlush + FlushInterval)
               \/ file'.onDisk = n + 1
      <4>1. ~(n + 1 > file'.onDisk /\ now > times'.lastFlush + FlushInterval)
        BY <1>1, <1>3, <3>1
      <4>2. ~Overdue(n + 1)'
        BY <1>4, <4>1 DEF Overdue
      <4>3. QED
        BY <1>1, <1>4, <4>2 DEF InTime
    <3>2. QED
      BY <1>8, <3>1
  <2>7. /\ Recent(n, count, InPeriod) /\ Windows(n, InPeriod)
        /\ Recent(n, count, InTime) /\ Windows(n, InTime)
    BY <1>0, <1>9 DEF FileInv, Prompt
  <2>8. Recent(n + 1, count', InPeriod') /\ Windows(n + 1, InPeriod')
    BY <1>1, <2>3, <2>5, <2>7, OneMoreLine
  <2>9. Recent(n + 1, count', InTime') /\ Windows(n + 1, InTime')
    BY <1>1, <2>4, <2>6, <2>7, OneMoreLine
  <2>10. QED
    BY <1>4, <2>2, <2>8, <2>9 DEF Prompt, Recent, Windows
<1>10. QED
  BY <1>6, <1>7, <1>9 DEF FileInv

(* append() preserves the invariant, whether it rolls, fails to, flushes or *)
(* does none of these.                                                      *)
LEMMA AppendKeeps ==
  ASSUME FileInv, UNCHANGED <<now, setBack>>,
         NEW size \in Nat, NEW ok \in BOOLEAN, NEW opens \in BOOLEAN,
         AppendToFile(size, ok, opens)
  PROVE  FileInv'
<1> DEFINE f == Write(file, size, ok)
<1>1. now \in Nat /\ file \in FileRecord /\ file.onDisk <= Len(file.lines)
      /\ file.onDisk \in Nat /\ Len(file.lines) \in Nat
  BY FileNumbers DEF FileInv, FileTypes
<1>2. /\ f \in FileRecord /\ f.name = file.name /\ f.onDisk = file.onDisk
      /\ Len(f.lines) = Len(file.lines) + 1
      /\ \A j \in 1 .. Len(file.lines) : f.lines[j] = file.lines[j]
      /\ f.lines[Len(file.lines) + 1] = [at |-> now, total |-> f.written]
  BY <1>1, WriteType
<1>3. FileTypes
  BY DEF FileInv
<1>4. /\ count' \in 0 .. CheckEveryN - 1
      /\ \/ Rolled(f) \/ RollFailed(f)
         \/ /\ Kept(f)
            /\ f.written > RollSize => now <= times.lastRoll
            /\ \/ count' = count + 1
               \/ now <= times.lastRoll
               \/ Period(now) = times.period /\ ~(now > times.lastFlush + FlushInterval)
         \/ /\ JustFlushed(f)
            /\ ~(f.written > RollSize)
            /\ Period(now) = times.period
  BY <1>3, AppendOutcome
<1>5. /\ Flushed(f) \in FileRecord /\ Flushed(f).name = f.name
      /\ Flushed(f).lines = f.lines /\ Flushed(f).onDisk = Len(f.lines)
  BY <1>2, FlushedType
<1> HIDE DEF f
<1>6. CASE Rolled(f)
  BY <1>2, <1>4, <1>6, RolledKeeps
<1>7. CASE RollFailed(f)
  <2>1. f.onDisk <= Len(f.lines)
    BY <1>1, <1>2
  <2>2. QED
    BY <1>2, <1>4, <1>7, <2>1, RollFailedKeeps
<1>8. CASE /\ Kept(f)
           /\ f.written > RollSize => now <= times.lastRoll
           /\ \/ count' = count + 1
              \/ now <= times.lastRoll
              \/ Period(now) = times.period /\ ~(now > times.lastFlush + FlushInterval)
  <2>1. file' = f /\ UNCHANGED <<times, past, failed>>
    BY <1>8 DEF Kept
  <2>2. Longer(f) /\ Stays(f) /\ (count' = count + 1 \/ Harmless(f))
    BY <1>2, <1>8, <2>1 DEF Longer, Stays, Harmless
  <2>3. QED
    BY <1>4, <2>1, <2>2, SameFileKeeps
<1>9. CASE JustFlushed(f) /\ ~(f.written > RollSize) /\ Period(now) = times.period
  <2>1. /\ now > times.lastFlush /\ file' = Flushed(f)
        /\ times' = [times EXCEPT !.lastFlush = now] /\ UNCHANGED <<past, failed>>
    BY <1>9 DEF JustFlushed
  <2>2. Longer(f) /\ Stays(f) /\ Harmless(f)
    BY <1>2, <1>5, <1>9, <2>1 DEF Longer, Stays, Harmless
  <2>3. QED
    BY <1>4, <2>1, <2>2, SameFileKeeps
<1>10. QED
  BY <1>4, <1>6, <1>7, <1>8, <1>9

(* flush() puts all on the disk, and so no line is overdue.                 *)
LEMMA FlushKeeps ==
  ASSUME FileInv, UNCHANGED <<now, setBack>>, FlushFile
  PROVE  FileInv'
<1>1. /\ file' \in FileRecord /\ file'.name = file.name /\ file'.lines = file.lines
      /\ file'.onDisk = Len(file.lines) /\ Len(file.lines) \in Nat
  BY FlushedType, FileNumbers DEF FileInv, FileTypes, FlushFile
<1>2. UNCHANGED <<times, count, past, failed>>
  BY DEF FlushFile
<1>3. FileTypes' /\ NamesFit'
  BY <1>1, <1>2 DEF FileInv, FileTypes, NamesFit
<1>4. ASSUME ~failed PROVE LargeAtOnce' /\ Prompt(InPeriod)' /\ Prompt(InTime)'
  <2>1. LargeAtOnce'
    BY <1>1, <1>4 DEF FileInv, LargeAtOnce
  <2>2. InPeriod' = InPeriod
    BY <1>1 DEF InPeriod, Late
  <2>3. \A j \in InTime : j \in InTime'
    <3> SUFFICES ASSUME NEW j \in 1 .. Len(file.lines) PROVE ~Overdue(j)'
      BY <1>1 DEF InTime
    <3>1. QED
      BY <1>1 DEF Overdue
  <2>4. Prompt(InPeriod)'
    BY <1>1, <1>2, <1>4, <2>2 DEF FileInv, Prompt
  <2>5. Prompt(InTime)'
    BY <1>1, <1>2, <1>4, <2>3 DEF FileInv, Prompt, Recent, Windows
  <2>6. QED
    BY <2>1, <2>4, <2>5
<1>5. QED
  BY <1>2, <1>3, <1>4 DEF FileInv

(* The clock is no part of what the invariant says of the file.             *)
LEMMA ClockKeeps ==
  ASSUME FileInv, Clock
  PROVE  FileInv'
<1>1. UNCHANGED <<file, times, count, past, failed>>
  BY DEF Clock, fileVars
<1>2. (now \in FirstSecond .. LastSecond /\ setBack \in 0 .. MaxSetBack)'
  <2>1. FirstSecond \in Nat /\ LastSecond \in Nat /\ MaxSetBack \in Nat
        /\ now \in FirstSecond .. LastSecond /\ setBack \in 0 .. MaxSetBack
    BY FileAssumption DEF FileInv, FileTypes
  <2>2. CASE Tick
    BY <2>1, <2>2 DEF Tick
  <2>3. CASE SetBack
    BY <2>1, <2>3 DEF SetBack
  <2>4. QED
    BY <2>2, <2>3 DEF Clock
<1>3. FileTypes' /\ NamesFit' /\ LargeAtOnce' = LargeAtOnce
      /\ Prompt(InPeriod)' = Prompt(InPeriod) /\ Prompt(InTime)' = Prompt(InTime)
  BY <1>1, <1>2
     DEF FileInv, FileTypes, NamesFit, LargeAtOnce, Prompt, InPeriod, InTime, Late, Overdue
<1>4. QED
  BY <1>1, <1>3 DEF FileInv

LEMMA FileUnchanged == FileInv /\ UNCHANGED <<clockVars, fileVars>> => FileInv'
  BY DEF clockVars, fileVars, FileInv, FileTypes, NamesFit, LargeAtOnce, Prompt, InPeriod,
         InTime, Late, Overdue, Recent, Windows

(* What is written stays: in the open file, and there on the disk if it was *)
(* so far, or in a closed one.                                              *)
LEMMA AppendGrows ==
  ASSUME FileInv, NEW size \in Nat, NEW ok \in BOOLEAN, NEW opens \in BOOLEAN,
         AppendToFile(size, ok, opens)
  PROVE  /\ past \subseteq past'
         /\ \/ file.name \in past'
            \/ /\ file'.name = file.name /\ Len(file'.lines) = Len(file.lines) + 1
               /\ file'.onDisk >= file.onDisk
<1> DEFINE f == Write(file, size, ok)
<1>1. file \in FileRecord /\ now \in Nat /\ FileTypes
  BY FileNumbers DEF FileInv, FileTypes
<1>2. /\ f \in FileRecord /\ f.name = file.name /\ f.onDisk = file.onDisk
      /\ Len(f.lines) = Len(file.lines) + 1
  BY <1>1, WriteType
<1>3. Rolled(f) \/ RollFailed(f) \/ Kept(f) \/ JustFlushed(f)
  BY <1>1, AppendOutcome
<1>4. /\ Flushed(f).name = f.name /\ Flushed(f).lines = f.lines
      /\ Flushed(f).onDisk = Len(f.lines)
  BY <1>2, FlushedType
<1>5. file.onDisk \in Nat /\ Len(file.lines) \in Nat /\ file.onDisk <= Len(file.lines)
  BY FileNumbers
<1> HIDE DEF f
<1>6. CASE Rolled(f)
  BY <1>2, <1>6 DEF Rolled
<1>7. CASE RollFailed(f)
  BY <1>2, <1>5, <1>7 DEF RollFailed
<1>8. CASE Kept(f)
  BY <1>2, <1>5, <1>8 DEF Kept
<1>9. CASE JustFlushed(f)
  BY <1>2, <1>4, <1>5, <1>9 DEF JustFlushed
<1>10. QED
  BY <1>3, <1>6, <1>7, <1>8, <1>9
=============================================================================
