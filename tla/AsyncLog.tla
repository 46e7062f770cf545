------------------------------ MODULE AsyncLog ------------------------------
(***************************************************************************)
(* log::Async (base/log/async.cc): log lines go through append() into      *)
(* blocks of a fixed size (FixedBuffer of detail/log_util.h), and one      *)
(* background thread takes the blocks over and appends them to a file.     *)
(*                                                                         *)
(* Two spare blocks of the thread circulate: under the mutex it exchanges  *)
(* them for the block that is being filled (and for the reserve block, if  *)
(* append() has used it), writes what it got, and keeps two of the written *)
(* blocks as the next spares.  append() runs wholly under the mutex, so it *)
(* is one step whichever thread calls it.  start() and stop() are called   *)
(* by one owner, and may be called again after a stop().                   *)
(***************************************************************************)
EXTENDS Integers, Sequences, SequencesExt

CONSTANTS
  Messages,       \* the lines that are logged, each at most once
  Size,           \* Size[m]: its length
  BlockSize,      \* LARGE_BUFFER
  MaxBlocks,      \* 32: more blocks than these at once are dropped but two
  LatchModulus,   \* count_ of CountDownLatch is unsigned: 2^32
  MaxStarts,      \* bounds how often start() is called
  Notice,         \* the line "[Warning ] Dropped log messages ..." in the file
  None            \* a null block pointer

ASSUME AsyncAssumption ==
  /\ Size \in [Messages -> Nat]
  /\ BlockSize \in Nat \ {0}
  /\ MaxBlocks \in Nat /\ MaxBlocks >= 2
  /\ LatchModulus \in Nat /\ LatchModulus >= 2
  /\ MaxStarts \in Nat
  /\ Notice \notin Messages
  /\ None \notin [data : Seq(Messages), length : Nat]

VARIABLES
  running,     \* running_
  current,     \* current_block_
  next,        \* next_block_, None once append() has used it
  blocks,      \* blocks_
  latch,       \* latch_.count_
  owner,       \* the owner: "idle", "await" in start(), "join" in stop()
  starts,      \* how often start() has been called
  pc,          \* where the thread is in run()
  new1, new2,  \* new_block_1, new_block_2
  toWrite,     \* block_2_write
  written,     \* what has been appended to the file
  flushed,     \* how much of it was there at the last output.flush()
  log,         \* the lines given to append(), in the order of the mutex
  dropped      \* the lines in blocks that the thread has dropped

buffers == <<current, next, blocks>>
thread  == <<pc, new1, new2, toWrite, written, flushed, dropped>>
control == <<running, owner, starts>>
vars    == <<buffers, thread, control, latch, log>>

Empty    == [data |-> <<>>, length |-> 0]
Avail(b) == BlockSize - b.length

Init ==
  /\ running = FALSE
  /\ current = Empty /\ next = Empty /\ blocks = <<>>
  /\ latch = 1
  /\ owner = "idle" /\ starts = 0
  /\ pc = "none" /\ new1 = None /\ new2 = None /\ toWrite = <<>>
  /\ written = <<>> /\ flushed = 0
  /\ log = <<>> /\ dropped = {}
-----------------------------------------------------------------------------
(* append() *)

(* Defect: a line is stored that fills the block to its last byte. *)
Put_Full(b, m) ==
  IF Avail(b) >= Size[m]
  THEN [data |-> Append(b.data, m), length |-> b.length + Size[m]]
  ELSE b

(* FixedBuffer::append(): a line that does not fit is ignored. *)
Put(b, m) ==
  IF Avail(b) > Size[m]
  THEN [data |-> Append(b.data, m), length |-> b.length + Size[m]]
  ELSE b

AppendFits(m) ==
  /\ Avail(current) > Size[m]
  /\ current' = Put(current, m)
  /\ log' = Append(log, m)
  /\ UNCHANGED <<next, blocks, thread, control, latch>>

AppendRolls(m) ==
  /\ Avail(current) <= Size[m]
  /\ blocks' = Append(blocks, current)
  /\ current' = Put(IF next = None THEN Empty ELSE next, m)
  /\ next' = None
  /\ log' = Append(log, m)
  /\ UNCHANGED <<thread, control, latch>>
-----------------------------------------------------------------------------
(* start() and stop() *)

Start ==            \* running_ is set before the thread is created
  /\ owner = "idle" /\ ~running /\ starts < MaxStarts
  /\ running' = TRUE
  /\ pc' = "begin"
  /\ owner' = "await"
  /\ starts' = starts + 1
  /\ UNCHANGED <<buffers, new1, new2, toWrite, written, flushed, dropped, latch, log>>

StartReturns ==     \* latch_.await()
  /\ owner = "await"
  /\ latch = 0
  /\ owner' = "idle"
  /\ UNCHANGED <<buffers, thread, running, starts, latch, log>>

Stop ==             \* also by the destructor, if it is running
  /\ owner = "idle" /\ running
  /\ running' = FALSE
  /\ owner' = "join"
  /\ UNCHANGED <<buffers, thread, starts, latch, log>>

StopReturns ==
  /\ owner = "join"
  /\ pc = "done"
  /\ owner' = "idle"
  /\ UNCHANGED <<buffers, thread, running, starts, latch, log>>
-----------------------------------------------------------------------------
(* Data::run() *)

BeginThrows ==      \* the exception leaves run(), and ThreadData::run aborts
  /\ pc = "begin"
  /\ ~running
  /\ pc' = "aborted"
  /\ UNCHANGED <<buffers, new1, new2, toWrite, written, flushed, dropped,
                 control, latch, log>>

(* Defect: the latch is not counted down. *)
Begin_Silent ==
  /\ pc = "begin"
  /\ running
  /\ new1' = Empty /\ new2' = Empty /\ toWrite' = <<>>
  /\ pc' = "loop"
  /\ UNCHANGED <<buffers, written, flushed, dropped, control, latch, log>>

Begin ==
  /\ pc = "begin"
  /\ running
  /\ latch' = (latch - 1) % LatchModulus
  /\ new1' = Empty /\ new2' = Empty /\ toWrite' = <<>>
  /\ pc' = "loop"
  /\ UNCHANGED <<buffers, written, flushed, dropped, control, log>>

Loop ==
  /\ pc = "loop"
  /\ running
  /\ pc' = "swap"
  /\ UNCHANGED <<buffers, new1, new2, toWrite, written, flushed, dropped,
                 control, latch, log>>

Finish ==
  /\ pc = "loop"
  /\ ~running
  /\ flushed' = Len(written)
  /\ new1' = None /\ new2' = None
  /\ pc' = "done"
  /\ UNCHANGED <<buffers, toWrite, written, dropped, control, latch, log>>

(* Defect: the thread waits for a full block with no time limit. *)
Swap_Untimed ==
  /\ pc = "swap"
  /\ blocks # <<>>
  /\ toWrite' = Append(blocks, current) /\ blocks' = <<>>
  /\ current' = new1 /\ new1' = None
  /\ next' = IF next = None THEN new2 ELSE next
  /\ new2' = IF next = None THEN None ELSE new2
  /\ pc' = "output"
  /\ UNCHANGED <<written, flushed, dropped, control, latch, log>>

(* With no full block, wait_for() gives the mutex up for flush_interval_ at *)
(* most; whether it was notified or not, the thread goes on with it.        *)
Swap ==
  /\ pc = "swap"
  /\ toWrite' = Append(blocks, current) /\ blocks' = <<>>
  /\ current' = new1 /\ new1' = None
  /\ next' = IF next = None THEN new2 ELSE next
  /\ new2' = IF next = None THEN None ELSE new2
  /\ pc' = "output"
  /\ UNCHANGED <<written, flushed, dropped, control, latch, log>>

Lines(bs) == FlattenSeq([i \in DOMAIN bs |-> bs[i].data])

(* Defect: one block is kept of those that are too many. *)
Output_KeepOne ==
  /\ pc = "output"
  /\ LET over == Len(toWrite) > MaxBlocks
         kept == IF over THEN SubSeq(toWrite, 1, 1) ELSE toWrite
         gone == Lines(SubSeq(toWrite, Len(kept) + 1, Len(toWrite)))
     IN  /\ written' = written \o (IF over THEN <<Notice>> ELSE <<>>) \o Lines(kept)
         /\ dropped' = dropped \cup ToSet(gone)
         /\ toWrite' = kept
  /\ pc' = "recycle"
  /\ UNCHANGED <<buffers, new1, new2, flushed, control, latch, log>>

Output ==
  /\ pc = "output"
  /\ LET over == Len(toWrite) > MaxBlocks
         kept == IF over THEN SubSeq(toWrite, 1, 2) ELSE toWrite
         gone == Lines(SubSeq(toWrite, Len(kept) + 1, Len(toWrite)))
     IN  /\ written' = written \o (IF over THEN <<Notice>> ELSE <<>>) \o Lines(kept)
         /\ dropped' = dropped \cup ToSet(gone)
         /\ toWrite' = kept
  /\ pc' = "recycle"
  /\ UNCHANGED <<buffers, new1, new2, flushed, control, latch, log>>

(* Defect: the block that becomes new_block_1 is not reset. *)
Recycle_NoReset ==
  /\ pc = "recycle"
  /\ LET two  == IF Len(toWrite) > 2 THEN SubSeq(toWrite, 1, 2) ELSE toWrite
     IN  new1' = IF new1 = None THEN two[Len(two)] ELSE new1
  /\ new2' = Empty
  /\ toWrite' = <<>>
  /\ flushed' = Len(written)
  /\ pc' = "loop"
  /\ UNCHANGED <<buffers, written, dropped, control, latch, log>>

(* The spares that were given away come back from the written blocks, reset; *)
(* what they are taken from must not be empty (asserted in the code).        *)
Spares == (IF new1 = None THEN 1 ELSE 0) + (IF new2 = None THEN 1 ELSE 0)

Recycle ==
  /\ pc = "recycle"
  /\ new1' = IF new1 = None THEN Empty ELSE new1
  /\ new2' = IF new2 = None THEN Empty ELSE new2
  /\ toWrite' = <<>>
  /\ flushed' = Len(written)
  /\ pc' = "loop"
  /\ UNCHANGED <<buffers, written, dropped, control, latch, log>>
-----------------------------------------------------------------------------
AppendLine(m) ==      \* std::abort() ends the callers of append() too
  /\ m \notin ToSet(log)
  /\ pc # "aborted"
  /\ AppendFits(m) \/ AppendRolls(m)

Run == Begin \/ BeginThrows \/ Loop \/ Swap \/ Output \/ Recycle \/ Finish

Next ==
  \/ \E m \in Messages : AppendLine(m)
  \/ Start \/ StartReturns \/ Stop \/ StopReturns
  \/ Run

Spec == Init /\ [][Next]_vars

(* The thread is scheduled and its timed wait ends; calls that can return do. *)
Fairness == WF_vars(Run) /\ WF_vars(StartReturns) /\ WF_vars(StopReturns)
FairSpec == Spec /\ Fairness
-----------------------------------------------------------------------------
Block == [data : Seq(Messages), length : 0 .. BlockSize - 1]

(* A block never holds BlockSize bytes: avail() is never zero (log_util.h). *)
TypeOK ==
  /\ running \in BOOLEAN
  /\ current \in Block /\ next \in {Empty, None} /\ blocks \in Seq(Block)
  /\ latch \in 0 .. LatchModulus - 1
  /\ owner \in {"idle", "await", "join"} /\ starts \in 0 .. MaxStarts
  /\ pc \in {"none", "begin", "loop", "swap", "output", "recycle", "done", "aborted"}
  /\ new1 \in {Empty, None} /\ new2 \in {Empty, None} /\ toWrite \in Seq(Block)
  /\ written \in Seq(Messages \cup {Notice}) /\ flushed \in 0 .. Len(written)
  /\ log \in Seq(Messages) /\ dropped \subseteq Messages

(* The assertions of run() (async.cc:51-53, 69, 92, 99): both spares are     *)
(* there and empty when the blocks are exchanged, there is something to      *)
(* write, and enough written blocks are left to replace the spares that were *)
(* given away, whatever append() did to next_block_ in between.              *)
AssertsHold ==
  /\ pc = "swap" => new1 = Empty /\ new2 = Empty /\ toWrite = <<>>
  /\ pc = "output" => toWrite # <<>>
  /\ pc \in {"output", "recycle"} => Len(toWrite) >= Spares

(* Every line that fits a block is in the file, or in the blocks on the way  *)
(* there, exactly once and in the order of append(), unless the thread has   *)
(* dropped its block: no exchange, drop, reuse of a block or restart loses,  *)
(* repeats or reorders one.  (The notices of the thread are no lines.)       *)
Only(s, S) ==        \* s without what is not in S
  LET kept[i \in 0 .. Len(s)] ==
        IF i = 0 THEN <<>>
        ELSE IF s[i] \in S THEN Append(kept[i - 1], s[i]) ELSE kept[i - 1]
  IN  kept[Len(s)]
Kept      == {m \in Messages : Size[m] < BlockSize /\ m \notin dropped}
Unwritten == IF pc = "output" THEN toWrite ELSE <<>>
WrittenInOrder ==
  Only(written, Messages) \o Lines(Unwritten) \o Lines(blocks) \o current.data
    = Only(log, Kept)

(* A line that was appended is flushed to the file, or dropped with a block, *)
(* or the log is stopped: the timed wait gets a block that never fills up    *)
(* to the file too.                                                          *)
InFile(m) == \E i \in 1 .. flushed : written[i] = m
LineReachesFile ==
  \A m \in Messages :
    m \in ToSet(log) /\ Size[m] < BlockSize ~> InFile(m) \/ m \in dropped \/ ~running

(* The first start() returns, and every stop() does unless run() has aborted. *)
StartsOnce == starts = 1 /\ owner = "await" ~> owner = "idle"
StopsFinally == owner = "join" ~> owner = "idle" \/ pc = "aborted"

(* async.cc:38-39: run() takes it that the log is running when it begins,    *)
(* "log::Async is not running." being the exception otherwise.  start() is   *)
(* to see to that: it returns when the thread has passed this point.         *)
BeginsRunning == pc # "aborted"
=============================================================================
