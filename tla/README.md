# Verification of pginf

pginf is a C++ library of infrastructure code: a thread wrapper and a thread
pool, a logger with an asynchronous back end, time and number formatting, and a
plug-in manager built on shared libraries.  This directory holds TLA+ models of
its parts, the TLC configurations that check them on small instances, and
proofs for TLAPS.  All paths are those of the repository.

## The system

| Part | State | Operations | Talks to |
|---|---|---|---|
| `ThreadPool` (`pginf/src/base/thread/thread_pool.cc`) | `running_`, `queue_`, two condition variables, the workers | `start`, `stop`, `run`, the workers' `loop`/`take` | `Thread`; tasks may call `run` back |
| `Thread` (`thread.cc`) | `started_`, `thread_id_`, the `std::thread`, a latch | `start`, `join`, the body that runs the task | `ThreadPool`, `log::Async` |
| `log::Async` (`base/log/async.cc`) | `running_`, current and reserve block, full blocks, a latch | `append`, `start`, `stop`, the background thread | `Thread`, `CountDownLatch`, `log::File` |
| `log::File`, `AppendFile` | the open file, the times of the last roll and flush | `append`, `flush`, `rollFile` | the clock, the file system |
| `Logger`, `LogStream` | level, output, time zone, a cached time per thread | setters, formatting | an output function such as `Async::append` |
| `plugin::Manage` with `core::Host`, `core::Library` (`pginf/src/core`) | the loaded plug-ins, the registered provider types and hosted providers, pending requests, open libraries | `loadPlugin`, `unload`, `unloadAll`, `importProvider`, `registerType`, `getProviders`, `getLoadedPlugins`, `isLoaded` | plug-in code, which calls `importProvider` (and may call `loadPlugin`) back |
| `Timestamp`, `DateTime`, `TimeZone` | the transitions of a zone | conversions | `Logger`, `log::File` |
| `SystemInfo`, `Exception`, stack traces | none | system calls | |

What is hard in it: the two condition variables of the pool under `stop()` and
under tasks that call `run()`; the exchange of blocks between the appending
threads and the log thread, and its restart; plug-in code that is called in the
middle of a load and calls back; objects whose code lives in a library that can
be unmapped.  `PROJECT.json` lists these hazards one by one at their lines.

What makes each part correct:

* **ThreadPool** - tasks begin in the order they were accepted and at most
  once; the queue keeps its bound; no wakeup is lost, so that a `run()` which never
  returns is one that other calls overtake for ever; `stop()` ends, frees every
  blocked `run()`, and no task begins once it has returned.
* **log::Async** - every line that fits a block reaches the file once and in
  order, or is dropped with its block; the spare blocks never run out; a line
  that nobody follows up is still written.
* **plugin** - a load happens or leaves no trace; a provider is compatible,
  owned once and destroyed before its library is closed; every `dlopen` has its
  `dlclose`, unless `getId()` throws.
* **Thread** - what `isRunning()` and `tid()` tell is right although the body sets
  the fields without a lock; the object outlives the body; the program is only
  terminated for a second start without a join, a thread that cannot be made or
  a task that throws; every call returns.
* **log::File** - two files never share a name; a file rolls by size and by period
  and is flushed as late as the parameters say, whatever the clock does.
* **Logger** - the time in a line is that of the line, in the zone that is set but
  for seconds the clock had shown before it was set; a FATAL line is on the disk
  when the program ends; a line has its header and its newline.
* **Time** - conversions agree with the calendar and undo one another, before 1970,
  in leap years and around every transition of a zone.
* **Formatting** - numbers keep the digits and the width their comments promise at
  every border where the format changes; integers read back.

## Modules

| Module | What it is |
|---|---|
| `TaskQueue` | abstract: a FIFO of tasks that is opened, closed and settled |
| `ThreadPool` | the pool, implements `TaskQueue` |
| `ThreadPool_proofs` | proofs about the pool |
| `PluginRegistry` | abstract: atomic load and unload of plug-ins |
| `PluginManage` | `Manage`, `Host`, `Library`, `loadPlugin`; implements `PluginRegistry` for plug-ins that use the connector macro |
| `MCPluginManage` | the shared libraries of its instances |
| `AsyncLog` | `log::Async` with its blocks (`FixedBuffer`) and latch |
| `MCAsyncLog` | the lines of its instances |
| `AsyncLog_proofs` | proofs about the log |
| `JoinableTask` | abstract: a task that is launched, completes and is joined |
| `Thread` | `Thread`, `ThreadData::run()` and the `CountDownLatch`; implements `JoinableTask` |
| `Thread_proofs` | proofs about the thread, the refinement among them |
| `LogFile` | `log::File`, `AppendFile` and the wall clock |
| `Logger` | extends `LogFile`: log statements of several threads that write to it |
| `LogFile_proofs`, `Logger_proofs` | lemmas about the file; proofs about both |
| `Calendar` | dates, times of day and time stamps |
| `TimeZone` | zones with their transitions |
| `NumberFormat` | `formatSI`, `formatIEC`, `convert`, `convertHex` |
| `LogStream` | a line of the log in its buffer of 4096 bytes |
| `MCBase` | inputs and properties of the last four |
| `MCBase_proofs` | proofs about all of `MCBase`: dates, times of day, time zones, formatted quantities, digits and lines |
| `PluginManage_proofs` | proofs about the plug-ins, the refinement among them |
| `Induction_proofs` | induction over numbers and sequences, and what it gives of concatenation; that recursive functions exist; used by the proofs of the log and of `MCBase` |

Definitions whose comment begins with *Defect* are wrong variants of the
definition that follows them, each with one plausible mistake.  They are not
part of any specification; substituted for the definition they show that a
property notices the mistake (`mutants` in `PROJECT.json`).

### ThreadPool

A section of code under `mutex_` is one action, since waiting on a condition
variable releases the mutex and so ends the section.  The wait sets are the
threads whose `pc` is `waitNotEmpty` or `waitNotFull`; a notified thread moves
to `wokenNotEmpty` or `wokenNotFull` and tests its condition again in a later
step, together with any newcomer, so stolen wakeups are covered.  `notify_one`
picks any waiter, and a wait may end without a notification.  `loop()` reads
`running_` outside of the mutex: `CheckRunning` is a step of its own.  The owner
calls `start()` and `stop()` once; the destructor of a running pool is `stop()`.
Tasks are model values; with `Nested` a task may call `run()` any number of times
before it returns.  Calls of `run()` during `start()` are excluded, as they would
race on `threads_`; exceptions from tasks end the program and are left out.
In `Spec` every task is submitted once.  `StreamSpec` adds `Again`, with which a task
that is over may be submitted again, so that calls of `run()` never end.

The refinement maps the pool to `TaskQueue` by looking where each task is: in
`queue`, in the argument of a `run()`, executed by a worker, executed inline, or
in the history of executed and refused ones.

### PluginManage

`loadPlugin()` is split at the call of `importPlugin()`: `BeginLoad` (up to the
call), the imports that the plug-in makes, and one of `LoadFails`, `LoadCancels`,
`LoadSucceeds` after its return.  `stack` holds the loads that are under way, as a
hand-written plug-in may load others.  A plug-in is a record: its identifier, the
type and version of its provider, whether the exported symbols are there, and
whether it uses `PGINF_CONNECTOR_CREATE`.  `objects` says which library's provider
is at which address, and `crashed` becomes true when a provider is destroyed while
its library is not open.  `importPlugin()` may also throw (`ImportThrows`): nothing
catches that before the caller of `loadPlugin()`, and the library is closed on the
way.  When `getId()`, or the `Library` made from it, throws (`LoadThrows`), `load()`
catches it and returns without a `dlclose` (`library.cc:88-90`): the handle is lost,
and `leaked` counts that, up to `MaxLeaks` for each library.  The client is one
thread (nothing in `Manage` is synchronised) which releases the providers it has
locked before it unloads, as `tests/plugin_test/main.cc` does.  `Destroy` is
`~Manage()` of a program that makes a new one afterwards; `LoadIncomplete` covers
libraries without the symbols.

### AsyncLog

A block is its lines and its length.  `append()` runs wholly under the mutex and
is one step whichever thread calls it.  The thread's round is `Loop` (the test of
`running_`), `Swap` (the exchange under the mutex), `Output`, and `Recycle` with
the flush.  As the code waits with a time limit and does not test again after the
wait, `Swap` is always possible; a notification only changes when it happens.
`start()` and `stop()` may follow one another `MaxStarts` times; `latch` is the
count that `start()` waits for and which is never set back.  `log` and `dropped`
are history variables.  The file is the sequence of what was appended; `log::File`
itself is not part of this module.

### Thread

The owner calls `start()`, `join()` and the destructor; the body is
`ThreadData::run()` of the last `start()`.  `started_` and `thread_id_` are shared
without synchronisation, so every access is a step of its own: `ClearId` and
`ClearStarted` are two steps, and `Start`, `Spawn` and `StartReturns` are three,
with `AwaitSleeps` where the latch makes `start()` wait.  The latch is the
`CountDownLatch` with its waiting (`await`) and its notification (`countDown`).
The task may join its own thread, complete or throw.  `owner = "fault"` is
`std::terminate()` or `abort()`: a `std::thread` that is replaced while joinable
(`start()` after the task has ended, without a `join()`), one that cannot be made,
or an exception.  Only the owner calls
the object's functions, as the pool and the log do.

The refinement shows the users of `Thread` the little they rely on: a phase
(`Phase`) and how often the task was completed.  The owner's actions in `ThreadPool`
and `AsyncLog` that make and join threads are uses of `JoinableTask`.

### LogFile and Logger

`append()` and `flush()` of `log::File` are whole sections under its mutex, so each
is one operator (`AppendToFile`, `FlushFile`) that `Logger` uses in its steps, with
the roll inside.  Of a line the file keeps the second it was appended in and the
size of the file afterwards; `onDisk` counts the lines that were flushed.  The clock
(`Tick`, `SetBack`) moves between any two steps and may be set back.  With `Faults` a
write may fail (the rest of the line is lost and not counted) and so may the
opening of the next file (the old one is kept; `failed` notes it); `fflush()` is taken
not to fail.  `append()` reads the clock for its look at the period and, if it
rolls, once more for the name of the new file (`file.cc:93`): the model has one
reading, so a second that ends between the two is left out.

A log statement is `Construct` (time and cached text), `Destruct` (level test and
output) and, for FATAL, `FlushFatal` and `Abort`, so that other threads log in
between.  A roll that cannot open its file throws out of `~Logger()` and ends the
program. A thread formats the time once per second and keeps the text, with the zone
it was told in.  `shown` is a history variable: the seconds that the clock has shown
until `setTimeZone()`, which is called once.  A clock that is set back to one of
them lets a thread put the text of the old zone under the mark of the new one
(`logging.cc:107`); `TimeTextCurrent` says that no other second does.
`setTimeZone()` is called outside of log statements, as it assigns a shared pointer
that a statement reads; `setLogLevel()` is called at any time.

### Calendar, TimeZone, NumberFormat, LogStream

Pure functions.  Quotients are those of C++ (`Quotient` rounds towards zero).  A
zone is its tables; nothing in the repository reads zone files yet, so tables are
those that `addLocalTime()` and `addTransition()` build, given to the searches that
a loader would rely on.  Numbers beyond TLC's 32 bits are groups of three digits.
What `snprintf` does to a double is a correct rounding of the value it is given;
the conversion of the integer to a double (`AsDouble`) may round as IEEE 754 does.
`toFormattedString()` prints what `gmtime_r()` makes of its seconds.  That function is
external: `GmTime` has the rules of the Gregorian calendar and the count of seconds of
POSIX and uses none of the repository's conversions, so that it is a reference for
`breakTime()`.
A line is its parts and their sizes, with the two tests of room in the buffer.

## Runs

| Run | Shows |
|---|---|
| `ThreadPool_Nested.cfg` | 2 workers, 2 callers, 2 slots, 4 tasks that may call `run()`: types, bound, no lost wakeup, refinement of `TaskQueue`, `stop()` ends and frees all |
| `ThreadPool_Plain.cfg` | 2 workers, 2 callers, 1 slot, 3 tasks that do not call `run()` and are submitted again and again: accepted tasks begin, and a `run()` that never returns is overtaken for ever |
| `ThreadPool_NoThreads.cfg` | *violated*: with no threads a task begins after `stop()` |
| `PluginManage_Macro.cfg` | 5 libraries with the macro: refinement of `PluginRegistry`, compatibility, providers mapped |
| `PluginManage_Script.cfg` | a hand-written plug-in that nests, repeats, fails and throws: handles balanced, with those that are lost when `getId()` throws |
| `PluginManage_IsLoaded.cfg` | *violated*: `isLoaded()` after a load that failed |
| `AsyncLog_Backlog.cfg` | blocks of 4 bytes, lines of 1 to 4, backlog limit 2, a stop and a second start: assertions, order and completeness, lines reach the file, the first `start()` and every `stop()` return |
| `AsyncLog_Begins.cfg` | *violated*: after a restart the thread may begin when the log is not running |
| `Thread_Restarts.cfg` | a thread started up to three times, joined or not, destroyed at any point: `isRunning()`, `tid()`, lifetime of the object, causes of termination, calls return, refinement of `JoinableTask` |
| `Logger_File.cfg` | two threads, three statements, one file that rolls under a clock that jumps and is set back, with faults: names, rolling, flushing, times in the lines, FATAL |
| `MCBase_Algorithms.cfg` | dates, times, zones, numbers, integers and lines against reference definitions, or against their inverses |
| `MCBase_FiveCharacters.cfg` | *violated*: `formatSI()` prints six characters just below 99.95P |

**Bounds.**  In the pool two workers and two callers are the fewest for a wakeup to
be stolen and for a notification to go to one of several; a queue of two with two
workers asleep tells `notify_one` per task from one per non-empty queue; four tasks
fill the queue and both workers.  With nested calls and two slots the workers can
all block in `run()`.  In the stream of calls three tasks for one slot and two
callers keep a newcomer ready for every slot that is freed.  In the plug-in runs two
plug-ins share an identifier, `MaxDepth = 2` is the nesting at which an inner load
takes the outer one's request, and `CountModulus` is small so that the counter
wraps.  `Objects` bounds how many providers exist at once; a load begins only if
there is room. `MaxLeaks = 1` lets each library that throws lose one handle.  In the
log, lines of 1, 2, 3 and 4 bytes against a block of 4 share a block, fill it or
never fit, and with a limit of 2 blocks three full ones make a backlog; the limit 32
and the block size of 4 MiB enter the code only through these comparisons.  A thread
is started three times: once for each way in which the object can be found (new,
joined, not joined).  For the file the clock runs from 3 to 5 across a border
between periods at 4 and is set back once; the size 4 of a line exceeds
`RollSize = 3` alone and 1 does not; `CheckEveryN = 2` is the least at which lines go unchecked,
and every line is past `FlushInterval = 0` in the next second.  Three statements are
two lines and a FATAL one, or three lines that all miss the check.

The algorithms are given every day from 1900 to 2500, the years for which
`datetime.h` vouches.  Times of day are checked for 1902 to 2037, because TLC's
integers have 32 bits as `time_t` once had.  Instants are taken by quarters of an
hour for four hours around each transition of a zone of three offsets, of one that
ends in summer time, of a fixed zone and of UTC.  Numbers are tried one by one
around each border of each tier of `formatSI`, and of the first tiers and the border
to Gi of `formatIEC`, whose higher tiers are the same up to a power of two.  Lines are
3920 to 4064 bytes long, on both sides of the 4048 at which numbers no longer
fit, with parts that reach past the 4096 of the buffer.

Deadlock is not checked where a program may quietly end: a stopped pool (but for the
stream of calls), a stopped log, a thread that is gone, a program that has logged
all its lines, inputs that are exhausted.

**Fairness.**  Threads that can run do (the operating system), tasks return, the
timed wait of the log thread ends, and an owner who is inside `start()` or `stop()`
goes on.  Nobody is obliged to call anything and no spurious wakeup is assumed.
Fairness is that of single threads and not of the mutex: a freed slot goes to
whoever takes the mutex first, and the loop of `thread_pool.cc:60-62` keeps no order
among callers.  So a waiting `run()` may starve while others come and go, and "every
`run()` returns" is false under `StreamSpec`; `RunWaitsOnlyWhenOvertaken` says that
it waits for ever only if others are accepted for ever.  Neither does a start of the
log that finds its latch wrapped return: `StartsOnce` is about the first.  In
`Thread` a task that joins itself again and again is not kept from completing for
ever (strong fairness of `TaskCompletes`).  The plug-in specification, the file and
the logger need none.

**Disagreements with the documentation** found by the violated runs: `run()` after
`stop()` executes the task when the pool has no threads (`thread_pool.h:40`);
`isLoaded()` is true after a failed load (`manage.h:74`); a restarted log can throw
"log::Async is not running." and abort (`async.cc:38`); `formatSI()` can return six
characters (`log_util.h:79`).

Read in the code and not the matter of a run: `getLoadedPlugins()` (`manage.h:66`)
assigns to elements of a vector that was reserved and not resized
(`manage.cc:74`), so what it returns is empty.  `findLocalTime()` resolves a local
time that occurs twice at the first or the last transition of a table, or is
skipped at the first, in one way only, whatever `post_transition` says.  Two of these
places have a `FIXME` (before the first and after the last transition), the repetition
at the first has no comment.  `PostTransitionChooses` leaves out exactly the three.
`Library::load()` loses the handle of a library whose `getId()` throws
(`library.cc:88-90`).

## Proofs

`ThreadPool_proofs` holds for every number of workers, callers, tasks and slots,
from `PoolAssumption` alone (the callers are finitely many and not workers):

* `TypeInvariance`: `TypeOK`, inductive as it stands since it says which `pc`
  goes with which `arg` and `cur`.
* `NoLostWakeupInvariance`: inductive together with `TypeOK`.  Each step is an
  argument on cardinalities: a notification moves one thread into the woken set,
  a woken thread leaves it only by taking a task or because the queue is empty.
* `QueueBoundedInvariance`: from the guard under the mutex, whoever was woken.
* `PoolImplementsTaskQueue`, for at least one thread: needs the inductive
  invariant `PoolInv`, which adds to `TypeOK` that the workers' states fit the
  owner's (`OwnerOrder`) and that no task is in two places (`OneHolder`); without
  the latter the status of a task under the mapping would not change as the
  abstract step demands.

`AsyncLog_proofs` holds for all lines and sizes and every limit of at least 2:

* `AssertionsHold`: the inductive invariant `AsyncInv` says that the reserve block
  is gone only when a full block is queued, that both spares are there and empty
  before an exchange, and that afterwards the written blocks are as many as the
  missing spares.
* `TypeInvariance`: from `TypeOK` and `AsyncInv` together; that no block is filled to
  its last byte depends on `avail() > size` on both levels and on the reset of
  the spares.
* `WrittenInOrderInvariance`: the inductive invariant is `OrderInv` with `TypeOK` and
  `AsyncInv`.  `WrittenInOrder` equates the accepted lines that were kept with the
  file followed by what is on the way to it: the blocks being written, the full
  ones and the current one.  It needs that no line is logged twice or dropped
  without being logged (`LoggedOnce`: otherwise a drop would also take away a line
  of another block), that a thread holds no blocks when `start()` makes a new one
  (`EndedBeforeStart`), and of `AsyncInv` that blocks come back empty.  An exchange
  then only moves a border within one sequence, and a drop takes a part out of
  it.  The lemmas before it say how the lines of blocks (a concatenation) and the
  lines of a set (a selection) behave under `Append` and `\o`, for sequences of any
  length.

`Thread_proofs` holds for every `MaxStarts`:

* `TypeInvariance`, `TidKnownInvariance`, `NotRunningInvariance`,
  `BodyOutlivedInvariance`, `TerminationCauses`: from `ThreadInv`, which says what the
  place of the body means for the handle, the two shared fields, the latch and
  the count of completed tasks, for as long as the program goes on (`Alive`).
  None of the properties is inductive without it: that `isRunning()` is false only
  after the task depends on the latch, and that on where the body is.
* `ThreadImplementsJoinableTask`: under `ThreadInv` every step maps to one of the
  abstract steps or to a stutter.

`Logger_proofs`, with the lemmas of `LogFile_proofs`, holds for every set of threads,
every level, zone and size, all parameters of the file, and any clock; the
assumptions are `FileAssumption` and `LoggerAssumption`:

* `TypeInvariance`, `FilesDistinctInvariance`: file names are below the time of the
  last roll, which only grows, although the clock may not.
* `RolledBySizeInvariance`, `RolledByPeriodInvariance`, `FlushedInTimeInvariance`: the
  part `Prompt` of `FileInv` relates the counter `count_` to the lines since the last
  look at the clock; without it nothing bounds how many lines go unchecked.
* `TimeTextInvariance` and `FatalOnDiskInvariance`: `LoggerInv` follows the cache and
  the line of each thread, and the place of a FATAL line between its output and
  the end (a file that is closed has all of its lines on the disk).  A text in a cache
  that is not of the zone that is set was made before that was, in a second of `shown`.

`PluginManage_proofs` holds for every set of libraries, identifiers, types and
versions and any depth of nesting, from `PluginAssumption`:

* `HandlesBalancedInvariance`: `HandlesInv` is inductive with the types as long as
  handles range over the integers; each step is an argument on the cardinalities
  of who was loaded from a library and who waits in it; the handles that `LoadThrows`
  loses are a term of their own.  `TypeInvariance` follows,
  since cardinalities are not negative.
* `HostedCompatibleInvariance`: needs `OwnedInv`, that every provider, hosted or
  requested, is alone at its address; otherwise dropping one could take another.
* `ProvidersMappedInvariance`, under `AllMacro` (every plug-in uses the connector
  macro): `MacroInv` says that there is one load at a time, that its request and
  the entry without a library belong to the plug-in on the stack, and that each
  hosted provider is in the library of its entry.  Without `AllMacro` the formula is
  false: a plug-in that imports and then fails leaves a request whose library is
  closed, and a nested load can take the request of the outer one.
* `ManageImplementsRegistry`, under `AllMacro` and fewer identifiers than
  `plugin_cnt_` can count: `count` is the number of entries with a library, and a
  load is a stutter until it succeeds.

`MCBase_proofs` proves every property of `MCBase_Algorithms.cfg` without the bounds of
that run (`LastYear` does not enter, nor the fractions of an hour, nor `Stretch` but
for being a number, `StretchAssumption`):

* `DatesAgreeInvariance`: by induction over the years, as `Spec` walks them, from
  lemmas on the arithmetic of `GetJulianDayNumber` and `GetYearMonthDay`: their
  quotients count centuries, years and months that begin in March
  (`CenturyRange`, `YearRange`, `MonthRange`), and the table of month lengths agrees with
  `(153 * m + 2) / 5`.
* `BreakTimeInverts` and `FromUtcTimeInverts` for every instant from day 0 of the
  formula on (`HasDate`, March of 4801 B.C., before which the divisions of the code
  are not of natural numbers) and every date and time of day;
  `TimesOfDayAgreeInvariance` for those of the walk.
* `BreakTimeIsGmTime`: what `gmtime_r()` finds by looking for year and month
  (`GmYearIs`, `GmMonthIs`) is a date of the calendar whose day number is that of the
  instant, and `NumberInverts` gives it back.
* `LocalTimeInverts` and `LocalTimeChooses` for every zone: `IsZone` says that the
  table is made as `addLocalTime()` and `addTransition()` make it, in the order of its
  instants; `IsSpaced` that offsets differ by less than the transitions are apart, so
  that the local times in the table are in order too, as the binary search over
  them requires.  The argument divides time into the segments between transitions:
  a local time is shown by at most two segments, which follow one another, and
  the search finds the later one.  `LocalTimesInvertInvariance` and
  `PostTransitionChoosesInvariance` follow once `ZonesUsable` has computed that the
  zones of the run satisfy both.
* `FormatSIFits` and `FormatIECFits`, for every number below 2^53, and
  `FormatsFitInvariance`, for those of the walk: the unit is the first of which
  there are less than 999.5 (1023.5); as the number was not below that of the unit
  before, it is at least 0.9995 of the unit it gets (`UnitSIIs`, `UnitIECIs`), and
  each precision begins where the one before would round to a digit more.  Rounding
  to 53 bits does not occur there; above, `FiveCharactersSI` shows what goes wrong.
* `DigitsReadBack` for every integer, `IntegersReadBackInvariance` for those of the
  walk: by induction on the absolute value, which the loop of
  `convert()` makes smaller (`DivisionStep`: C++ division, remainders of either sign);
  the text without its last digit is that of the quotient (`Writes`).
* `LinesEndWell` for a body of any size, `LineEndsInvariance` for the walk.
  `InsertAll` is a fold; it is shown to go part by part (`InsertAllAppend`), and no
  part makes a line longer than its buffer or takes away what is there
  (`InsertFits`, `BodyKept`).  The parts before the body are so short that all of
  them fit, and one that does not fit at the end leaves less room than a number
  needs.

Induction over data is stated in `Induction_proofs` with the *set* of the numbers
(or sequences) that have a property, since the provers cannot instantiate a theorem
that takes the property as an operator; it rests on the least element of a set of
numbers (`WFMin`).  `RecursionExists` gives the function that a recursive definition
over `0 .. n` chooses, `IterationExists` the one over all of the numbers, from which
come those that recur on a smaller argument, as `Stored` does.

Only model-checked: all liveness (fairness is out of the prover's reach), and the four
runs that show a disagreement.  Every invariant of a passing run is a theorem.

## Plan

Done: the pool, the plug-ins, the asynchronous log, the thread, the log file and
the logger, time and formatting, each with its runs and proofs.  Left:

1. `LogFile` in place of the abstract file of `AsyncLog`, and the `Thread` of the log
   and of the pool in place of the single steps that make and join theirs.  So far
   the composition goes through `JoinableTask` and through the order of the lines.
2. A loader of zone files, when the repository gets one.

## Not modelled

`File::listFiles()` and the directory it reads; names and the global count of
threads; failures of memory, inside `Manage` and `Host` too, but for those that the
plug-ins meet (`LoadThrows`, `ImportThrows`); a failing `fflush()`; the wording of
lines and file names beyond what is said above; Windows branches; system
information, exceptions and stack traces (no state that other parts depend on);
building, tests and documentation. Tasks of the pool that throw end the program and
are left out; exceptions of a task in a `Thread`, and those that leave `~Logger()`,
are in.  `doc/overview.png` shows parts that are not in the code.
