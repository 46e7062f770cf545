------------------------------- MODULE Thread -------------------------------
(***************************************************************************)
(* The Thread of base/thread/thread.cc with the latch that start() waits   *)
(* for (base/util/count_down_latch.h).                                     *)
(*                                                                         *)
(* Two threads act: the owner of the object, who starts, joins and at last *)
(* destroys it, and the body, which runs ThreadData::run() in the thread   *)
(* that was started.  started_ and thread_id_ are shared without a lock;   *)
(* every access to them is a step of its own.  Only the owner calls the    *)
(* object's functions, besides the task, which may join itself.            *)
(***************************************************************************)
EXTENDS Naturals

CONSTANT MaxStarts   \* how many times the owner calls start()

ASSUME StartsAssumption == MaxStarts \in Nat

VARIABLES
  owner,      \* where the owner is
  body,       \* where ThreadData::run() of the last start() is
  started,    \* started_
  threadId,   \* thread_id_: 0, or the number of the start() that made the thread
  latch,      \* count_ of the CountDownLatch
  handle,     \* the std::thread: "none", "joinable" or "joined"
  starts,     \* history: calls of start()
  runs,       \* history: how many times the task was completed
  unjoined    \* history: start() found a std::thread that was not joined

history == <<starts, runs, unjoined>>
object == <<started, threadId, latch, handle>>
vars == <<owner, body, object, history>>

\* The program goes on: nobody called abort() or std::terminate().
Alive == owner # "fault"

TypeOK ==
  /\ owner \in {"idle", "spawn", "await", "asleep", "join", "destroy", "gone", "fault"}
  /\ body \in {"none", "begin", "identified", "task", "joins", "completed", "cleared", "leaving", "ended"}
  /\ started \in BOOLEAN /\ unjoined \in BOOLEAN
  /\ starts \in 0 .. MaxStarts /\ threadId \in 0 .. MaxStarts
  /\ latch \in {0, 1} /\ runs \in 0 .. MaxStarts
  /\ handle \in {"none", "joinable", "joined"}

Init ==
  /\ owner = "idle" /\ body = "none" /\ handle = "none"
  /\ started = FALSE /\ threadId = 0 /\ latch = 0
  /\ starts = 0 /\ runs = 0 /\ unjoined = FALSE

-----------------------------------------------------------------------------
(* The owner.                                                              *)

\* Defect: the latch of the last start() is used again.
Start_KeepsLatch ==
  /\ owner = "idle" /\ ~started /\ starts < MaxStarts
  /\ owner' = "spawn"
  /\ started' = TRUE
  /\ starts' = starts + 1
  /\ unjoined' = (handle = "joinable")
  /\ UNCHANGED <<body, threadId, latch, handle, runs>>

\* start() up to the new latch.  Not to be running is the caller's duty,
\* asserted in debug builds; not to be joined already is not asked for.
Start ==
  /\ owner = "idle" /\ ~started /\ starts < MaxStarts
  /\ owner' = "spawn"
  /\ started' = TRUE
  /\ latch' = 1
  /\ starts' = starts + 1
  /\ unjoined' = (handle = "joinable")
  /\ UNCHANGED <<body, threadId, handle, runs>>

\* new std::thread, and its assignment to thread_: if the last one was not
\* joined its destructor terminates the program.
Spawn ==
  /\ owner = "spawn"
  /\ body' = "begin"
  /\ handle' = "joinable"
  /\ owner' = IF handle = "joinable" THEN "fault" ELSE "await"
  /\ UNCHANGED <<started, threadId, latch, history>>

\* std::thread throws std::system_error: start() calls abort().
SpawnFails == owner = "spawn" /\ owner' = "fault" /\ UNCHANGED <<body, object, history>>

\* await(): the count is tested under the mutex, before and after each wait.
AwaitSleeps == owner = "await" /\ latch > 0 /\ owner' = "asleep" /\ UNCHANGED <<body, object, history>>

\* Defect: start() does not wait for the thread.
StartReturns_NoWait == owner = "await" /\ owner' = "idle" /\ UNCHANGED <<body, object, history>>

\* Defect: started_ is set at the end of start() (again).
StartReturns_SetsStarted ==
  /\ owner = "await" /\ latch = 0 /\ owner' = "idle"
  /\ started' = TRUE
  /\ UNCHANGED <<body, threadId, latch, handle, history>>

StartReturns == owner = "await" /\ latch = 0 /\ owner' = "idle" /\ UNCHANGED <<body, object, history>>

\* Defect: join() does not wait for a thread that has cleared started_.
Join_Polls ==
  /\ owner = "idle" /\ handle = "joinable"
  /\ IF started THEN owner' = "join" /\ UNCHANGED handle ELSE owner' = "idle" /\ handle' = "joined"
  /\ UNCHANGED <<body, started, threadId, latch, history>>

\* join() by the owner, whose own id is never thread_id_.  Without a joinable
\* std::thread it returns FALSE at once, which changes nothing.
Join ==
  /\ owner = "idle" /\ handle = "joinable"
  /\ owner' = "join"
  /\ UNCHANGED <<body, object, history>>

\* Defect: joining does not wait for the end of the thread.
Joined_NoWait ==
  /\ owner \in {"join", "destroy"}
  /\ owner' = IF owner = "join" THEN "idle" ELSE "gone"
  /\ handle' = "joined"
  /\ UNCHANGED <<body, started, threadId, latch, history>>

\* std::thread::join() returns, in join() or in ~Thread().
Joined ==
  /\ owner \in {"join", "destroy"} /\ body = "ended"
  /\ owner' = IF owner = "join" THEN "idle" ELSE "gone"
  /\ handle' = "joined"
  /\ UNCHANGED <<body, started, threadId, latch, history>>

\* Defect: ~Thread() leaves the std::thread to its destructor.
Destroy_NoJoin ==
  /\ owner = "idle"
  /\ owner' = IF handle = "joinable" THEN "fault" ELSE "gone"
  /\ UNCHANGED <<body, object, history>>

\* ~Thread(), up to the join.
Destroy ==
  /\ owner = "idle"
  /\ owner' = IF handle = "joinable" THEN "destroy" ELSE "gone"
  /\ UNCHANGED <<body, object, history>>

Owner == Start \/ Spawn \/ SpawnFails \/ AwaitSleeps \/ StartReturns \/ Join \/ Joined \/ Destroy

-----------------------------------------------------------------------------
(* The body.                                                               *)

\* thread_id_ is set before the count goes down.
Identify ==
  /\ Alive /\ body = "begin"
  /\ body' = "identified"
  /\ threadId' = starts
  /\ UNCHANGED <<owner, started, latch, handle, history>>

\* Defect: countDown() does not notify.
CountDown_Silent ==
  /\ Alive /\ body = "identified"
  /\ body' = "task"
  /\ latch' = latch - 1
  /\ UNCHANGED <<owner, started, threadId, handle, history>>

\* countDown(); the task begins.
CountDown ==
  /\ Alive /\ body = "identified"
  /\ body' = "task"
  /\ latch' = latch - 1
  /\ owner' = IF owner = "asleep" /\ latch = 1 THEN "await" ELSE owner
  /\ UNCHANGED <<started, threadId, handle, history>>

\* The task calls join() on its own thread ...
TaskJoins == Alive /\ body = "task" /\ body' = "joins" /\ UNCHANGED <<owner, object, history>>

\* ... which returns FALSE, as thread_id_ is the caller's id.
TaskJoinReturns ==
  /\ Alive /\ body = "joins" /\ threadId = starts
  /\ body' = "task"
  /\ UNCHANGED <<owner, object, history>>

TaskCompletes ==
  /\ Alive /\ body = "task"
  /\ body' = "completed" /\ runs' = runs + 1
  /\ UNCHANGED <<owner, object, starts, unjoined>>

\* An exception leaves the task: the handlers of run() end the program.
TaskThrows ==
  /\ Alive /\ body = "task"
  /\ owner' = "fault"
  /\ UNCHANGED <<body, object, history>>

ClearId ==
  /\ Alive /\ body = "completed"
  /\ body' = "cleared" /\ threadId' = 0
  /\ UNCHANGED <<owner, started, latch, handle, history>>

ClearStarted ==
  /\ Alive /\ body = "cleared"
  /\ body' = "leaving" /\ started' = FALSE
  /\ UNCHANGED <<owner, threadId, latch, handle, history>>

\* The thread ends.
End == Alive /\ body = "leaving" /\ body' = "ended" /\ UNCHANGED <<owner, object, history>>

Body ==
  \/ Identify \/ CountDown \/ TaskJoins \/ TaskJoinReturns \/ TaskCompletes \/ TaskThrows
  \/ ClearId \/ ClearStarted \/ End

Next == Owner \/ Body

\* Threads that can run do, an owner inside a call goes on with it, and tasks
\* return.
Fairness ==
  /\ WF_vars(Spawn) /\ WF_vars(AwaitSleeps \/ StartReturns) /\ WF_vars(Joined)
  /\ WF_vars(Identify \/ CountDown \/ TaskJoinReturns \/ ClearId \/ ClearStarted \/ End)
  /\ SF_vars(TaskCompletes)

Spec == Init /\ [][Next]_vars /\ Fairness

-----------------------------------------------------------------------------
(* Properties.                                                             *)

\* Once start() has returned, tid() is the thread's id until the task is over.
TidKnown == owner = "idle" /\ started => threadId = starts \/ body = "cleared"

\* isRunning() FALSE, and join() or ~Thread() done, mean that the task of every
\* start() was completed; once joined isRunning() stays FALSE and tid() 0.
NotRunningMeansRan ==
  /\ Alive /\ ~started => runs = starts
  /\ handle = "joined" /\ owner \in {"idle", "gone"} => ~started /\ threadId = 0

\* The object and its ThreadData are there as long as the body uses them.
BodyOutlived == owner = "gone" => body \in {"none", "ended"}

\* The std::thread inside is never destroyed while joinable, unless start()
\* was called again without a join() (nothing in the code forbids that).
TerminatesOnlyUnjoined ==
  [][owner' = "fault" /\ owner # "fault" => unjoined \/ SpawnFails \/ TaskThrows]_vars

\* start(), join(), ~Thread() and the join() of the task itself return.
CallsReturn ==
  /\ owner \in {"spawn", "await", "asleep", "join", "destroy"}
       ~> owner \in {"idle", "gone", "fault"}
  /\ body = "joins" ~> (body = "task" \/ owner = "fault")

-----------------------------------------------------------------------------
(* Refinement of JoinableTask.  An owner who restarts without joining has   *)
(* seen isRunning() be FALSE, so the task is over then as well.             *)

Phase ==
  CASE owner = "fault" -> "fault"
    [] owner # "fault" /\ body \in {"begin", "identified", "task", "joins"} -> "running"
    [] owner # "fault" /\ handle = "joinable" /\ body \in {"completed", "cleared", "leaving", "ended"} -> "over"
    [] OTHER -> "ready"

Abstract == INSTANCE JoinableTask WITH phase <- Phase

\* A Thread does what its users expect of it.
ImplementsJoinableTask == Abstract!Spec
=============================================================================
