----------------------------- MODULE ThreadPool -----------------------------
(***************************************************************************)
(* pginf::ThreadPool (base/thread_pool.h, base/thread/thread_pool.cc): a   *)
(* fixed set of worker threads, a deque of tasks, one recursive mutex and  *)
(* two condition variables.                                                *)
(*                                                                         *)
(* A section of code that holds mutex_ is one action; waiting on a         *)
(* condition variable releases the mutex, so it ends the action.  The read *)
(* of running_ in loop() is outside the mutex and is an action of its own. *)
(* A notified thread is only moved out of the wait set: it must take the   *)
(* mutex again, and evaluate its while condition again, in a later step.   *)
(***************************************************************************)
EXTENDS Naturals, Sequences, FiniteSets

CONSTANTS
  NumThreads,     \* the argument of start()
  MaxQueueSize,   \* max_queue_size_, 0 for an unbounded queue
  Callers,        \* the threads outside of the pool that call run()
  Tasks,          \* the tasks they submit, each one once (but see Again)
  Nested,         \* TRUE when tasks may themselves call run()
  None            \* the empty std::function

Workers == 1 .. NumThreads
Threads == Workers \cup Callers

ASSUME PoolAssumption ==
  /\ NumThreads \in Nat
  /\ MaxQueueSize \in Nat
  /\ IsFiniteSet(Callers)
  /\ Callers \cap Workers = {}
  /\ Nested \in BOOLEAN
  /\ None \notin Tasks

VARIABLES
  running,    \* running_
  owner,      \* how far the owner of the pool is in start() and stop()
  queue,      \* queue_
  pc,         \* where each thread is
  arg,        \* the task a thread is passing to run(), or None
  cur,        \* the task a thread executes, or None
  executed,   \* history: tasks that have returned
  refused     \* history: tasks that run() dropped

vars == <<running, owner, queue, pc, arg, cur, executed, refused>>

OwnerStates == {"new", "starting", "started", "stopping", "stopped"}
WorkerOnly  == {"unstarted", "loop", "take", "waitNotEmpty", "wokenNotEmpty",
                "task", "finished"}
CallerOnly  == {"idle", "inline"}
InRun       == {"run", "waitNotFull", "wokenNotFull"}

(* The wait sets of the two condition variables, and the threads that were *)
(* taken out of them and have not yet got the mutex back.                  *)
At(where)        == {t \in Threads : pc[t] = where}
NotEmptyWaiters  == At("waitNotEmpty")
NotFullWaiters   == At("waitNotFull")

(* The pcs after a notify_one on a wait set: any one waiter wakes. *)
NotifyOne(waiters, woken, p) ==
  IF waiters = {} THEN {p} ELSE {[p EXCEPT ![t] = woken] : t \in waiters}

NoThreads == NumThreads = 0 \/ owner = "new"           \* threads_.empty()
IsFull    == MaxQueueSize > 0 /\ Len(queue) >= MaxQueueSize
Submitted == executed \cup refused \cup {queue[i] : i \in 1 .. Len(queue)}
               \cup {arg[t] : t \in Threads} \cup {cur[t] : t \in Threads}

Init ==
  /\ running = FALSE
  /\ owner = "new"
  /\ queue = <<>>
  /\ pc = [t \in Threads |-> IF t \in Workers THEN "unstarted" ELSE "idle"]
  /\ arg = [t \in Threads |-> None]
  /\ cur = [t \in Threads |-> None]
  /\ executed = {}
  /\ refused = {}
-----------------------------------------------------------------------------
(* The owner: start() creates the threads one after the other (each         *)
(* Thread::start waits until its thread runs), stop() wakes and joins them. *)

Start ==
  /\ owner = "new"
  /\ owner' = "starting"
  /\ running' = TRUE
  /\ UNCHANGED <<queue, pc, arg, cur, executed, refused>>

StartWorker(w) ==
  /\ owner = "starting"
  /\ pc[w] = "unstarted"
  /\ \A v \in Workers : v < w => pc[v] # "unstarted"
  /\ pc' = [pc EXCEPT ![w] = "loop"]
  /\ UNCHANGED <<running, owner, queue, arg, cur, executed, refused>>

StartReturns ==
  /\ owner = "starting"
  /\ \A w \in Workers : pc[w] # "unstarted"
  /\ owner' = "started"
  /\ UNCHANGED <<running, queue, pc, arg, cur, executed, refused>>

(* Defect: stop() notifies the workers and forgets the blocked callers. *)
Stop_WorkersOnly ==
  /\ owner = "started"
  /\ owner' = "stopping"
  /\ running' = FALSE
  /\ pc' = [t \in Threads |-> IF pc[t] = "waitNotEmpty" THEN "wokenNotEmpty"
                                                        ELSE pc[t]]
  /\ UNCHANGED <<queue, arg, cur, executed, refused>>

(* Defect: stop() notifies the blocked callers and forgets the workers. *)
Stop_CallersOnly ==
  /\ owner = "started"
  /\ owner' = "stopping"
  /\ running' = FALSE
  /\ pc' = [t \in Threads |-> IF pc[t] = "waitNotFull" THEN "wokenNotFull"
                                                       ELSE pc[t]]
  /\ UNCHANGED <<queue, arg, cur, executed, refused>>

(* stop(), or the destructor of a running pool: notify_all on both. *)
Stop ==
  /\ owner = "started"
  /\ owner' = "stopping"
  /\ running' = FALSE
  /\ pc' = [t \in Threads |-> IF pc[t] = "waitNotEmpty" THEN "wokenNotEmpty"
                              ELSE IF pc[t] = "waitNotFull" THEN "wokenNotFull"
                              ELSE pc[t]]
  /\ UNCHANGED <<queue, arg, cur, executed, refused>>

(* The joins: stop() returns when every worker has left loop(). *)
StopReturns ==
  /\ owner = "stopping"
  /\ \A w \in Workers : pc[w] = "finished"
  /\ owner' = "stopped"
  /\ UNCHANGED <<running, queue, pc, arg, cur, executed, refused>>
-----------------------------------------------------------------------------
(* A worker in loop(). *)

CheckRunning(w) ==
  /\ pc[w] = "loop"
  /\ pc' = [pc EXCEPT ![w] = IF running THEN "take" ELSE "finished"]
  /\ UNCHANGED <<running, owner, queue, arg, cur, executed, refused>>

AtTake(w) == pc[w] \in {"take", "wokenNotEmpty"}

TakeWaits(w) ==
  /\ AtTake(w)
  /\ queue = <<>> /\ running
  /\ pc' = [pc EXCEPT ![w] = "waitNotEmpty"]
  /\ UNCHANGED <<running, owner, queue, arg, cur, executed, refused>>

TakeNothing(w) ==
  /\ AtTake(w)
  /\ queue = <<>> /\ ~running
  /\ pc' = [pc EXCEPT ![w] = "loop"]
  /\ UNCHANGED <<running, owner, queue, arg, cur, executed, refused>>

(* Defect: a taken task frees a slot of the queue and tells nobody. *)
TakeTask_Silent(w) ==
  /\ AtTake(w)
  /\ queue # <<>>
  /\ cur' = [cur EXCEPT ![w] = Head(queue)]
  /\ queue' = Tail(queue)
  /\ pc' = [pc EXCEPT ![w] = "task"]
  /\ UNCHANGED <<running, owner, arg, executed, refused>>

TakeTask(w) ==
  /\ AtTake(w)
  /\ queue # <<>>
  /\ cur' = [cur EXCEPT ![w] = Head(queue)]
  /\ queue' = Tail(queue)
  /\ LET p == [pc EXCEPT ![w] = "task"]
     IN  IF MaxQueueSize > 0
         THEN pc' \in NotifyOne(NotFullWaiters, "wokenNotFull", p)
         ELSE pc' = p
  /\ UNCHANGED <<running, owner, arg, executed, refused>>

(* Defect: the std::function of the previous iteration is kept. *)
FinishTask_Kept(w) ==
  /\ pc[w] = "task"
  /\ pc' = [pc EXCEPT ![w] = "loop"]
  /\ executed' = executed \cup {cur[w]}
  /\ UNCHANGED <<running, owner, queue, arg, cur, refused>>

FinishTask(w) ==
  /\ pc[w] = "task"
  /\ pc' = [pc EXCEPT ![w] = "loop"]
  /\ executed' = executed \cup {cur[w]}
  /\ cur' = [cur EXCEPT ![w] = None]
  /\ UNCHANGED <<running, owner, queue, arg, refused>>
-----------------------------------------------------------------------------
(* run(), called by a thread outside of the pool or by an executing task.   *)
(* A call concurrent with start() is excluded: it would race on threads_.   *)

MayCall(t) == \/ t \in Callers /\ pc[t] = "idle"
              \/ t \in Workers /\ pc[t] = "task" /\ Nested

CallRun(t, x) ==
  /\ MayCall(t)
  /\ x \notin Submitted
  /\ ~NoThreads
  /\ owner # "starting"
  /\ arg' = [arg EXCEPT ![t] = x]
  /\ pc' = [pc EXCEPT ![t] = "run"]
  /\ UNCHANGED <<running, owner, queue, cur, executed, refused>>

RunInline(t, x) ==
  /\ t \in Callers /\ pc[t] = "idle"
  /\ x \notin Submitted
  /\ NoThreads
  /\ owner # "starting"
  /\ cur' = [cur EXCEPT ![t] = x]
  /\ pc' = [pc EXCEPT ![t] = "inline"]
  /\ UNCHANGED <<running, owner, queue, arg, executed, refused>>

FinishInline(t) ==
  /\ pc[t] = "inline"
  /\ pc' = [pc EXCEPT ![t] = "idle"]
  /\ executed' = executed \cup {cur[t]}
  /\ cur' = [cur EXCEPT ![t] = None]
  /\ UNCHANGED <<running, owner, queue, arg, refused>>

AtEnqueue(t) == pc[t] \in {"run", "wokenNotFull"}
BackFrom(t)  == IF t \in Workers THEN "task" ELSE "idle"

EnqueueWaits(t) ==
  /\ AtEnqueue(t)
  /\ IsFull /\ running
  /\ pc' = [pc EXCEPT ![t] = "waitNotFull"]
  /\ UNCHANGED <<running, owner, queue, arg, cur, executed, refused>>

EnqueueRefused(t) ==
  /\ AtEnqueue(t)
  /\ ~running
  /\ pc' = [pc EXCEPT ![t] = BackFrom(t)]
  /\ refused' = refused \cup {arg[t]}
  /\ arg' = [arg EXCEPT ![t] = None]
  /\ UNCHANGED <<running, owner, queue, cur, executed>>

(* Defect: the full queue is tested with an if before the wait. *)
Enqueue_If(t) ==
  /\ AtEnqueue(t)
  /\ (pc[t] = "run" => ~IsFull) /\ running
  /\ queue' = Append(queue, arg[t])
  /\ arg' = [arg EXCEPT ![t] = None]
  /\ pc' \in NotifyOne(NotEmptyWaiters, "wokenNotEmpty",
                       [pc EXCEPT ![t] = BackFrom(t)])
  /\ UNCHANGED <<running, owner, cur, executed, refused>>

(* Defect: running_ is not tested again after the wait. *)
Enqueue_Late(t) ==
  /\ AtEnqueue(t)
  /\ ~IsFull
  /\ queue' = Append(queue, arg[t])
  /\ arg' = [arg EXCEPT ![t] = None]
  /\ pc' \in NotifyOne(NotEmptyWaiters, "wokenNotEmpty",
                       [pc EXCEPT ![t] = BackFrom(t)])
  /\ UNCHANGED <<running, owner, cur, executed, refused>>

(* Defect: a worker is notified only when the queue was empty. *)
Enqueue_FirstOnly(t) ==
  /\ AtEnqueue(t)
  /\ ~IsFull /\ running
  /\ queue' = Append(queue, arg[t])
  /\ arg' = [arg EXCEPT ![t] = None]
  /\ pc' \in NotifyOne(IF queue = <<>> THEN NotEmptyWaiters ELSE {},
                       "wokenNotEmpty", [pc EXCEPT ![t] = BackFrom(t)])
  /\ UNCHANGED <<running, owner, cur, executed, refused>>

(* Defect: the notification goes to the other condition variable. *)
Enqueue_WrongCondition(t) ==
  /\ AtEnqueue(t)
  /\ ~IsFull /\ running
  /\ queue' = Append(queue, arg[t])
  /\ arg' = [arg EXCEPT ![t] = None]
  /\ pc' \in NotifyOne(NotFullWaiters, "wokenNotFull",
                       [pc EXCEPT ![t] = BackFrom(t)])
  /\ UNCHANGED <<running, owner, cur, executed, refused>>

Enqueue(t) ==
  /\ AtEnqueue(t)
  /\ ~IsFull /\ running
  /\ queue' = Append(queue, arg[t])
  /\ arg' = [arg EXCEPT ![t] = None]
  /\ pc' \in NotifyOne(NotEmptyWaiters, "wokenNotEmpty",
                       [pc EXCEPT ![t] = BackFrom(t)])
  /\ UNCHANGED <<running, owner, cur, executed, refused>>

(* std::condition_variable_any may return from wait() without a notify. *)
SpuriousWakeup(t) ==
  /\ \/ pc[t] = "waitNotEmpty" /\ pc' = [pc EXCEPT ![t] = "wokenNotEmpty"]
     \/ pc[t] = "waitNotFull"  /\ pc' = [pc EXCEPT ![t] = "wokenNotFull"]
  /\ UNCHANGED <<running, owner, queue, arg, cur, executed, refused>>
-----------------------------------------------------------------------------
OwnerStep == Start \/ StartReturns \/ Stop \/ StopReturns

WorkerStep(w) == \/ StartWorker(w) \/ CheckRunning(w) \/ TakeWaits(w)
                 \/ TakeNothing(w) \/ TakeTask(w) \/ FinishTask(w)

RunStep(t) == \/ EnqueueWaits(t) \/ EnqueueRefused(t) \/ Enqueue(t)
              \/ FinishInline(t)

Next == \/ OwnerStep
        \/ \E w \in Workers : WorkerStep(w)
        \/ \E t \in Threads : \/ RunStep(t)
                              \/ SpuriousWakeup(t)
                              \/ \E x \in Tasks : CallRun(t, x) \/ RunInline(t, x)

Spec == Init /\ [][Next]_vars

(* The operating system runs every thread that can run, a task returns, and *)
(* an owner inside start() or stop() goes on.  Nobody has to call anything, *)
(* no wakeup is spurious on demand.                                         *)
Fairness == /\ WF_vars(StartReturns)
            /\ WF_vars(StopReturns)
            /\ \A w \in Workers : WF_vars(WorkerStep(w))
            /\ \A t \in Threads : WF_vars(RunStep(t))

FairSpec == Spec /\ Fairness

(* Calls of run() that never end: a task that is over, executed or refused, *)
(* is forgotten and may be submitted again, as if it were another one.      *)
Again(x) ==
  /\ x \in executed \cup refused
  /\ executed' = executed \ {x}
  /\ refused' = refused \ {x}
  /\ UNCHANGED <<running, owner, queue, pc, arg, cur>>

StreamNext == Next \/ \E x \in Tasks : Again(x)
StreamSpec == Init /\ [][StreamNext]_vars /\ Fairness
-----------------------------------------------------------------------------
(* Types, and which thread holds a task at which place. *)
TypeOK ==
  /\ running \in BOOLEAN
  /\ owner \in OwnerStates
  /\ queue \in Seq(Tasks)
  /\ pc \in [Threads -> WorkerOnly \cup CallerOnly \cup InRun]
  /\ \A w \in Workers : pc[w] \notin CallerOnly
  /\ \A c \in Callers : pc[c] \notin WorkerOnly
  /\ arg \in [Threads -> Tasks \cup {None}]
  /\ \A t \in Threads : (arg[t] # None) <=> (pc[t] \in InRun)
  /\ cur \in [Threads -> Tasks \cup {None}]
  /\ \A w \in Workers : (cur[w] # None) <=> (pc[w] \in InRun \cup {"task"})
  /\ \A c \in Callers : (cur[c] # None) <=> (pc[c] = "inline")
  /\ executed \subseteq Tasks
  /\ refused \subseteq Tasks

(* setMaxQueueSize() bounds the queue at all times, however many callers    *)
(* were woken for the same free slot: the assertion of thread_pool.cc:65,   *)
(* seen from outside.                                                       *)
QueueBounded == MaxQueueSize > 0 => Len(queue) <= MaxQueueSize

(* No wakeup is lost.  While a worker sleeps, every queued task has a       *)
(* worker that was woken for it and is on its way; while a run() sleeps,    *)
(* every free slot has a run() that was woken for it; and nobody sleeps     *)
(* once running_ is false, so that stop() can join.                         *)
WorkersAwake ==
  NotEmptyWaiters # {} => Len(queue) <= Cardinality(At("wokenNotEmpty"))

CallersAwake ==
  NotFullWaiters # {} =>
    MaxQueueSize <= Len(queue) + Cardinality(At("wokenNotFull"))

StoppedAwake == ~running => NotEmptyWaiters = {} /\ NotFullWaiters = {}

NoLostWakeup == WorkersAwake /\ CallersAwake /\ StoppedAwake

(* The pool keeps the promise of TaskQueue: FIFO, at most once, refusal     *)
(* only after stop(), silence when stop() has returned.  Where a task is,   *)
(* abstractly, follows from which queue, argument or thread holds it.       *)
Phase == IF owner = "new" THEN "unopened"
         ELSE IF owner \in {"starting", "started"} THEN "open"
         ELSE IF owner = "stopping" THEN "closing" ELSE "closed"

Queued(x)  == \E i \in 1 .. Len(queue) : queue[i] = x
Running(x) == \E w \in Workers : cur[w] = x
Inline(x)  == \E c \in Callers : cur[c] = x
Offered(x) == \E t \in Threads : arg[t] = x

StatusOf(x) == IF x \in executed THEN "done"
               ELSE IF x \in refused THEN "refused"
               ELSE IF Queued(x) THEN "queued"
               ELSE IF Running(x) THEN "running"
               ELSE IF Inline(x) THEN "inline"
               ELSE IF Offered(x) THEN "offered"
               ELSE "new"

Status == [x \in Tasks |-> StatusOf(x)]

Promise == INSTANCE TaskQueue WITH Capacity <- MaxQueueSize, phase <- Phase,
                                   backlog <- queue, status <- Status
ImplementsTaskQueue == Promise!Spec

(* thread_pool.h:40, "Call after stop() will return immediately": a call    *)
(* made after stop() returned begins no task.                               *)
NoTaskBegunAfterStop ==
  [][owner = "stopped" => \A t \in Threads : cur'[t] \in {cur[t], None}]_vars

(* A task that run() accepted is begun, unless the pool is stopped first    *)
(* (stop() discards what is still queued).                                  *)
AcceptedTaskIsBegun ==
  \A x \in Tasks : Queued(x) ~> (~running \/ ~Queued(x))

(* A call of run() that never returns is overtaken for ever: the pool goes  *)
(* on accepting other calls.  More is not promised: a freed slot goes to    *)
(* whoever takes the mutex first, the loop of thread_pool.cc:60-62 keeps no *)
(* order among the callers, so a stream of other calls may starve a waiter. *)
(* But no call is forgotten: once the others are quiet, it returns.         *)
Accepted(u) == running /\ pc[u] \in InRun /\ pc'[u] \notin InRun

RunWaitsOnlyWhenOvertaken ==
  \A t \in Threads :
    \/ []<>(pc[t] \notin InRun)
    \/ []<><<\E u \in Threads \ {t} : Accepted(u)>>_vars

(* stop() returns, also when workers and callers are blocked in run(), on a *)
(* full queue or on an empty one.                                           *)
StopTerminates == owner = "stopping" ~> owner = "stopped"

(* stop() releases every blocked run(), so that the callers can be joined   *)
(* before the pool is destroyed.                                            *)
StopReleasesRun ==
  \A t \in Threads : (~running /\ pc[t] \in InRun) ~> pc[t] \notin InRun
=============================================================================
