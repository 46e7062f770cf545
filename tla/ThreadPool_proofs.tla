-------------------------- MODULE ThreadPool_proofs --------------------------
(***************************************************************************)
(* Proofs about ThreadPool, for every number of threads, every bound of    *)
(* the queue, every set of callers and every set of tasks.                 *)
(***************************************************************************)
EXTENDS ThreadPool, FiniteSetTheorems, TLAPS

LEMMA ThreadsFinite == IsFiniteSet(Threads)
<1>1. IsFiniteSet(Workers)
  BY FS_Interval, PoolAssumption DEF Workers
<1>2. QED
  BY <1>1, FS_Union, PoolAssumption DEF Threads

(***************************************************************************)
(* Types.                                                                  *)
(***************************************************************************)
LEMMA InitType == Init => TypeOK
<1> SUFFICES ASSUME Init PROVE TypeOK
  OBVIOUS
<1> USE PoolAssumption DEF Init, WorkerOnly, CallerOnly, InRun, Threads
<1>1. queue \in Seq(Tasks)
  OBVIOUS
<1>2. /\ pc \in [Threads -> WorkerOnly \cup CallerOnly \cup InRun]
      /\ \A w \in Workers : pc[w] \notin CallerOnly
      /\ \A c \in Callers : pc[c] \notin WorkerOnly
  OBVIOUS
<1>3. /\ arg \in [Threads -> Tasks \cup {None}]
      /\ \A t \in Threads : (arg[t] # None) <=> (pc[t] \in InRun)
  OBVIOUS
<1>4. /\ cur \in [Threads -> Tasks \cup {None}]
      /\ \A w \in Workers : (cur[w] # None) <=> (pc[w] \in InRun \cup {"task"})
      /\ \A c \in Callers : (cur[c] # None) <=> (pc[c] = "inline")
  OBVIOUS
<1>5. QED
  BY <1>1, <1>2, <1>3, <1>4 DEF TypeOK, OwnerStates

LEMMA StepType == TypeOK /\ [Next]_vars => TypeOK'
<1> SUFFICES ASSUME TypeOK, [Next]_vars PROVE TypeOK'
  OBVIOUS
<1> USE PoolAssumption DEF TypeOK, OwnerStates, WorkerOnly, CallerOnly, InRun, Threads
<1>1. CASE OwnerStep
  <2>1. CASE Start BY <2>1 DEF Start
  <2>2. CASE StartReturns BY <2>2 DEF StartReturns
  <2>3. CASE Stop BY <2>3 DEF Stop
  <2>4. CASE StopReturns BY <2>4 DEF StopReturns
  <2>5. QED BY <1>1, <2>1, <2>2, <2>3, <2>4 DEF OwnerStep
<1>2. ASSUME NEW w \in Workers, WorkerStep(w) PROVE TypeOK'
  <2>1. CASE StartWorker(w) BY <2>1 DEF StartWorker
  <2>2. CASE CheckRunning(w) BY <2>2 DEF CheckRunning
  <2>3. CASE TakeWaits(w) BY <2>3 DEF TakeWaits, AtTake
  <2>4. CASE TakeNothing(w) BY <2>4 DEF TakeNothing, AtTake
  <2>5. CASE TakeTask(w)
    <3> DEFINE p == [pc EXCEPT ![w] = "task"]
    <3>1. pc' = p \/ \E t \in NotFullWaiters : pc' = [p EXCEPT ![t] = "wokenNotFull"]
      BY <2>5 DEF TakeTask, NotifyOne
    <3>2. Head(queue) \in Tasks /\ Tail(queue) \in Seq(Tasks)
      BY <2>5 DEF TakeTask
    <3>3. CASE pc' = p BY <2>5, <3>2, <3>3 DEF TakeTask, AtTake
    <3>4. ASSUME NEW t \in NotFullWaiters, pc' = [p EXCEPT ![t] = "wokenNotFull"]
          PROVE TypeOK'
      BY <2>5, <3>2, <3>4 DEF TakeTask, AtTake, NotFullWaiters, At
    <3>5. QED BY <3>1, <3>3, <3>4
  <2>6. CASE FinishTask(w) BY <2>6 DEF FinishTask
  <2>7. QED BY <1>2, <2>1, <2>2, <2>3, <2>4, <2>5, <2>6 DEF WorkerStep
<1>3. ASSUME NEW t \in Threads, RunStep(t) PROVE TypeOK'
  <2>1. CASE EnqueueWaits(t) BY <2>1 DEF EnqueueWaits, AtEnqueue
  <2>2. CASE EnqueueRefused(t) BY <2>2 DEF EnqueueRefused, AtEnqueue, BackFrom
  <2>3. CASE Enqueue(t)
    <3> DEFINE p == [pc EXCEPT ![t] = BackFrom(t)]
    <3>1. pc' = p \/ \E u \in NotEmptyWaiters : pc' = [p EXCEPT ![u] = "wokenNotEmpty"]
      BY <2>3 DEF Enqueue, NotifyOne
    <3>2. arg[t] \in Tasks
      BY <2>3 DEF Enqueue, AtEnqueue
    <3>3. CASE pc' = p BY <2>3, <3>2, <3>3 DEF Enqueue, AtEnqueue, BackFrom
    <3>4. ASSUME NEW u \in NotEmptyWaiters, pc' = [p EXCEPT ![u] = "wokenNotEmpty"]
          PROVE TypeOK'
      <4>1. pc[u] = "waitNotEmpty" /\ u \in Workers /\ u # t
        BY <2>3, <3>4 DEF Enqueue, AtEnqueue, NotEmptyWaiters, At
      <4>2. CASE t \in Workers
        BY <2>3, <3>2, <3>4, <4>1, <4>2 DEF Enqueue, AtEnqueue, BackFrom
      <4>3. CASE t \in Callers
        BY <2>3, <3>2, <3>4, <4>1, <4>3 DEF Enqueue, AtEnqueue, BackFrom
      <4>4. QED BY <4>2, <4>3
    <3>5. QED BY <3>1, <3>3, <3>4
  <2>4. CASE FinishInline(t) BY <2>4 DEF FinishInline
  <2>5. QED BY <1>3, <2>1, <2>2, <2>3, <2>4 DEF RunStep
<1>4. ASSUME NEW t \in Threads, SpuriousWakeup(t) PROVE TypeOK'
  BY <1>4 DEF SpuriousWakeup
<1>5. ASSUME NEW t \in Threads, NEW x \in Tasks, CallRun(t, x) PROVE TypeOK'
  BY <1>5 DEF CallRun, MayCall
<1>6. ASSUME NEW t \in Threads, NEW x \in Tasks, RunInline(t, x) PROVE TypeOK'
  BY <1>6 DEF RunInline
<1>7. CASE UNCHANGED vars BY <1>7 DEF vars
<1>8. QED BY <1>1, <1>2, <1>3, <1>4, <1>5, <1>6, <1>7 DEF Next

(* Every reachable state is well typed, and a thread holds a task exactly   *)
(* where loop() and run() hold one.                                         *)
THEOREM TypeInvariance == Spec => []TypeOK
  BY InitType, StepType, PTL DEF Spec

(***************************************************************************)
(* No wakeup is lost.                                                      *)
(***************************************************************************)
PcStates == WorkerOnly \cup CallerOnly \cup InRun
ThreadsAt(p, where) == {t \in Threads : p[t] = where}

Moved(p, t, b) == [p EXCEPT ![t] = b]
Count(p, where) == Cardinality(ThreadsAt(p, where))

(* NoLostWakeup, of any pcs p, any length n of the queue and any running_. *)
Awake(p, n, r) ==
  /\ ThreadsAt(p, "waitNotEmpty") # {} => n <= Count(p, "wokenNotEmpty")
  /\ ThreadsAt(p, "waitNotFull") # {} => MaxQueueSize <= n + Count(p, "wokenNotFull")
  /\ ~r => ThreadsAt(p, "waitNotEmpty") = {} /\ ThreadsAt(p, "waitNotFull") = {}

LEMMA AwakeIsNoLostWakeup ==
  /\ NoLostWakeup <=> Awake(pc, Len(queue), running)
  /\ NoLostWakeup' <=> Awake(pc', Len(queue'), running')
  BY DEF NoLostWakeup, WorkersAwake, CallersAwake, StoppedAwake, Awake, Count,
         NotEmptyWaiters, NotFullWaiters, At, ThreadsAt

LEMMA CountType ==
  ASSUME NEW p, NEW c
  PROVE  /\ Count(p, c) \in Nat
         /\ IsFiniteSet(ThreadsAt(p, c))
  BY ThreadsFinite, FS_Subset, FS_CardinalityType DEF Count, ThreadsAt

(* The step of one thread t to the place b: who is at a place c, and how    *)
(* many.                                                                    *)
LEMMA MoveEffect ==
  ASSUME NEW p \in [Threads -> PcStates], NEW t \in Threads, NEW b \in PcStates,
         p[t] # b, NEW c
  PROVE  /\ ThreadsAt(Moved(p, t, b), c) = IF c = b THEN ThreadsAt(p, c) \cup {t}
                                           ELSE ThreadsAt(p, c) \ {t}
         /\ Count(Moved(p, t, b), c) = IF c = b THEN Count(p, c) + 1
                                       ELSE IF c = p[t] THEN Count(p, c) - 1
                                       ELSE Count(p, c)
<1> DEFINE q == Moved(p, t, b)
<1>1. ThreadsAt(q, c) = IF c = b THEN ThreadsAt(p, c) \cup {t}
                        ELSE ThreadsAt(p, c) \ {t}
  BY DEF ThreadsAt, Moved
<1> HIDE DEF q
<1>2. CASE c = b
  <2>1. t \notin ThreadsAt(p, c) BY <1>2 DEF ThreadsAt
  <2>2. QED BY <1>1, <1>2, <2>1, CountType, FS_AddElement DEF Count, q
<1>3. CASE c = p[t]
  <2>1. t \in ThreadsAt(p, c) BY <1>3 DEF ThreadsAt
  <2>2. QED BY <1>1, <1>3, <2>1, CountType, FS_RemoveElement DEF Count, q
<1>4. CASE c # b /\ c # p[t]
  <2>1. ThreadsAt(q, c) = ThreadsAt(p, c) BY <1>1, <1>4 DEF ThreadsAt
  <2>2. QED BY <1>1, <1>4, <2>1 DEF Count, q
<1>5. QED BY <1>2, <1>3, <1>4

LEMMA MovedType ==
  ASSUME NEW p \in [Threads -> PcStates], NEW t \in Threads, NEW b \in PcStates
  PROVE  /\ Moved(p, t, b) \in [Threads -> PcStates]
         /\ \A u \in Threads : Moved(p, t, b)[u] = IF u = t THEN b ELSE p[u]
  BY DEF Moved

SyncStates == {"waitNotEmpty", "wokenNotEmpty", "waitNotFull", "wokenNotFull"}

(* A step between places that have nothing to do with waiting. *)
LEMMA QuietMove ==
  ASSUME NEW p \in [Threads -> PcStates], NEW t \in Threads, NEW b \in PcStates,
         p[t] \notin SyncStates, b \notin SyncStates, NEW n, NEW r, Awake(p, n, r)
  PROVE  Awake(Moved(p, t, b), n, r)
<1>1. \A c \in SyncStates : ThreadsAt(Moved(p, t, b), c) = ThreadsAt(p, c)
  BY DEF ThreadsAt, SyncStates, Moved
<1>2. QED BY <1>1 DEF Awake, Count, SyncStates

(* take() pops a task: the worker goes on, one more slot is free, and one   *)
(* waiting run() is notified when there is one.                             *)
LEMMA TakeMove ==
  ASSUME NEW p \in [Threads -> PcStates], NEW w \in Threads,
         p[w] \in {"take", "wokenNotEmpty"}, NEW n \in Nat, n > 0, NEW r,
         Awake(p, n, r)
  PROVE  LET q == Moved(p, w, "task") IN
         /\ MaxQueueSize = 0 \/ ThreadsAt(p, "waitNotFull") = {} => Awake(q, n - 1, r)
         /\ \A t \in ThreadsAt(p, "waitNotFull") :
               Awake(Moved(q, t, "wokenNotFull"), n - 1, r)
<1> DEFINE q == Moved(p, w, "task")
<1>0. {"task", "wokenNotFull"} \subseteq PcStates
  BY DEF PcStates, WorkerOnly, InRun
<1>1. q \in [Threads -> PcStates] /\ p[w] # "task"
  BY <1>0, MovedType
<1>2. \A c : Count(p, c) \in Nat /\ Count(q, c) \in Nat
  BY CountType
<1>3. /\ ThreadsAt(q, "waitNotEmpty") = ThreadsAt(p, "waitNotEmpty")
      /\ ThreadsAt(q, "waitNotFull") = ThreadsAt(p, "waitNotFull")
  BY <1>1 DEF ThreadsAt, Moved
<1>4. /\ Count(q, "wokenNotEmpty") >= Count(p, "wokenNotEmpty") - 1
      /\ Count(q, "wokenNotFull") = Count(p, "wokenNotFull")
  BY <1>0, <1>1, <1>2, MoveEffect
<1> HIDE DEF q
<1>5. ASSUME MaxQueueSize = 0 \/ ThreadsAt(p, "waitNotFull") = {}
      PROVE  Awake(q, n - 1, r)
  BY <1>2, <1>3, <1>4, <1>5, PoolAssumption DEF Awake
<1>6. ASSUME NEW t \in ThreadsAt(p, "waitNotFull")
      PROVE  Awake(Moved(q, t, "wokenNotFull"), n - 1, r)
  <2> DEFINE s == Moved(q, t, "wokenNotFull")
  <2>1. t \in Threads /\ q[t] = "waitNotFull"
    BY <1>3 DEF ThreadsAt
  <2>2. /\ ThreadsAt(s, "waitNotEmpty") = ThreadsAt(q, "waitNotEmpty")
        /\ ThreadsAt(s, "waitNotFull") \subseteq ThreadsAt(q, "waitNotFull")
    BY <1>1, <2>1 DEF ThreadsAt, Moved
  <2>3. /\ Count(s, "wokenNotEmpty") = Count(q, "wokenNotEmpty")
        /\ Count(s, "wokenNotFull") = Count(q, "wokenNotFull") + 1
    BY <1>0, <1>1, <2>1, MoveEffect
  <2>4. r
    BY DEF Awake
  <2> HIDE DEF s
  <2>5. Awake(s, n - 1, r)
    BY <1>2, <1>3, <1>4, <2>2, <2>3, <2>4, PoolAssumption DEF Awake
  <2>6. QED BY <2>5 DEF s
<1>7. QED BY <1>5, <1>6 DEF q

(* run() pushes a task: the caller goes on, one slot less is free, and one  *)
(* waiting worker is notified when there is one.                            *)
LEMMA EnqueueMove ==
  ASSUME NEW p \in [Threads -> PcStates], NEW t \in Threads,
         p[t] \in {"run", "wokenNotFull"}, NEW n \in Nat, NEW r, Awake(p, n, r),
         NEW b \in {"task", "idle"}
  PROVE  LET q == Moved(p, t, b) IN
         /\ ThreadsAt(p, "waitNotEmpty") = {} => Awake(q, n + 1, r)
         /\ \A w \in ThreadsAt(p, "waitNotEmpty") :
               Awake(Moved(q, w, "wokenNotEmpty"), n + 1, r)
<1> DEFINE q == Moved(p, t, b)
<1>0. {b, "wokenNotEmpty"} \subseteq PcStates
  BY DEF PcStates, WorkerOnly, CallerOnly
<1>1. q \in [Threads -> PcStates] /\ p[t] # b
  BY <1>0, MovedType
<1>2. \A c : Count(p, c) \in Nat /\ Count(q, c) \in Nat
  BY CountType
<1>3. /\ ThreadsAt(q, "waitNotEmpty") = ThreadsAt(p, "waitNotEmpty")
      /\ ThreadsAt(q, "waitNotFull") = ThreadsAt(p, "waitNotFull")
  BY <1>1 DEF ThreadsAt, Moved
<1>4. /\ Count(q, "wokenNotFull") >= Count(p, "wokenNotFull") - 1
      /\ Count(q, "wokenNotEmpty") = Count(p, "wokenNotEmpty")
  BY <1>0, <1>1, <1>2, MoveEffect
<1> HIDE DEF q
<1>5. ASSUME ThreadsAt(p, "waitNotEmpty") = {}
      PROVE  Awake(q, n + 1, r)
  BY <1>2, <1>3, <1>4, <1>5, PoolAssumption DEF Awake
<1>6. ASSUME NEW w \in ThreadsAt(p, "waitNotEmpty")
      PROVE  Awake(Moved(q, w, "wokenNotEmpty"), n + 1, r)
  <2> DEFINE s == Moved(q, w, "wokenNotEmpty")
  <2>1. w \in Threads /\ q[w] = "waitNotEmpty"
    BY <1>3 DEF ThreadsAt
  <2>2. /\ ThreadsAt(s, "waitNotFull") = ThreadsAt(q, "waitNotFull")
        /\ ThreadsAt(s, "waitNotEmpty") \subseteq ThreadsAt(q, "waitNotEmpty")
    BY <1>1, <2>1 DEF ThreadsAt, Moved
  <2>3. /\ Count(s, "wokenNotFull") = Count(q, "wokenNotFull")
        /\ Count(s, "wokenNotEmpty") = Count(q, "wokenNotEmpty") + 1
    BY <1>0, <1>1, <2>1, MoveEffect
  <2>4. r
    BY DEF Awake
  <2> HIDE DEF s
  <2>5. Awake(s, n + 1, r)
    BY <1>2, <1>3, <1>4, <2>2, <2>3, <2>4, PoolAssumption DEF Awake
  <2>6. QED BY <2>5 DEF s
<1>7. QED BY <1>5, <1>6 DEF q

LEMMA WaitMove ==
  ASSUME NEW p \in [Threads -> PcStates], NEW t \in Threads, NEW n \in Nat, NEW r,
         Awake(p, n, r), r,
         NEW b,
         \/ p[t] \in {"take", "wokenNotEmpty"} /\ b = "waitNotEmpty" /\ n = 0
         \/ p[t] \in {"run", "wokenNotFull"} /\ b = "waitNotFull" /\ n >= MaxQueueSize
  PROVE  Awake(Moved(p, t, b), n, r)
<1> DEFINE q == Moved(p, t, b)
<1>1. b \in PcStates /\ p[t] # b
  BY DEF PcStates, WorkerOnly, InRun
<1>2. \A c : Count(p, c) \in Nat /\ Count(q, c) \in Nat
  BY CountType
<1>3. CASE b = "waitNotEmpty"
  <2>1. ThreadsAt(q, "waitNotFull") = ThreadsAt(p, "waitNotFull")
    BY <1>3 DEF ThreadsAt, Moved
  <2>2. Count(q, "wokenNotFull") = Count(p, "wokenNotFull")
    BY <1>1, <1>3, MoveEffect
  <2> HIDE DEF q
  <2>3. QED BY <1>2, <1>3, <2>1, <2>2 DEF Awake, q
<1>4. CASE b = "waitNotFull"
  <2>1. ThreadsAt(q, "waitNotEmpty") = ThreadsAt(p, "waitNotEmpty")
    BY <1>4 DEF ThreadsAt, Moved
  <2>2. Count(q, "wokenNotEmpty") = Count(p, "wokenNotEmpty")
    BY <1>1, <1>4, MoveEffect
  <2> HIDE DEF q
  <2>3. QED BY <1>2, <1>4, <2>1, <2>2, PoolAssumption DEF Awake, q
<1>5. QED BY <1>3, <1>4

(* A waiter that wakes without a notify only helps. *)
LEMMA WakeMove ==
  ASSUME NEW p \in [Threads -> PcStates], NEW t \in Threads, NEW n \in Nat, NEW r,
         Awake(p, n, r), NEW b,
         \/ p[t] = "waitNotEmpty" /\ b = "wokenNotEmpty"
         \/ p[t] = "waitNotFull"  /\ b = "wokenNotFull"
  PROVE  Awake(Moved(p, t, b), n, r)
<1> DEFINE q == Moved(p, t, b)
<1>1. b \in PcStates /\ p[t] # b
  BY DEF PcStates, WorkerOnly, InRun
<1>2. \A c : Count(p, c) \in Nat /\ Count(q, c) \in Nat
  BY CountType
<1>3. \A c \in {"waitNotEmpty", "waitNotFull"} : ThreadsAt(q, c) \subseteq ThreadsAt(p, c)
  BY DEF ThreadsAt, Moved
<1>4. \A c \in {"wokenNotEmpty", "wokenNotFull"} : Count(q, c) >= Count(p, c)
  BY <1>1, <1>2, MoveEffect
<1> HIDE DEF q
<1>5. Awake(q, n, r)
  BY <1>2, <1>3, <1>4, PoolAssumption DEF Awake
<1>6. QED BY <1>5 DEF q

LEMMA InitAwake == Init => NoLostWakeup
<1> SUFFICES ASSUME Init PROVE NoLostWakeup
  OBVIOUS
<1>1. NotEmptyWaiters = {} /\ NotFullWaiters = {}
  BY DEF Init, NotEmptyWaiters, NotFullWaiters, At
<1>2. QED BY <1>1 DEF NoLostWakeup, WorkersAwake, CallersAwake, StoppedAwake

LEMMA StepAwake == TypeOK /\ NoLostWakeup /\ [Next]_vars => NoLostWakeup'
<1> SUFFICES ASSUME TypeOK, NoLostWakeup, [Next]_vars
             PROVE  Awake(pc', Len(queue'), running')
  BY AwakeIsNoLostWakeup
<1> DEFINE n == Len(queue)
<1>1. /\ pc \in [Threads -> PcStates]
      /\ n \in Nat
      /\ Awake(pc, n, running)
  BY AwakeIsNoLostWakeup DEF TypeOK, PcStates
<1>2. CASE OwnerStep
  <2>1. CASE Start BY <1>1, <2>1 DEF Start, Awake
  <2>2. CASE StartReturns \/ StopReturns
    BY <1>1, <2>2 DEF StartReturns, StopReturns
  <2>3. CASE Stop
    <3>1. ThreadsAt(pc', "waitNotEmpty") = {} /\ ThreadsAt(pc', "waitNotFull") = {}
      BY <2>3 DEF Stop, ThreadsAt
    <3>2. QED BY <3>1 DEF Awake
  <2>4. QED BY <1>2, <2>1, <2>2, <2>3 DEF OwnerStep
<1>3. ASSUME NEW w \in Workers, WorkerStep(w)
      PROVE  Awake(pc', Len(queue'), running')
  <2>0. w \in Threads
    BY DEF Threads
  <2>1. CASE StartWorker(w) \/ CheckRunning(w) \/ FinishTask(w)
    <3>1. PICK b \in {"loop", "take", "finished"} : pc' = Moved(pc, w, b)
      BY <2>1 DEF StartWorker, CheckRunning, FinishTask, Moved
    <3>2. /\ queue' = queue /\ running' = running
          /\ pc[w] \in {"unstarted", "loop", "task"}
      BY <2>1 DEF StartWorker, CheckRunning, FinishTask
    <3>3. b \in PcStates /\ {pc[w], b} \cap SyncStates = {}
      BY <3>2 DEF PcStates, WorkerOnly, SyncStates
    <3>4. QED BY <1>1, <2>0, <3>1, <3>2, <3>3, QuietMove
  <2>2. CASE TakeWaits(w)
    <3>1. /\ queue' = queue /\ running' = running /\ running
          /\ pc[w] \in {"take", "wokenNotEmpty"} /\ n = 0
          /\ pc' = Moved(pc, w, "waitNotEmpty")
      BY <2>2 DEF TakeWaits, AtTake, Moved
    <3>2. QED BY <1>1, <2>0, <3>1, WaitMove
  <2>3. CASE TakeNothing(w)
    <3>1. ThreadsAt(pc', "waitNotEmpty") = {} /\ ThreadsAt(pc', "waitNotFull") = {}
      BY <1>1, <2>3 DEF TakeNothing, Awake, ThreadsAt
    <3>2. QED BY <3>1 DEF Awake
  <2>4. CASE TakeTask(w)
    <3> DEFINE q == Moved(pc, w, "task")
    <3>1. /\ n > 0 /\ Len(queue') = n - 1 /\ running' = running
          /\ pc[w] \in {"take", "wokenNotEmpty"}
      BY <2>4 DEF TakeTask, AtTake, TypeOK
    <3>2. \/ pc' = q /\ (MaxQueueSize = 0 \/ ThreadsAt(pc, "waitNotFull") = {})
          \/ \E t \in ThreadsAt(pc, "waitNotFull") : pc' = Moved(q, t, "wokenNotFull")
      BY <2>4, PoolAssumption
         DEF TakeTask, NotifyOne, NotFullWaiters, At, ThreadsAt, Moved
    <3>3. QED BY <1>1, <2>0, <3>1, <3>2, TakeMove
  <2>5. QED BY <1>3, <2>1, <2>2, <2>3, <2>4 DEF WorkerStep
<1>4. ASSUME NEW t \in Threads, RunStep(t)
      PROVE  Awake(pc', Len(queue'), running')
  <2>1. CASE EnqueueWaits(t)
    <3>1. /\ queue' = queue /\ running' = running /\ running
          /\ pc[t] \in {"run", "wokenNotFull"} /\ n >= MaxQueueSize
          /\ pc' = Moved(pc, t, "waitNotFull")
      BY <2>1 DEF EnqueueWaits, AtEnqueue, IsFull, Moved
    <3>2. QED BY <1>1, <3>1, WaitMove
  <2>2. CASE EnqueueRefused(t)
    <3>1. ThreadsAt(pc', "waitNotEmpty") = {} /\ ThreadsAt(pc', "waitNotFull") = {}
      BY <1>1, <2>2 DEF EnqueueRefused, Awake, ThreadsAt, BackFrom
    <3>2. QED BY <3>1 DEF Awake, EnqueueRefused
  <2>3. CASE Enqueue(t)
    <3> DEFINE b == BackFrom(t)
               q == Moved(pc, t, b)
    <3>1. /\ Len(queue') = n + 1 /\ running' = running
          /\ pc[t] \in {"run", "wokenNotFull"} /\ b \in {"task", "idle"}
      BY <2>3 DEF Enqueue, AtEnqueue, TypeOK, BackFrom, InRun
    <3>2. \/ pc' = q /\ ThreadsAt(pc, "waitNotEmpty") = {}
          \/ \E w \in ThreadsAt(pc, "waitNotEmpty") : pc' = Moved(q, w, "wokenNotEmpty")
      BY <2>3 DEF Enqueue, NotifyOne, NotEmptyWaiters, At, ThreadsAt, Moved
    <3> HIDE DEF b
    <3>3. QED BY <1>1, <3>1, <3>2, EnqueueMove
  <2>4. CASE FinishInline(t)
    <3>1. /\ queue' = queue /\ running' = running
          /\ pc[t] = "inline" /\ pc' = Moved(pc, t, "idle")
      BY <2>4 DEF FinishInline, Moved
    <3>2. "idle" \in PcStates /\ {pc[t], "idle"} \cap SyncStates = {}
      BY <3>1 DEF PcStates, CallerOnly, SyncStates
    <3>3. QED BY <1>1, <3>1, <3>2, QuietMove
  <2>5. QED BY <1>4, <2>1, <2>2, <2>3, <2>4 DEF RunStep
<1>5. ASSUME NEW t \in Threads, SpuriousWakeup(t)
      PROVE  Awake(pc', Len(queue'), running')
  <2>1. PICK b : /\ pc' = Moved(pc, t, b)
                 /\ \/ pc[t] = "waitNotEmpty" /\ b = "wokenNotEmpty"
                    \/ pc[t] = "waitNotFull"  /\ b = "wokenNotFull"
    BY <1>5 DEF SpuriousWakeup, Moved
  <2>2. queue' = queue /\ running' = running
    BY <1>5 DEF SpuriousWakeup
  <2>3. QED BY <1>1, <2>1, <2>2, WakeMove
<1>6. ASSUME NEW t \in Threads, NEW x \in Tasks, CallRun(t, x) \/ RunInline(t, x)
      PROVE  Awake(pc', Len(queue'), running')
  <2>1. PICK b \in {"run", "inline"} : pc' = Moved(pc, t, b)
    BY <1>6 DEF CallRun, RunInline, Moved
  <2>2. /\ queue' = queue /\ running' = running
        /\ pc[t] \in {"idle", "task"}
    BY <1>6 DEF CallRun, RunInline, MayCall
  <2>3. b \in PcStates /\ {pc[t], b} \cap SyncStates = {}
    BY <2>2 DEF PcStates, CallerOnly, InRun, SyncStates
  <2>4. QED BY <1>1, <2>1, <2>2, <2>3, QuietMove
<1>7. CASE UNCHANGED vars
  BY <1>1, <1>7 DEF vars
<1>8. QED BY <1>2, <1>3, <1>4, <1>5, <1>6, <1>7 DEF Next

(* No wakeup of a worker or of a blocked run() is ever lost. *)
THEOREM NoLostWakeupInvariance == Spec => []NoLostWakeup
<1>1. Init => TypeOK /\ NoLostWakeup
  BY InitType, InitAwake
<1>2. TypeOK /\ NoLostWakeup /\ [Next]_vars => (TypeOK /\ NoLostWakeup)'
  BY StepType, StepAwake
<1>3. QED BY <1>1, <1>2, PTL DEF Spec

(***************************************************************************)
(* The bound of the queue.                                                 *)
(***************************************************************************)
(* The queue never exceeds max_queue_size_. *)
THEOREM QueueBoundedInvariance == Spec => []QueueBounded
<1>1. Init => QueueBounded
  BY PoolAssumption DEF Init, QueueBounded
<1>2. TypeOK /\ QueueBounded /\ [Next]_vars => QueueBounded'
  <2> SUFFICES ASSUME TypeOK, QueueBounded, [Next]_vars PROVE QueueBounded'
    OBVIOUS
  <2>1. Len(queue) \in Nat
    BY DEF TypeOK
  <2>2. CASE \E w \in Workers : TakeTask(w)
    <3>1. Len(queue') = Len(queue) - 1
      BY <2>2 DEF TakeTask, TypeOK
    <3>2. QED BY <2>1, <3>1, PoolAssumption DEF QueueBounded
  <2>3. CASE \E t \in Threads : Enqueue(t)
    <3>1. Len(queue') = Len(queue) + 1 /\ ~IsFull
      BY <2>3 DEF Enqueue, TypeOK, AtEnqueue, InRun
    <3>2. QED BY <2>1, <3>1, PoolAssumption DEF QueueBounded, IsFull
  <2>4. CASE queue' = queue
    BY <2>4 DEF QueueBounded
  <2>5. QED
    BY <2>2, <2>3, <2>4
       DEF Next, vars, OwnerStep, Start, StartReturns, Stop, StopReturns,
           WorkerStep, StartWorker, CheckRunning, TakeWaits, TakeNothing,
           FinishTask, RunStep, EnqueueWaits, EnqueueRefused, FinishInline,
           SpuriousWakeup, CallRun, RunInline
<1>3. QED BY <1>1, <1>2, TypeInvariance, PTL DEF Spec

(***************************************************************************)
(* The pool implements TaskQueue.  Besides the types this needs where the  *)
(* threads are while the owner is outside of start() and stop(), and that  *)
(* a task is in one place only.                                            *)
(***************************************************************************)
OwnerOrder ==
  /\ running <=> owner \in {"starting", "started"}
  /\ owner = "new" => /\ queue = <<>>
                      /\ \A w \in Workers : pc[w] = "unstarted"
                      /\ \A c \in Callers : pc[c] \in CallerOnly
  /\ owner = "stopped" => \A w \in Workers : pc[w] = "finished"

OneHolder ==
  /\ \A i, j \in 1 .. Len(queue) : queue[i] = queue[j] => i = j
  /\ \A t, u \in Threads : arg[t] = arg[u] => arg[t] = None \/ t = u
  /\ \A t, u \in Threads : cur[t] = cur[u] => cur[t] = None \/ t = u
  /\ \A t, u \in Threads : arg[t] = cur[u] => arg[t] = None
  /\ \A x \in Tasks : Queued(x) => \A t \in Threads : arg[t] # x /\ cur[t] # x
  /\ \A x \in executed \cup refused : ~Queued(x) /\ ~Running(x) /\ ~Inline(x) /\ ~Offered(x)
  /\ executed \cap refused = {}

PoolInv == TypeOK /\ OwnerOrder /\ OneHolder

LEMMA StepOwnerOrder == TypeOK /\ OwnerOrder /\ [Next]_vars => OwnerOrder'
<1> SUFFICES ASSUME TypeOK, OwnerOrder, [Next]_vars PROVE OwnerOrder'
  OBVIOUS
<1> USE DEF OwnerOrder, CallerOnly
<1>1. CASE OwnerStep
  BY <1>1 DEF OwnerStep, Start, StartReturns, Stop, StopReturns, TypeOK, OwnerStates,
              Threads
<1>2. ASSUME NEW w \in Workers, WorkerStep(w) PROVE OwnerOrder'
  <2>1. owner \notin {"new", "stopped"}
    BY <1>2 DEF WorkerStep, StartWorker, CheckRunning, TakeWaits, TakeNothing, TakeTask,
                AtTake, FinishTask
  <2>2. owner' = owner /\ running' = running
    BY <1>2 DEF WorkerStep, StartWorker, CheckRunning, TakeWaits, TakeNothing, TakeTask,
                FinishTask
  <2>3. QED BY <2>1, <2>2
<1>3. ASSUME NEW t \in Threads, AtEnqueue(t) PROVE owner # "new"
  BY <1>3 DEF AtEnqueue, Threads
<1>4. ASSUME NEW t \in Threads,
             \/ EnqueueWaits(t) \/ EnqueueRefused(t) \/ Enqueue(t)
      PROVE  OwnerOrder'
  <2>1. owner # "new" /\ owner' = owner /\ running' = running
    BY <1>3, <1>4 DEF EnqueueWaits, EnqueueRefused, Enqueue
  <2>2. CASE running
    BY <2>1, <2>2
  <2>3. CASE ~running
    <3>1. pc' = [pc EXCEPT ![t] = BackFrom(t)] /\ pc[t] \in {"run", "wokenNotFull"}
      BY <1>4, <2>3 DEF EnqueueWaits, EnqueueRefused, Enqueue, AtEnqueue
    <3>2. CASE t \in Workers BY <2>1, <3>1, <3>2
    <3>3. CASE t \in Callers BY <2>1, <3>1, <3>3, PoolAssumption DEF TypeOK, Threads
    <3>4. QED BY <3>2, <3>3 DEF Threads
  <2>4. QED BY <2>2, <2>3
<1>5. ASSUME NEW t \in Threads, FinishInline(t) PROVE OwnerOrder'
  BY <1>5, PoolAssumption DEF FinishInline, TypeOK, Threads
<1>6. ASSUME NEW t \in Threads, SpuriousWakeup(t) PROVE OwnerOrder'
  <2>1. owner # "new"
    BY <1>6 DEF SpuriousWakeup, Threads
  <2>2. QED BY <1>6, <2>1 DEF SpuriousWakeup, TypeOK, Threads
<1>7. ASSUME NEW t \in Threads, NEW x \in Tasks, CallRun(t, x) PROVE OwnerOrder'
  <2>1. owner # "new"
    BY <1>7 DEF CallRun, NoThreads
  <2>2. QED BY <1>7, <2>1 DEF CallRun, MayCall, TypeOK
<1>8. ASSUME NEW t \in Threads, NEW x \in Tasks, RunInline(t, x) PROVE OwnerOrder'
  BY <1>8, PoolAssumption DEF RunInline, TypeOK, Threads
<1>9. CASE UNCHANGED vars
  BY <1>9 DEF vars
<1>10. QED BY <1>1, <1>2, <1>4, <1>5, <1>6, <1>7, <1>8, <1>9 DEF Next, RunStep

(* What each action does to the places where a task can be.                 *)
LEMMA TakeTaskPlaces ==
  ASSUME TypeOK, OneHolder, NEW w \in Workers, TakeTask(w)
  PROVE  /\ cur[w] = None /\ Queued(Head(queue)) /\ Head(queue) \in Tasks
         /\ \A x \in Tasks : /\ Queued(x)' <=> Queued(x) /\ x # Head(queue)
                             /\ Running(x)' <=> Running(x) \/ x = Head(queue)
                             /\ Inline(x)' <=> Inline(x)
<1>1. cur[w] = None /\ pc[w] \in {"take", "wokenNotEmpty"}
  BY DEF TakeTask, AtTake, TypeOK, InRun
<1>2. /\ Len(queue) \in Nat \ {0} /\ Head(queue) = queue[1] /\ Head(queue) \in Tasks
      /\ Len(Tail(queue)) = Len(queue) - 1
      /\ \A i \in 1 .. Len(queue) - 1 : Tail(queue)[i] = queue[i + 1]
  BY DEF TakeTask, TypeOK
<1>3. Queued(Head(queue))
  BY <1>2 DEF Queued
<1>4. ASSUME NEW x \in Tasks PROVE Queued(x)' <=> Queued(x) /\ x # Head(queue)
  <2>1. queue' = Tail(queue)
    BY DEF TakeTask
  <2>2. ASSUME Queued(x)' PROVE Queued(x) /\ x # Head(queue)
    <3>1. PICK i \in 1 .. Len(queue) - 1 : queue[i + 1] = x
      BY <1>2, <2>1, <2>2 DEF Queued
    <3>2. i + 1 \in 1 .. Len(queue) /\ 1 \in 1 .. Len(queue) /\ i + 1 # 1
      BY <1>2
    <3>3. QED BY <1>2, <3>1, <3>2 DEF OneHolder, Queued
  <2>3. ASSUME Queued(x), x # Head(queue) PROVE Queued(x)'
    <3>1. PICK i \in 1 .. Len(queue) : queue[i] = x
      BY <2>3 DEF Queued
    <3>2. i # 1 /\ i - 1 \in 1 .. Len(queue) - 1 /\ (i - 1) + 1 = i
      BY <1>2, <2>3, <3>1
    <3>3. QED BY <1>2, <2>1, <3>1, <3>2 DEF Queued
  <2>4. QED BY <2>2, <2>3
<1>5. ASSUME NEW x \in Tasks
      PROVE  /\ Running(x)' <=> Running(x) \/ x = Head(queue)
             /\ Inline(x)' <=> Inline(x)
  <2>1. cur' = [cur EXCEPT ![w] = Head(queue)] /\ x # None
    BY PoolAssumption DEF TakeTask
  <2>2. QED BY <1>1, <2>1, PoolAssumption DEF TypeOK, Running, Inline, Threads
<1>6. QED BY <1>1, <1>2, <1>3, <1>4, <1>5

LEMMA EnqueuePlaces ==
  ASSUME TypeOK, OneHolder, NEW t \in Threads, Enqueue(t)
  PROVE  /\ arg[t] \in Tasks /\ Offered(arg[t])
         /\ \A x \in Tasks : /\ Queued(x)' <=> Queued(x) \/ x = arg[t]
                             /\ Offered(x)' <=> Offered(x) /\ x # arg[t]
<1>1. arg[t] \in Tasks /\ Offered(arg[t])
  BY DEF Enqueue, AtEnqueue, TypeOK, InRun, Offered
<1>2. /\ Len(queue) \in Nat /\ Len(queue') = Len(queue) + 1
      /\ \A i \in 1 .. Len(queue) : queue'[i] = queue[i]
      /\ queue'[Len(queue) + 1] = arg[t]
  BY <1>1 DEF Enqueue, TypeOK
<1>3. ASSUME NEW x \in Tasks PROVE Queued(x)' <=> Queued(x) \/ x = arg[t]
  <2>1. ASSUME Queued(x)' PROVE Queued(x) \/ x = arg[t]
    <3>1. PICK i \in 1 .. Len(queue) + 1 : queue'[i] = x
      BY <1>2, <2>1 DEF Queued
    <3>2. QED BY <1>2, <3>1 DEF Queued
  <2>2. ASSUME Queued(x) \/ x = arg[t] PROVE Queued(x)'
    BY <1>2, <2>2 DEF Queued
  <2>3. QED BY <2>1, <2>2
<1>4. ASSUME NEW x \in Tasks PROVE Offered(x)' <=> Offered(x) /\ x # arg[t]
  BY PoolAssumption DEF Enqueue, TypeOK, OneHolder, Offered
<1>5. QED BY <1>1, <1>3, <1>4

LEMMA TakeTaskHolder ==
  ASSUME TypeOK, OneHolder, NEW w \in Workers, TakeTask(w)
  PROVE  OneHolder'
<1> DEFINE h == Head(queue)
<1>1. /\ h \in Tasks /\ Queued(h) /\ w \in Threads
      /\ cur' = [cur EXCEPT ![w] = h] /\ arg' = arg
      /\ executed' = executed /\ refused' = refused
      /\ \A x \in Tasks : (Queued(x)' <=> Queued(x) /\ x # h)
      /\ \A x \in Tasks : (Running(x)' <=> Running(x) \/ x = h)
      /\ \A x \in Tasks : (Inline(x)' <=> Inline(x))
      /\ \A x : (Offered(x)' <=> Offered(x))
  BY TakeTaskPlaces DEF TakeTask, Threads, Offered
<1> HIDE DEF h
<1>3. \A i, j \in 1 .. Len(queue') : queue'[i] = queue'[j] => i = j
  <2>1. /\ Len(queue) \in Nat \ {0} /\ Len(queue') = Len(queue) - 1
        /\ \A i \in 1 .. Len(queue) - 1 : queue'[i] = queue[i + 1]
    BY DEF TakeTask, TypeOK
  <2>2. ASSUME NEW i \in 1 .. Len(queue'), NEW j \in 1 .. Len(queue'),
               queue'[i] = queue'[j]
        PROVE  i = j
    <3>1. i + 1 \in 1 .. Len(queue) /\ j + 1 \in 1 .. Len(queue)
      BY <2>1
    <3>2. queue[i + 1] = queue[j + 1]
      BY <2>1, <2>2
    <3>3. i + 1 = j + 1
      BY <3>1, <3>2 DEF OneHolder
    <3>4. QED BY <2>1, <3>3
  <2>3. QED BY <2>2
<1>4. \A t \in Threads : arg[t] # h /\ cur[t] # h
  BY <1>1 DEF OneHolder
<1>5. /\ \A t, u \in Threads : arg'[t] = arg'[u] => arg'[t] = None \/ t = u
      /\ \A t, u \in Threads : cur'[t] = cur'[u] => cur'[t] = None \/ t = u
      /\ \A t, u \in Threads : arg'[t] = cur'[u] => arg'[t] = None
  BY <1>1, <1>4 DEF OneHolder, TypeOK
<1>6. \A x \in Tasks : Queued(x)' => \A t \in Threads : arg'[t] # x /\ cur'[t] # x
  BY <1>1 DEF OneHolder, TypeOK
<1>7. \A x \in executed' \cup refused' :
        ~Queued(x)' /\ ~Running(x)' /\ ~Inline(x)' /\ ~Offered(x)'
  BY <1>1 DEF OneHolder, TypeOK
<1>8. executed' \cap refused' = {}
  BY <1>1 DEF OneHolder
<1>9. QED BY <1>3, <1>5, <1>6, <1>7, <1>8 DEF OneHolder

LEMMA EnqueueHolder ==
  ASSUME TypeOK, OneHolder, NEW t \in Threads, Enqueue(t)
  PROVE  OneHolder'
<1> DEFINE a == arg[t]
<1>1. /\ a \in Tasks /\ Offered(a)
      /\ cur' = cur /\ arg' = [arg EXCEPT ![t] = None]
      /\ executed' = executed /\ refused' = refused
      /\ \A x \in Tasks : (Queued(x)' <=> Queued(x) \/ x = a)
      /\ \A x \in Tasks : (Offered(x)' <=> Offered(x) /\ x # a)
      /\ \A x : (Running(x)' <=> Running(x)) /\ (Inline(x)' <=> Inline(x))
  BY EnqueuePlaces DEF Enqueue, Running, Inline
<1>2. ~Queued(a)
  BY <1>1 DEF OneHolder
<1>3. \A i, j \in 1 .. Len(queue') : queue'[i] = queue'[j] => i = j
  <2>1. /\ Len(queue) \in Nat /\ Len(queue') = Len(queue) + 1
        /\ \A i \in 1 .. Len(queue) : queue'[i] = queue[i] /\ queue[i] # a
        /\ queue'[Len(queue) + 1] = a
    BY <1>1, <1>2 DEF Enqueue, TypeOK, Queued
  <2>2. QED BY <2>1 DEF OneHolder
<1>4. \A u \in Threads : u # t => arg[u] # a
  BY <1>1, PoolAssumption DEF OneHolder
<1>5. \A u \in Threads : cur[u] # a
  BY <1>1, PoolAssumption DEF OneHolder
<1>6. /\ \A v, u \in Threads : arg'[v] = arg'[u] => arg'[v] = None \/ v = u
      /\ \A v, u \in Threads : cur'[v] = cur'[u] => cur'[v] = None \/ v = u
      /\ \A v, u \in Threads : arg'[v] = cur'[u] => arg'[v] = None
  BY <1>1 DEF OneHolder, TypeOK
<1>7. \A x \in Tasks : Queued(x)' => \A u \in Threads : arg'[u] # x /\ cur'[u] # x
  BY <1>1, <1>4, <1>5, PoolAssumption DEF OneHolder, TypeOK
<1>8. \A x \in executed' \cup refused' :
        ~Queued(x)' /\ ~Running(x)' /\ ~Inline(x)' /\ ~Offered(x)'
  <2>1. a \notin executed \cup refused
    BY <1>1 DEF OneHolder
  <2>2. QED BY <1>1, <2>1 DEF OneHolder, TypeOK
<1>9. QED BY <1>1, <1>3, <1>6, <1>7, <1>8 DEF OneHolder

(* A task that returns leaves its thread for the executed ones. *)
LEMMA FinishHolder ==
  ASSUME TypeOK, OneHolder, NEW t \in Threads, cur[t] # None,
         cur' = [cur EXCEPT ![t] = None], executed' = executed \cup {cur[t]},
         UNCHANGED <<queue, arg, refused>>
  PROVE  /\ OneHolder'
         /\ \A x \in Tasks : /\ Queued(x)' <=> Queued(x)
                             /\ Offered(x)' <=> Offered(x)
                             /\ Running(x)' <=> Running(x) /\ x # cur[t]
                             /\ Inline(x)' <=> Inline(x) /\ x # cur[t]
<1>1. \A x : (Queued(x)' <=> Queued(x)) /\ (Offered(x)' <=> Offered(x))
  BY DEF Queued, Offered
<1>2. \A x \in Tasks : (Running(x)' <=> Running(x) /\ x # cur[t])
  BY PoolAssumption DEF Running, Threads, OneHolder, TypeOK
<1>3. \A x \in Tasks : (Inline(x)' <=> Inline(x) /\ x # cur[t])
  BY PoolAssumption DEF Inline, Threads, OneHolder, TypeOK
<1>4. cur[t] \in Tasks
  BY DEF TypeOK
<1>5. ~Queued(cur[t]) /\ ~Offered(cur[t]) /\ cur[t] \notin refused
  BY <1>4 DEF OneHolder, Offered, Running, Inline, Threads
<1>6. /\ \A v, u \in Threads : cur'[v] = cur'[u] => cur'[v] = None \/ v = u
      /\ \A v, u \in Threads : arg'[v] = cur'[u] => arg'[v] = None
  BY DEF OneHolder, TypeOK
<1>7. \A x \in Tasks : Queued(x)' => \A u \in Threads : arg'[u] # x /\ cur'[u] # x
  BY <1>1, PoolAssumption DEF OneHolder, TypeOK
<1>8. \A x \in executed' \cup refused' :
        ~Queued(x)' /\ ~Running(x)' /\ ~Inline(x)' /\ ~Offered(x)'
  BY <1>1, <1>2, <1>3, <1>4, <1>5 DEF OneHolder, TypeOK
<1>9. /\ executed' \cap refused' = {}
      /\ \A i, j \in 1 .. Len(queue') : queue'[i] = queue'[j] => i = j
      /\ \A v, u \in Threads : arg'[v] = arg'[u] => arg'[v] = None \/ v = u
  BY <1>5 DEF OneHolder
<1>10. OneHolder'
  BY <1>6, <1>7, <1>8, <1>9 DEF OneHolder
<1>11. QED BY <1>1, <1>2, <1>3, <1>10

(* run() drops its task. *)
LEMMA RefuseHolder ==
  ASSUME TypeOK, OneHolder, NEW t \in Threads, EnqueueRefused(t)
  PROVE  /\ OneHolder' /\ arg[t] \in Tasks /\ Offered(arg[t])
         /\ \A x \in Tasks : /\ Queued(x)' <=> Queued(x)
                             /\ Running(x)' <=> Running(x)
                             /\ Inline(x)' <=> Inline(x)
                             /\ Offered(x)' <=> Offered(x) /\ x # arg[t]
<1>1. /\ arg[t] \in Tasks /\ Offered(arg[t])
      /\ arg' = [arg EXCEPT ![t] = None] /\ refused' = refused \cup {arg[t]}
      /\ UNCHANGED <<queue, cur, executed>>
  BY DEF EnqueueRefused, AtEnqueue, TypeOK, InRun, Offered
<1>2. \A x : /\ (Queued(x)' <=> Queued(x))
             /\ (Running(x)' <=> Running(x))
             /\ (Inline(x)' <=> Inline(x))
  BY <1>1 DEF Queued, Running, Inline
<1>3. \A x \in Tasks : (Offered(x)' <=> Offered(x) /\ x # arg[t])
  BY <1>1, PoolAssumption DEF Offered, OneHolder, TypeOK
<1>4. ~Queued(arg[t]) /\ ~Running(arg[t]) /\ ~Inline(arg[t]) /\ arg[t] \notin executed
  <2>1. arg[t] # None
    BY <1>1, PoolAssumption
  <2>2. ~Running(arg[t]) /\ ~Inline(arg[t])
    BY <2>1 DEF OneHolder, Running, Inline, Threads
  <2>3. QED BY <1>1, <2>2 DEF OneHolder
<1>5. /\ \A v, u \in Threads : arg'[v] = arg'[u] => arg'[v] = None \/ v = u
      /\ \A v, u \in Threads : arg'[v] = cur'[u] => arg'[v] = None
  BY <1>1 DEF OneHolder, TypeOK
<1>6. \A x \in Tasks : Queued(x)' => \A u \in Threads : arg'[u] # x /\ cur'[u] # x
  BY <1>1, <1>2, PoolAssumption DEF OneHolder, TypeOK
<1>7. \A x \in executed' \cup refused' :
        ~Queued(x)' /\ ~Running(x)' /\ ~Inline(x)' /\ ~Offered(x)'
  BY <1>1, <1>2, <1>3, <1>4 DEF OneHolder, TypeOK
<1>8. /\ executed' \cap refused' = {}
      /\ \A i, j \in 1 .. Len(queue') : queue'[i] = queue'[j] => i = j
      /\ \A v, u \in Threads : cur'[v] = cur'[u] => cur'[v] = None \/ v = u
  BY <1>1, <1>4 DEF OneHolder
<1>9. OneHolder'
  BY <1>5, <1>6, <1>7, <1>8 DEF OneHolder
<1>10. QED BY <1>1, <1>2, <1>3, <1>9

LEMMA FreshTask ==
  ASSUME NEW x \in Tasks, x \notin Submitted
  PROVE  /\ x \notin executed /\ x \notin refused
         /\ ~Queued(x) /\ ~Running(x) /\ ~Inline(x) /\ ~Offered(x)
         /\ \A t \in Threads : arg[t] # x /\ cur[t] # x
  BY DEF Submitted, Queued, Running, Inline, Offered, Threads

(* A task that is handed to run(). *)
LEMMA CallRunHolder ==
  ASSUME TypeOK, OneHolder, NEW t \in Threads, NEW x \in Tasks, CallRun(t, x)
  PROVE  /\ OneHolder'
         /\ \A y \in Tasks : /\ Queued(y)' <=> Queued(y)
                             /\ Running(y)' <=> Running(y)
                             /\ Inline(y)' <=> Inline(y)
                             /\ Offered(y)' <=> Offered(y) \/ y = x
<1>1. /\ arg' = [arg EXCEPT ![t] = x] /\ arg[t] = None
      /\ UNCHANGED <<queue, cur, executed, refused>>
  BY DEF CallRun, MayCall, TypeOK, InRun
<1>2. \A y : /\ (Queued(y)' <=> Queued(y))
             /\ (Running(y)' <=> Running(y))
             /\ (Inline(y)' <=> Inline(y))
  BY <1>1 DEF Queued, Running, Inline
<1>3. \A y \in Tasks : (Offered(y)' <=> Offered(y) \/ y = x)
  BY <1>1, PoolAssumption DEF Offered, TypeOK
<1>4. /\ x \notin executed /\ x \notin refused /\ x # None
      /\ ~Queued(x) /\ \A u \in Threads : arg[u] # x /\ cur[u] # x
  BY FreshTask, PoolAssumption DEF CallRun
<1>5. /\ \A v, u \in Threads : arg'[v] = arg'[u] => arg'[v] = None \/ v = u
      /\ \A v, u \in Threads : arg'[v] = cur'[u] => arg'[v] = None
  BY <1>1, <1>4 DEF OneHolder, TypeOK
<1>6. \A y \in Tasks : Queued(y)' => \A u \in Threads : arg'[u] # y /\ cur'[u] # y
  BY <1>1, <1>2, <1>4 DEF OneHolder, TypeOK
<1>7. \A y \in executed' \cup refused' :
        ~Queued(y)' /\ ~Running(y)' /\ ~Inline(y)' /\ ~Offered(y)'
  BY <1>1, <1>2, <1>3, <1>4 DEF OneHolder, TypeOK
<1>8. /\ executed' \cap refused' = {}
      /\ \A i, j \in 1 .. Len(queue') : queue'[i] = queue'[j] => i = j
      /\ \A v, u \in Threads : cur'[v] = cur'[u] => cur'[v] = None \/ v = u
  BY <1>1 DEF OneHolder
<1>9. OneHolder'
  BY <1>5, <1>6, <1>7, <1>8 DEF OneHolder
<1>10. QED BY <1>2, <1>3, <1>9

LEMMA RunInlineHolder ==
  ASSUME TypeOK, OneHolder, NEW t \in Callers, NEW x \in Tasks, RunInline(t, x)
  PROVE  /\ OneHolder'
         /\ \A y \in Tasks : /\ Queued(y)' <=> Queued(y)
                             /\ Running(y)' <=> Running(y)
                             /\ Inline(y)' <=> Inline(y) \/ y = x
                             /\ Offered(y)' <=> Offered(y)
<1>1. /\ cur' = [cur EXCEPT ![t] = x] /\ cur[t] = None /\ t \in Threads
      /\ UNCHANGED <<queue, arg, executed, refused>>
  BY DEF RunInline, TypeOK, Threads
<1>2. \A y : (Queued(y)' <=> Queued(y)) /\ (Offered(y)' <=> Offered(y))
  BY <1>1 DEF Queued, Offered
<1>3. \A y \in Tasks : (Running(y)' <=> Running(y))
  BY <1>1, PoolAssumption DEF Running, TypeOK, Threads
<1>4. \A y \in Tasks : (Inline(y)' <=> Inline(y) \/ y = x)
  BY <1>1, PoolAssumption DEF Inline, TypeOK, Threads
<1>5. /\ x \notin executed /\ x \notin refused /\ x # None
      /\ ~Queued(x) /\ ~Offered(x) /\ \A u \in Threads : arg[u] # x /\ cur[u] # x
  BY FreshTask, PoolAssumption DEF RunInline
<1>6. /\ \A v, u \in Threads : cur'[v] = cur'[u] => cur'[v] = None \/ v = u
      /\ \A v, u \in Threads : arg'[v] = cur'[u] => arg'[v] = None
  BY <1>1, <1>5 DEF OneHolder, TypeOK
<1>7. \A y \in Tasks : Queued(y)' => \A u \in Threads : arg'[u] # y /\ cur'[u] # y
  BY <1>1, <1>2, <1>5 DEF OneHolder, TypeOK
<1>8. \A y \in executed' \cup refused' :
        ~Queued(y)' /\ ~Running(y)' /\ ~Inline(y)' /\ ~Offered(y)'
  BY <1>1, <1>2, <1>3, <1>4, <1>5 DEF OneHolder, TypeOK
<1>9. /\ executed' \cap refused' = {}
      /\ \A i, j \in 1 .. Len(queue') : queue'[i] = queue'[j] => i = j
      /\ \A v, u \in Threads : arg'[v] = arg'[u] => arg'[v] = None \/ v = u
  BY <1>1 DEF OneHolder
<1>10. OneHolder'
  BY <1>6, <1>7, <1>8, <1>9 DEF OneHolder
<1>11. QED BY <1>2, <1>3, <1>4, <1>10

Quiet == UNCHANGED <<queue, arg, cur, executed, refused>>

LEMMA QuietHolder ==
  ASSUME OneHolder, Quiet
  PROVE  /\ OneHolder'
         /\ \A x \in Tasks : StatusOf(x)' = StatusOf(x)
  BY DEF Quiet, OneHolder, Queued, Running, Inline, Offered, StatusOf

(* Every step is a silent one or one of the six that move a task. *)
LEMMA StepKinds ==
  ASSUME TypeOK, [Next]_vars
  PROVE  \/ Quiet
         \/ \E w \in Workers : TakeTask(w) \/ FinishTask(w)
         \/ \E t \in Threads : EnqueueRefused(t) \/ Enqueue(t)
         \/ \E t \in Callers : FinishInline(t)
         \/ \E t \in Threads, x \in Tasks : CallRun(t, x)
         \/ \E t \in Callers, x \in Tasks : RunInline(t, x)
<1>1. CASE OwnerStep \/ UNCHANGED vars
  BY <1>1 DEF OwnerStep, Start, StartReturns, Stop, StopReturns, Quiet, vars
<1>2. ASSUME NEW w \in Workers, WorkerStep(w)
      PROVE  Quiet \/ TakeTask(w) \/ FinishTask(w)
  BY <1>2 DEF WorkerStep, StartWorker, CheckRunning, TakeWaits, TakeNothing, Quiet
<1>3. ASSUME NEW t \in Threads, RunStep(t)
      PROVE  Quiet \/ EnqueueRefused(t) \/ Enqueue(t) \/ (t \in Callers /\ FinishInline(t))
  BY <1>3 DEF RunStep, EnqueueWaits, FinishInline, Quiet, TypeOK, CallerOnly, Threads
<1>4. ASSUME NEW t \in Threads, SpuriousWakeup(t) PROVE Quiet
  BY <1>4 DEF SpuriousWakeup, Quiet
<1>5. ASSUME NEW t \in Threads, NEW x \in Tasks, RunInline(t, x) PROVE t \in Callers
  BY <1>5 DEF RunInline
<1>6. QED BY <1>1, <1>2, <1>3, <1>4, <1>5 DEF Next

LEMMA StepOneHolder == TypeOK /\ OneHolder /\ [Next]_vars => OneHolder'
<1> SUFFICES ASSUME TypeOK, OneHolder, [Next]_vars PROVE OneHolder'
  OBVIOUS
<1>1. CASE Quiet
  BY <1>1, QuietHolder
<1>2. ASSUME NEW w \in Workers, TakeTask(w) PROVE OneHolder'
  BY <1>2, TakeTaskHolder
<1>3. ASSUME NEW w \in Workers, FinishTask(w) PROVE OneHolder'
  <2>1. w \in Threads /\ cur[w] # None
    BY <1>3 DEF FinishTask, TypeOK, Threads
  <2>2. QED BY <1>3, <2>1, FinishHolder DEF FinishTask
<1>4. ASSUME NEW t \in Threads, EnqueueRefused(t) \/ Enqueue(t) PROVE OneHolder'
  BY <1>4, RefuseHolder, EnqueueHolder
<1>5. ASSUME NEW t \in Callers, FinishInline(t) PROVE OneHolder'
  <2>1. t \in Threads /\ cur[t] # None
    BY <1>5 DEF FinishInline, TypeOK, Threads
  <2>2. QED BY <1>5, <2>1, FinishHolder DEF FinishInline
<1>6. ASSUME NEW t \in Threads, NEW x \in Tasks, CallRun(t, x) PROVE OneHolder'
  BY <1>6, CallRunHolder
<1>7. ASSUME NEW t \in Callers, NEW x \in Tasks, RunInline(t, x) PROVE OneHolder'
  BY <1>7, RunInlineHolder
<1>8. QED BY <1>1, <1>2, <1>3, <1>4, <1>5, <1>6, <1>7, StepKinds

LEMMA InitPoolInv == Init => PoolInv
<1> SUFFICES ASSUME Init PROVE PoolInv
  OBVIOUS
<1>1. TypeOK BY InitType
<1>2. OwnerOrder
  BY PoolAssumption DEF Init, OwnerOrder, CallerOnly, Threads
<1>3. OneHolder
  BY DEF Init, OneHolder, Queued
<1>4. QED BY <1>1, <1>2, <1>3 DEF PoolInv

LEMMA StepPoolInv == PoolInv /\ [Next]_vars => PoolInv'
  BY StepType, StepOwnerOrder, StepOneHolder DEF PoolInv

LEMMA StatusMove ==
  ASSUME NEW x \in Tasks, NEW a, NEW b, StatusOf(x) = a, StatusOf(x)' = b,
         \A y \in Tasks : y # x => StatusOf(y)' = StatusOf(y)
  PROVE  Status[x] = a /\ Status' = [Status EXCEPT ![x] = b]
  BY DEF Status

LEMMA StatusStays ==
  ASSUME \A y \in Tasks : StatusOf(y)' = StatusOf(y)
  PROVE  Status' = Status
  BY DEF Status

LEMMA TakeTaskBegins ==
  ASSUME PoolInv, NEW w \in Workers, TakeTask(w)
  PROVE  Promise!Begin
<1>0. PICK h \in Tasks : h = Head(queue)
  BY TakeTaskPlaces DEF PoolInv
<1>1. /\ h \in Tasks /\ Queued(h)
      /\ executed' = executed /\ refused' = refused
      /\ \A x \in Tasks : (Queued(x)' <=> Queued(x) /\ x # h)
      /\ \A x \in Tasks : (Running(x)' <=> Running(x) \/ x = h)
      /\ \A x \in Tasks : (Inline(x)' <=> Inline(x))
      /\ \A x : (Offered(x)' <=> Offered(x))
  BY <1>0, TakeTaskPlaces DEF TakeTask, Threads, Offered, PoolInv
<1>2. /\ owner \notin {"new", "stopped"} /\ owner' = owner /\ queue # <<>>
      /\ queue' = Tail(queue)
  BY DEF TakeTask, AtTake, PoolInv, OwnerOrder
<1>3. h \notin executed /\ h \notin refused
  BY <1>1 DEF PoolInv, OneHolder
<1>4. StatusOf(h) = "queued" /\ StatusOf(h)' = "running"
  BY <1>1, <1>3 DEF StatusOf
<1>5. \A y \in Tasks : y # h => StatusOf(y)' = StatusOf(y)
  BY <1>1 DEF StatusOf
<1>6. Status[h] = "queued" /\ Status' = [Status EXCEPT ![h] = "running"]
  BY <1>1, <1>4, <1>5, StatusMove
<1>7. Phase \in {"open", "closing"} /\ Phase' = Phase
  BY <1>2 DEF Phase, PoolInv, TypeOK, OwnerStates
<1>8. QED BY <1>0, <1>2, <1>6, <1>7 DEF Promise!Begin, Promise!Move

LEMMA EnqueueAccepts ==
  ASSUME PoolInv, NEW t \in Threads, Enqueue(t)
  PROVE  arg[t] \in Tasks /\ Promise!Accept(arg[t])
<1>0. PICK a \in Tasks : a = arg[t]
  BY EnqueuePlaces DEF PoolInv
<1>1. /\ a \in Tasks /\ Offered(a) /\ a # None
      /\ cur' = cur /\ executed' = executed /\ refused' = refused
      /\ \A x \in Tasks : (Queued(x)' <=> Queued(x) \/ x = a)
      /\ \A x \in Tasks : (Offered(x)' <=> Offered(x) /\ x # a)
      /\ \A x : (Running(x)' <=> Running(x)) /\ (Inline(x)' <=> Inline(x))
  BY <1>0, EnqueuePlaces, PoolAssumption DEF Enqueue, Running, Inline, PoolInv
<1>2. /\ running /\ owner' = owner /\ queue' = Append(queue, a) /\ ~IsFull
  BY <1>0 DEF Enqueue
<1>3. /\ a \notin executed /\ a \notin refused
      /\ ~Queued(a) /\ ~Running(a) /\ ~Inline(a)
  <2>1. ~Running(a) /\ ~Inline(a)
    BY <1>0, <1>1 DEF PoolInv, OneHolder, Running, Inline, Threads
  <2>2. QED BY <1>1, <2>1 DEF PoolInv, OneHolder, Offered
<1>4. StatusOf(a) = "offered" /\ StatusOf(a)' = "queued"
  BY <1>1, <1>3 DEF StatusOf
<1>5. \A y \in Tasks : y # a => StatusOf(y)' = StatusOf(y)
  BY <1>1 DEF StatusOf
<1>6. Status[a] = "offered" /\ Status' = [Status EXCEPT ![a] = "queued"]
  BY <1>1, <1>4, <1>5, StatusMove
<1>7. Phase = "open" /\ Phase' = Phase
  BY <1>2 DEF Phase, PoolInv, OwnerOrder
<1>8. MaxQueueSize > 0 => Len(queue) < MaxQueueSize
  BY <1>2, PoolAssumption DEF IsFull, PoolInv, TypeOK
<1>9. QED BY <1>0, <1>1, <1>2, <1>6, <1>7, <1>8 DEF Promise!Accept, Promise!Move

LEMMA RefusedRefuses ==
  ASSUME PoolInv, NEW t \in Threads, EnqueueRefused(t)
  PROVE  arg[t] \in Tasks /\ Promise!Refuse(arg[t])
<1>0. PICK a \in Tasks : a = arg[t]
  BY RefuseHolder DEF PoolInv
<1>1. /\ a \in Tasks /\ Offered(a) /\ a # None
      /\ \A x \in Tasks : (Offered(x)' <=> Offered(x) /\ x # a)
      /\ \A x \in Tasks : /\ (Queued(x)' <=> Queued(x))
                          /\ (Running(x)' <=> Running(x))
                          /\ (Inline(x)' <=> Inline(x))
      /\ executed' = executed /\ refused' = refused \cup {a}
  BY <1>0, RefuseHolder, PoolAssumption DEF PoolInv, EnqueueRefused
<1>2. ~running /\ owner' = owner /\ queue' = queue /\ owner # "new"
  BY DEF EnqueueRefused, AtEnqueue, PoolInv, OwnerOrder, Threads, CallerOnly
<1>3. /\ a \notin executed /\ a \notin refused
      /\ ~Queued(a) /\ ~Running(a) /\ ~Inline(a)
  <2>1. ~Running(a) /\ ~Inline(a)
    BY <1>0, <1>1 DEF PoolInv, OneHolder, Running, Inline, Threads
  <2>2. QED BY <1>1, <2>1 DEF PoolInv, OneHolder, Offered
<1>4. StatusOf(a) = "offered" /\ StatusOf(a)' = "refused"
  BY <1>1, <1>3 DEF StatusOf
<1>5. \A y \in Tasks : y # a => StatusOf(y)' = StatusOf(y)
  BY <1>1 DEF StatusOf
<1>6. Status[a] = "offered" /\ Status' = [Status EXCEPT ![a] = "refused"]
  BY <1>1, <1>4, <1>5, StatusMove
<1>7. Phase \in {"closing", "closed"} /\ Phase' = Phase
  BY <1>2 DEF Phase, PoolInv, OwnerOrder
<1>8. QED BY <1>0, <1>1, <1>2, <1>6, <1>7 DEF Promise!Refuse, Promise!Move

(* A task returns, in a worker or in the caller. *)
LEMMA FinishFinishes ==
  ASSUME PoolInv, NEW t \in Threads, cur[t] # None,
         cur' = [cur EXCEPT ![t] = None], executed' = executed \cup {cur[t]},
         UNCHANGED <<owner, queue, arg, refused>>
  PROVE  /\ cur[t] \in Tasks
         /\ t \in Workers => Promise!Finish(cur[t])
         /\ t \in Callers => Promise!FinishInline(cur[t])
<1>1. PICK c \in Tasks : c = cur[t]
  BY DEF PoolInv, TypeOK
<1>2. \A x \in Tasks : /\ (Queued(x)' <=> Queued(x))
                     /\ (Offered(x)' <=> Offered(x))
                     /\ (Running(x)' <=> Running(x) /\ x # c)
                     /\ (Inline(x)' <=> Inline(x) /\ x # c)
  BY <1>1, FinishHolder DEF PoolInv
<1>3. Running(c) \/ Inline(c)
  BY <1>1 DEF Running, Inline, Threads
<1>4. c \notin executed /\ c \notin refused /\ ~Queued(c)
  BY <1>1, <1>3 DEF PoolInv, OneHolder
<1>5. /\ t \in Workers => Running(c)
      /\ t \in Callers => ~Running(c) /\ Inline(c)
  BY <1>1, PoolAssumption DEF Running, Inline, PoolInv, OneHolder, Threads
<1>6. /\ StatusOf(c) = IF t \in Workers THEN "running" ELSE "inline"
      /\ StatusOf(c)' = "done"
  <2>1. executed' = executed \cup {c}
    BY <1>1
  <2>2. StatusOf(c)' = "done"
    BY <2>1 DEF StatusOf
  <2>3. QED BY <1>3, <1>4, <1>5, <2>2 DEF StatusOf, Threads
<1>7. \A y \in Tasks : y # c => StatusOf(y)' = StatusOf(y)
  <2>1. executed' = executed \cup {c} /\ refused' = refused
    BY <1>1
  <2>2. QED BY <1>2, <2>1 DEF StatusOf
<1>8. Status[c] = StatusOf(c) /\ Status' = [Status EXCEPT ![c] = "done"]
  BY <1>1, <1>6, <1>7, StatusMove
<1>9. Phase' = Phase
  BY DEF Phase
<1>10. QED
  BY <1>1, <1>6, <1>8, <1>9, PoolAssumption
     DEF Promise!Finish, Promise!FinishInline, Promise!Move

LEMMA CallRunOffers ==
  ASSUME PoolInv, NEW t \in Threads, NEW x \in Tasks, CallRun(t, x)
  PROVE  Promise!Offer(x)
<1>1. /\ \A y \in Tasks : (Offered(y)' <=> Offered(y) \/ y = x)
      /\ \A y \in Tasks : /\ (Queued(y)' <=> Queued(y))
                          /\ (Running(y)' <=> Running(y))
                          /\ (Inline(y)' <=> Inline(y))
      /\ UNCHANGED <<owner, queue, executed, refused>>
  BY CallRunHolder DEF PoolInv, CallRun
<1>2. /\ x \notin executed /\ x \notin refused
      /\ ~Queued(x) /\ ~Running(x) /\ ~Inline(x) /\ ~Offered(x)
  BY FreshTask DEF CallRun
<1>3. StatusOf(x) = "new" /\ StatusOf(x)' = "offered"
  BY <1>1, <1>2 DEF StatusOf
<1>4. \A y \in Tasks : y # x => StatusOf(y)' = StatusOf(y)
  BY <1>1 DEF StatusOf
<1>5. Status[x] = "new" /\ Status' = [Status EXCEPT ![x] = "offered"]
  BY <1>3, <1>4, StatusMove
<1>6. Phase # "unopened" /\ Phase' = Phase
  BY <1>1 DEF Phase, CallRun, NoThreads
<1>7. QED BY <1>1, <1>5, <1>6 DEF Promise!Offer, Promise!Move

LEMMA RunInlineBegins ==
  ASSUME PoolInv, NumThreads > 0, NEW t \in Callers, NEW x \in Tasks, RunInline(t, x)
  PROVE  Promise!BeginInline(x)
<1>1. /\ \A y \in Tasks : (Inline(y)' <=> Inline(y) \/ y = x)
      /\ \A y \in Tasks : /\ (Queued(y)' <=> Queued(y))
                          /\ (Running(y)' <=> Running(y))
                          /\ (Offered(y)' <=> Offered(y))
      /\ UNCHANGED <<owner, queue, executed, refused>>
  BY RunInlineHolder DEF PoolInv, RunInline
<1>2. /\ x \notin executed /\ x \notin refused
      /\ ~Queued(x) /\ ~Running(x) /\ ~Inline(x) /\ ~Offered(x)
  BY FreshTask DEF RunInline
<1>3. StatusOf(x) = "new" /\ StatusOf(x)' = "inline"
  BY <1>1, <1>2 DEF StatusOf
<1>4. \A y \in Tasks : y # x => StatusOf(y)' = StatusOf(y)
  BY <1>1, <1>2 DEF StatusOf
<1>5. Status[x] = "new" /\ Status' = [Status EXCEPT ![x] = "inline"]
  BY <1>3, <1>4, StatusMove
<1>6. Phase = "unopened" /\ Phase' = Phase
  BY <1>1, PoolAssumption DEF Phase, RunInline, NoThreads
<1>7. QED BY <1>1, <1>5, <1>6 DEF Promise!BeginInline, Promise!Move

(* A silent step of the threads is no step of TaskQueue; the owner's are.    *)
LEMMA QuietRefines ==
  ASSUME PoolInv, [Next]_vars, Quiet
  PROVE  Promise!Next \/ UNCHANGED <<Phase, queue, Status>>
<1>1. queue' = queue /\ Status' = Status
  BY QuietHolder, StatusStays DEF PoolInv, Quiet
<1>2. CASE owner' = owner
  BY <1>1, <1>2 DEF Phase
<1>3. CASE Start
  BY <1>1, <1>3 DEF Start, Phase, Promise!Next, Promise!Open
<1>4. CASE StartReturns
  BY <1>1, <1>4 DEF StartReturns, Phase
<1>5. CASE Stop
  BY <1>1, <1>5 DEF Stop, Phase, Promise!Next, Promise!Close
<1>6. CASE StopReturns
  <2>1. \A x \in Tasks : ~Running(x)
    BY <1>6, PoolAssumption DEF StopReturns, PoolInv, TypeOK, InRun, Running
  <2>2. \A x \in Tasks : Status[x] # "running"
    BY <2>1 DEF Status, StatusOf
  <2>3. Phase = "closing" /\ Phase' = "closed"
    BY <1>6 DEF StopReturns, Phase
  <2>4. QED BY <1>1, <2>2, <2>3 DEF Promise!Next, Promise!Settle
<1>7. QED
  BY <1>2, <1>3, <1>4, <1>5, <1>6
     DEF Next, vars, OwnerStep, WorkerStep, StartWorker, CheckRunning, TakeWaits,
         TakeNothing, TakeTask, FinishTask, RunStep, EnqueueWaits, EnqueueRefused,
         Enqueue, FinishInline, SpuriousWakeup, CallRun, RunInline

LEMMA InitRefines == Init => Promise!Init
<1> SUFFICES ASSUME Init PROVE Promise!Init
  OBVIOUS
<1>1. \A x \in Tasks : StatusOf(x) = "new"
  BY PoolAssumption
     DEF Init, StatusOf, Queued, Running, Inline, Offered, Threads
<1>2. QED BY <1>1 DEF Init, Promise!Init, Phase, Status

LEMMA StepRefines ==
  ASSUME NumThreads > 0, PoolInv, [Next]_vars
  PROVE  [Promise!Next]_<<Phase, queue, Status>>
<1>1. CASE Quiet
  BY <1>1, QuietRefines
<1>2. ASSUME NEW w \in Workers, TakeTask(w) PROVE Promise!Next
  BY <1>2, TakeTaskBegins DEF Promise!Next
<1>3. ASSUME NEW w \in Workers, FinishTask(w) PROVE Promise!Next
  <2>1. w \in Threads /\ cur[w] # None
    BY <1>3 DEF FinishTask, PoolInv, TypeOK, Threads
  <2>2. cur[w] \in Tasks /\ Promise!Finish(cur[w])
    BY <1>3, <2>1, FinishFinishes DEF FinishTask
  <2>3. QED BY <2>2 DEF Promise!Next
<1>4. ASSUME NEW t \in Threads, EnqueueRefused(t) \/ Enqueue(t) PROVE Promise!Next
  BY <1>4, RefusedRefuses, EnqueueAccepts DEF Promise!Next
<1>5. ASSUME NEW t \in Callers, FinishInline(t) PROVE Promise!Next
  <2>1. t \in Threads /\ cur[t] # None
    BY <1>5 DEF FinishInline, PoolInv, TypeOK, Threads
  <2>2. cur[t] \in Tasks /\ Promise!FinishInline(cur[t])
    BY <1>5, <2>1, FinishFinishes DEF FinishInline
  <2>3. QED BY <2>2 DEF Promise!Next
<1>6. ASSUME NEW t \in Threads, NEW x \in Tasks, CallRun(t, x) PROVE Promise!Next
  BY <1>6, CallRunOffers DEF Promise!Next
<1>7. ASSUME NEW t \in Callers, NEW x \in Tasks, RunInline(t, x) PROVE Promise!Next
  BY <1>7, RunInlineBegins DEF Promise!Next
<1>8. TypeOK
  BY DEF PoolInv
<1>9. QED BY <1>1, <1>2, <1>3, <1>4, <1>5, <1>6, <1>7, <1>8, StepKinds

(* A pool that is started with at least one thread keeps the promise of     *)
(* TaskQueue: bounded FIFO, at most once, nothing refused before stop(),    *)
(* nothing begun or executing after it.                                     *)
THEOREM PoolImplementsTaskQueue ==
  ASSUME NumThreads > 0
  PROVE  Spec => ImplementsTaskQueue
<1>1. Init => Promise!Init
  BY InitRefines
<1>2. Init => PoolInv
  BY InitPoolInv
<1>3. PoolInv /\ [Next]_vars => PoolInv'
  BY StepPoolInv
<1>4. PoolInv /\ [Next]_vars => [Promise!Next]_<<Phase, queue, Status>>
  BY StepRefines
<1>5. QED
  BY <1>1, <1>2, <1>3, <1>4, PTL
     DEF Spec, ImplementsTaskQueue, Promise!Spec, Promise!vars
=============================================================================
