---------------------------- MODULE Thread_proofs ----------------------------
(***************************************************************************)
(* Proofs about the Thread: its safety properties for any number of starts *)
(* (they all follow from ThreadInv), and that it implements JoinableTask.  *)
(***************************************************************************)
EXTENDS Thread, TLAPS

\* Where ThreadData::run() has not completed the task.
Unfinished == {"begin", "identified", "task", "joins"}

(* The handle says whether there is a body: a joined std::thread has ended, *)
(* and without one nothing was started.                                    *)
HandleFits ==
  /\ handle = "none" <=> body = "none"
  /\ handle = "joined" => body = "ended"
  /\ owner \in {"await", "asleep", "join", "destroy"} => handle = "joinable"
  /\ owner = "gone" => handle # "joinable"
  /\ owner = "spawn" => unjoined = (handle = "joinable")

(* The flags say how far the body is; while the owner is between setting    *)
(* started_ and the new std::thread, the last body can only be at its end. *)
FlagsFit ==
  /\ owner = "spawn" => body \in {"none", "leaving", "ended"}
  /\ started <=> owner = "spawn" \/ body \in Unfinished \cup {"completed", "cleared"}
  /\ threadId = IF body \in {"identified", "task", "joins", "completed"} THEN starts ELSE 0

(* The latch is up until the body has counted it down, and the owner waits  *)
(* for that.                                                               *)
LatchFits ==
  /\ latch = IF owner = "spawn" \/ body \in {"begin", "identified"} THEN 1 ELSE 0
  /\ body \in {"begin", "identified"} => owner \in {"await", "asleep"}

(* One start() at most has not completed its task.                         *)
RunsFit == starts = IF owner = "spawn" \/ body \in Unfinished THEN runs + 1 ELSE runs

ThreadInv == TypeOK /\ (Alive => HandleFits /\ FlagsFit /\ LatchFits /\ RunsFit)

LEMMA InitInv == Init => ThreadInv
<1> SUFFICES ASSUME Init PROVE ThreadInv
  OBVIOUS
<1>1. TypeOK
  <2>1. 0 \in 0 .. MaxStarts
    BY StartsAssumption
  <2>2. QED
    BY <2>1, Zenon DEF Init, TypeOK
<1>2. HandleFits
  BY DEF Init, HandleFits
<1>3. FlagsFit
  BY DEF Init, FlagsFit, Unfinished
<1>4. LatchFits /\ RunsFit
  BY DEF Init, LatchFits, RunsFit, Unfinished
<1>5. QED
  BY <1>1, <1>2, <1>3, <1>4 DEF ThreadInv

(* Every step of the owner and of the body preserves the invariant.        *)
LEMMA StepInv == ThreadInv /\ [Next]_vars => ThreadInv'
<1> SUFFICES ASSUME ThreadInv, [Next]_vars PROVE ThreadInv'
  OBVIOUS
<1> USE StartsAssumption
    DEF ThreadInv, TypeOK, Alive, HandleFits, FlagsFit, LatchFits, RunsFit, Unfinished,
        object, history
<1>1. CASE Start
  BY <1>1 DEF Start
<1>2. CASE Spawn
  BY <1>2 DEF Spawn
<1>3. CASE SpawnFails
  BY <1>3 DEF SpawnFails
<1>4. CASE AwaitSleeps
  BY <1>4 DEF AwaitSleeps
<1>5. CASE StartReturns
  BY <1>5 DEF StartReturns
<1>6. CASE Join
  BY <1>6 DEF Join
<1>7. CASE Joined
  BY <1>7 DEF Joined
<1>8. CASE Destroy
  BY <1>8 DEF Destroy
<1>9. CASE Identify
  BY <1>9 DEF Identify
<1>10. CASE CountDown
  BY <1>10 DEF CountDown
<1>11. CASE TaskJoins
  BY <1>11 DEF TaskJoins
<1>12. CASE TaskJoinReturns
  BY <1>12 DEF TaskJoinReturns
<1>13. CASE TaskCompletes
  BY <1>13 DEF TaskCompletes
<1>14. CASE TaskThrows
  BY <1>14 DEF TaskThrows
<1>15. CASE ClearId
  BY <1>15 DEF ClearId
<1>16. CASE ClearStarted
  BY <1>16 DEF ClearStarted
<1>17. CASE End
  BY <1>17 DEF End
<1>18. CASE UNCHANGED vars
  BY <1>18 DEF vars
<1>19. QED
  BY <1>1, <1>2, <1>3, <1>4, <1>5, <1>6, <1>7, <1>8, <1>9, <1>10, <1>11, <1>12, <1>13,
     <1>14, <1>15, <1>16, <1>17, <1>18
     DEF Next, Owner, Body

LEMMA InvInvariance == Spec => []ThreadInv
<1>1. QED
  BY InitInv, StepInv, PTL DEF Spec

(* The types of the thread's state are right in every state.               *)
THEOREM TypeInvariance == Spec => []TypeOK
<1>1. ThreadInv => TypeOK
  BY DEF ThreadInv
<1>2. QED
  BY <1>1, InvInvariance, PTL

(* Once start() has returned, tid() is the thread's id until the task is over *)
(* (start() waits on the latch, which the body counts down after it has set   *)
(* thread_id_).                                                               *)
THEOREM TidKnownInvariance == Spec => []TidKnown
<1>1. ThreadInv => TidKnown
  BY DEF ThreadInv, TypeOK, Alive, FlagsFit, LatchFits, Unfinished, TidKnown
<1>2. QED
  BY <1>1, InvInvariance, PTL

(* isRunning() FALSE means that the task of every start() was completed.      *)
THEOREM NotRunningInvariance == Spec => []NotRunningMeansRan
<1>1. ThreadInv => NotRunningMeansRan
  BY DEF ThreadInv, TypeOK, Alive, HandleFits, FlagsFit, RunsFit, Unfinished, NotRunningMeansRan
<1>2. QED
  BY <1>1, InvInvariance, PTL

(* ~Thread() never frees the object under a body that still uses it.          *)
THEOREM BodyOutlivedInvariance == Spec => []BodyOutlived
<1>1. ThreadInv => BodyOutlived
  BY DEF ThreadInv, TypeOK, Alive, HandleFits, BodyOutlived
<1>2. QED
  BY <1>1, InvInvariance, PTL

(* The program ends inside a Thread only when a std::thread cannot be made,   *)
(* when the task throws, or when start() finds a thread that was not joined.  *)
THEOREM TerminationCauses == Spec => TerminatesOnlyUnjoined
<1>1. ThreadInv /\ [Next]_vars
        => [owner' = "fault" /\ owner # "fault" => unjoined \/ SpawnFails \/ TaskThrows]_vars
  <2> SUFFICES ASSUME ThreadInv, Next, owner' = "fault", owner # "fault"
               PROVE  unjoined \/ SpawnFails \/ TaskThrows
    OBVIOUS
  <2>1. CASE Spawn
    BY <2>1 DEF Spawn, ThreadInv, Alive, HandleFits
  <2>2. CASE Owner /\ ~Spawn
    BY <2>2 DEF Owner, Start, AwaitSleeps, StartReturns, Join, Joined, Destroy
  <2>3. CASE Body
    BY <2>3 DEF Body, Identify, CountDown, TaskJoins, TaskJoinReturns, TaskCompletes, ClearId,
                ClearStarted, End, object, history
  <2>4. QED
    BY <2>1, <2>2, <2>3 DEF Next
<1>2. QED
  BY <1>1, InvInvariance, PTL DEF Spec, TerminatesOnlyUnjoined

(* A Thread is a JoinableTask: Spawn launches, TaskCompletes completes, Joined *)
(* joins, and every other step stutters or ends the program.                   *)
THEOREM ThreadImplementsJoinableTask == Spec => ImplementsJoinableTask
<1>1. Init => Abstract!Init
  BY DEF Init, Abstract!Init, Phase
<1>2. ThreadInv /\ [Next]_vars => [Abstract!Next]_<<Phase, runs>>
  <2> SUFFICES ASSUME ThreadInv, [Next]_vars PROVE [Abstract!Next]_<<Phase, runs>>
    OBVIOUS
  <2> USE DEF Phase
  <2>1. CASE Spawn
    <3>1. CASE handle = "joinable"
      BY <2>1, <3>1 DEF Spawn, history, Abstract!Next, Abstract!Fault
    <3>2. CASE handle # "joinable"
      BY <2>1, <3>2
         DEF Spawn, history, Abstract!Next, Abstract!Launch, ThreadInv, TypeOK, Alive,
             HandleFits, FlagsFit
    <3>3. QED
      BY <3>1, <3>2
  <2>2. CASE TaskCompletes
    BY <2>2
       DEF TaskCompletes, object, Abstract!Next, Abstract!Complete, ThreadInv, TypeOK, Alive, HandleFits
  <2>3. CASE Joined
    BY <2>3
       DEF Joined, history, Abstract!Next, Abstract!Join, ThreadInv, TypeOK, Alive, HandleFits
  <2>4. CASE SpawnFails \/ TaskThrows
    BY <2>4 DEF SpawnFails, TaskThrows, history, Abstract!Next, Abstract!Fault
  <2>5. CASE Owner /\ ~Spawn /\ ~Joined /\ ~SpawnFails
    BY <2>5
       DEF Owner, Start, AwaitSleeps, StartReturns, Join, Destroy, object, history
  <2>6. CASE Body /\ ~TaskCompletes /\ ~TaskThrows
    BY <2>6
       DEF Body, Identify, CountDown, TaskJoins, TaskJoinReturns, ClearId, ClearStarted, End,
           object, history, ThreadInv, TypeOK, Alive, HandleFits
  <2>7. CASE UNCHANGED vars
    BY <2>7 DEF vars, object, history
  <2>8. QED
    BY <2>1, <2>2, <2>3, <2>4, <2>5, <2>6, <2>7 DEF Next
<1>3. QED
  BY <1>1, <1>2, InvInvariance, PTL DEF Spec, ImplementsJoinableTask, Abstract!Spec
=============================================================================
