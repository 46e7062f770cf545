------------------------------ MODULE TaskQueue ------------------------------
(***************************************************************************)
(* What a pginf::ThreadPool promises to the code that submits tasks,       *)
(* without threads, locks or condition variables:                          *)
(*                                                                         *)
(*   - an accepted task waits in a FIFO backlog of at most Capacity tasks  *)
(*     (0: no limit) and is begun at most once, in the order of acceptance;*)
(*   - a task is refused only after the pool was told to stop;             *)
(*   - when stop() has returned no task is executing and none is begun.    *)
(*                                                                         *)
(* ThreadPool.tla implements this specification.                           *)
(***************************************************************************)
EXTENDS Naturals, Sequences

CONSTANTS Tasks,      \* every task handed to run(), each at most once
          Capacity    \* bound of the backlog, 0 for an unbounded one

VARIABLES phase,      \* the life of the pool, as its owner sees it
          backlog,    \* accepted tasks not begun, oldest first
          status      \* where each task is

vars == <<phase, backlog, status>>

Init == /\ phase = "unopened"
        /\ backlog = <<>>
        /\ status = [x \in Tasks |-> "new"]

Move(x, from, to) == /\ status[x] = from
                     /\ status' = [status EXCEPT ![x] = to]

(* The owner: start(), stop() called, stop() returned. *)
Open == /\ phase = "unopened"
        /\ phase' = "open"
        /\ UNCHANGED <<backlog, status>>

Close == /\ phase = "open"
         /\ phase' = "closing"
         /\ UNCHANGED <<backlog, status>>

Settle == /\ phase = "closing"
          /\ \A x \in Tasks : status[x] # "running"
          /\ phase' = "closed"
          /\ UNCHANGED <<backlog, status>>

(* A call of run(): offered, then accepted or refused. *)
Offer(x) == /\ phase # "unopened"
            /\ Move(x, "new", "offered")
            /\ UNCHANGED <<phase, backlog>>

Accept(x) == /\ phase = "open"
             /\ Capacity > 0 => Len(backlog) < Capacity
             /\ Move(x, "offered", "queued")
             /\ backlog' = Append(backlog, x)
             /\ UNCHANGED phase

Refuse(x) == /\ phase \in {"closing", "closed"}
             /\ Move(x, "offered", "refused")
             /\ UNCHANGED <<phase, backlog>>

(* A task of the backlog is executed by the pool. *)
Begin == /\ phase \in {"open", "closing"}
         /\ backlog # <<>>
         /\ Move(Head(backlog), "queued", "running")
         /\ backlog' = Tail(backlog)
         /\ UNCHANGED phase

Finish(x) == /\ Move(x, "running", "done")
             /\ UNCHANGED <<phase, backlog>>

(* A pool that was never started executes the task in the caller. *)
BeginInline(x) == /\ phase = "unopened"
                  /\ Move(x, "new", "inline")
                  /\ UNCHANGED <<phase, backlog>>

FinishInline(x) == /\ Move(x, "inline", "done")
                   /\ UNCHANGED <<phase, backlog>>

Next == \/ Open \/ Close \/ Settle \/ Begin
        \/ \E x \in Tasks : \/ Offer(x) \/ Accept(x) \/ Refuse(x) \/ Finish(x)
                            \/ BeginInline(x) \/ FinishInline(x)

Spec == Init /\ [][Next]_vars
=============================================================================
