---------------------------- MODULE JoinableTask ----------------------------
(***************************************************************************)
(* What ThreadPool and log::Async expect of a Thread: once launched its    *)
(* task runs one time; joining waits for the end of it; it can be launched *)
(* again after that.  A fault ends the program.                            *)
(***************************************************************************)
EXTENDS Naturals

VARIABLES
  phase,   \* "ready", "running", "over" or "fault"
  runs     \* how many times the task was completed

Init == phase = "ready" /\ runs = 0

Launch == phase = "ready" /\ phase' = "running" /\ UNCHANGED runs

Complete == phase = "running" /\ phase' = "over" /\ runs' = runs + 1

Join == phase = "over" /\ phase' = "ready" /\ UNCHANGED runs

Fault == phase' = "fault" /\ UNCHANGED runs

Next == Launch \/ Complete \/ Join \/ Fault

Spec == Init /\ [][Next]_<<phase, runs>>
=============================================================================
