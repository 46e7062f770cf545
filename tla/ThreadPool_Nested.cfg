CONSTANTS
  NumThreads = 2
  MaxQueueSize = 2
  Callers = {c1, c2}
  Tasks = {t1, t2, t3, t4}
  Nested = TRUE
  None = None
SPECIFICATION FairSpec
INVARIANTS TypeOK QueueBounded NoLostWakeup
PROPERTIES ImplementsTaskQueue StopTerminates StopReleasesRun
CHECK_DEADLOCK FALSE
