CONSTANTS
  NumThreads = 0
  MaxQueueSize = 1
  Callers = {c1}
  Tasks = {t1, t2}
  Nested = FALSE
  None = None
SPECIFICATION Spec
PROPERTIES NoTaskBegunAfterStop
CHECK_DEADLOCK FALSE
