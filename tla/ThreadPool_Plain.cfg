CONSTANTS
  NumThreads = 2
  MaxQueueSize = 1
  Callers = {c1, c2}
  Tasks = {t1, t2, t3}
  Nested = FALSE
  None = None
SPECIFICATION StreamSpec
PROPERTIES AcceptedTaskIsBegun RunWaitsOnlyWhenOvertaken
