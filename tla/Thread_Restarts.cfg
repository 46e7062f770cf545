\* A thread that is started up to three times and destroyed at some point.
CONSTANT MaxStarts = 3
SPECIFICATION Spec
INVARIANTS
  TypeOK
  TidKnown
  NotRunningMeansRan
  BodyOutlived
PROPERTIES
  TerminatesOnlyUnjoined
  CallsReturn
  ImplementsJoinableTask
CHECK_DEADLOCK FALSE
