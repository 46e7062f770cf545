\* Two threads log to a file that rolls, while the clock jumps and is set back.
CONSTANTS
  RollSize = 3
  FlushInterval = 0
  CheckEveryN = 2
  SecondsPerRoll = 4
  FirstSecond = 3
  LastSecond = 5
  MaxSetBack = 1
  Faults = TRUE
  Threads = {t1, t2}
  Zones = {utc, east}
  NoZone = utc
  Levels = {2, 5}
  Fatal = 5
  Sizes = {1, 4}
  MaxLines = 3
SPECIFICATION Spec
SYMMETRY Symmetry
INVARIANTS
  TypeOK
  FilesDistinct
  RolledBySize
  RolledByPeriod
  FlushedInTime
  TimeTextCurrent
  FatalOnDisk
CHECK_DEADLOCK FALSE
