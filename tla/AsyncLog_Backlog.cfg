CONSTANTS
  BlockSize = 4
  MaxBlocks = 2
  LatchModulus = 4
  Notice = Notice
  None = None
  m1 = m1
  m2 = m2
  m3 = m3
  m4 = m4
  m5 = m5
  Messages = {m1, m2, m3, m4, m5}
  Size <- MCSize
  MaxStarts = 2
SPECIFICATION FairSpec
INVARIANTS TypeOK AssertsHold WrittenInOrder
PROPERTIES LineReachesFile StartsOnce StopsFinally
CHECK_DEADLOCK FALSE
