CONSTANTS
  BlockSize = 4
  MaxBlocks = 2
  LatchModulus = 4
  Notice = Notice
  None = None
  m1 = m1
  m2 = m2
  m3 = m3
  m4 = m4
  m5 = m5
  Messages = {m1}
  Size <- MCSize
  MaxStarts = 2
SPECIFICATION Spec
INVARIANTS BeginsRunning
CHECK_DEADLOCK FALSE
