\* formatSI() of numbers that a double cannot hold.
CONSTANTS
  LastYear = 1900
  Stretch = 8
  Large = TRUE
SPECIFICATION Spec
INVARIANTS
  FiveCharactersSI
CHECK_DEADLOCK FALSE
