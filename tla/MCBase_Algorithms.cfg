\* The algorithms of base/ against their reference definitions.
CONSTANTS
  LastYear = 2500
  Stretch = 24
  Large = FALSE
SPECIFICATION Spec
INVARIANTS
  DatesAgree
  TimesOfDayAgree
  LocalTimesInvert
  PostTransitionChooses
  FormatsFit
  IntegersReadBack
  LineEnds
CHECK_DEADLOCK FALSE
