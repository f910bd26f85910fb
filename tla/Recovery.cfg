SPECIFICATION Spec
CONSTANTS
  d0 = d0
  a = a
  b = b
  Screens <- TwoScreens
  Default = d0
  MaxRuns = 3
  MaxEdits = 1
  MaxFaults = 2
INVARIANTS
  NoScreenIsLost
  DurableAnswerIsFinal
PROPERTIES
  OriginalsSurvive
  ChangesAreSaved
CHECK_DEADLOCK FALSE
