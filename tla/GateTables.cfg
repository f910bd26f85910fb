SPECIFICATION MCSpec
CONSTANTS
  i1 = i1
  i2 = i2
  NoEntry = NoEntry
  Inputs <- TwoInputs
  MaxEpoch = 2
  MaxSeq = 4
INVARIANTS
  TablesFollowOutput
  HandoverIsSeen
  NoInputOvertakes
  NoLostBell
PROPERTIES
  LetterGetsIn
CHECK_DEADLOCK FALSE
