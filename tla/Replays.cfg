SPECIFICATION MCSpec
CONSTANTS
  e1 = e1
  e2 = e2
  v1 = v1
  v2 = v2
  Emitters <- TwoEmitters
  Views <- TwoViews
  RingCap = 2
  BufferCap = 4
  HeldCap = 1
  MaxAttempts = 1
  MaxSeq = 3
  MaxEpoch = 2
  MaxLosses = 1
  MaxGen = 3
  PromptAnswers = TRUE
INVARIANTS
  NoChunkMissed
  ScreenHasNoHole
PROPERTIES
  ViewsCatchUp
CHECK_DEADLOCK FALSE
