SPECIFICATION MCSpec
CONSTANTS
  e1 = e1
  e2 = e2
  v1 = v1
  v2 = v2
  Emitters <- OneEmitter
  Views <- OneView
  RingCap = 1
  BufferCap = 2
  HeldCap = 1
  MaxAttempts = 1
  MaxSeq = 2
  MaxEpoch = 1
  MaxLosses = 0
  MaxGen = 2
  PromptAnswers = FALSE
CHECK_DEADLOCK FALSE
INVARIANTS
  NoChunkMissed
