SPECIFICATION FairSpec
CONSTANTS
  r1 = r1
  r2 = r2
  r3 = r3
  t1 = t1
  t2 = t2
  Requests <- TwoRequests
  Tags <- TwoTags
  TagOf <- OneShared
  MaxAttempts = 2
  QueueCap = 2
  RetiredCap = 1
INVARIANTS
  DialsAreBounded
  AnswersAreTrue
PROPERTIES
  EveryRequestSettles
CHECK_DEADLOCK FALSE
