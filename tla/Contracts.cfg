SPECIFICATION MCSpec
CONSTANTS
  boss = boss
  w1 = w1
  w2 = w2
  s1 = s1
  s2 = s2
  Agents <- Three
  Senders <- TwoThreads
  Sends <- AllSends
  MAX_OPEN_REQUESTS = 2
  HISTORY_CAPACITY = 2
  ReplyBy = 0
  MaxIds = 3
  MaxTime = 2
INVARIANTS
  SlotsSettle
  TrackedWhileNeeded
  OneVerdict
PROPERTIES
  ReplyCancelsNotice
  DeadlineIsMet
CHECK_DEADLOCK FALSE
