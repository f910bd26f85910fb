SPECIFICATION Spec
CONSTANTS
  a1 = a1
  a2 = a2
  s1 = s1
  s2 = s2
  Agents <- TwoAgents
  Senders <- OneSender
  Structured <- NoAgents
  Addressings <- FanOut
  MAILBOX_CAP = 1
  NOTICE_CAP = 1
  HISTORY_CAPACITY = 2
  PARK_TTL = 1
  MaxLetters = 3
  MaxEpoch = 1
  Requesters <- NoAgents
  Deletable <- NoAgents
  ClockRuns = FALSE
INVARIANTS
  LedgerTellsTruth
CHECK_DEADLOCK FALSE
