SPECIFICATION MCSpec
CONSTANTS
  a1 = a1
  s1 = s1
  Agents <- OneAgent
  Senders <- OneSender
  Structured <- OneAgent
  Addressings <- Single
  MAILBOX_CAP = 2
  NOTICE_CAP = 1
  HISTORY_CAPACITY = 1
  PARK_TTL = 1
  MaxLetters = 2
  MaxEpoch = 2
  Requesters <- OneAgent
  Deletable <- OneAgent
  ClockRuns = TRUE
INVARIANTS
  LedgerTellsTruth
  IsolationIsKnown
PROPERTIES
  NeverSilentlyDropped
  EveryLetterSettles
CHECK_DEADLOCK FALSE
