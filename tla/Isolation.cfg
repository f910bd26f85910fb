SPECIFICATION Spec
CONSTANTS
  a1 = a1
  a2 = a2
  s1 = s1
  s2 = s2
  Agents <- OneAgent
  Senders <- OneSender
  Structured <- OneAgent
  Addressings <- Single
  MAILBOX_CAP = 2
  NOTICE_CAP = 1
  HISTORY_CAPACITY = 3
  PARK_TTL = 1
  MaxLetters = 1
  MaxEpoch = 1
  Requesters <- NoAgents
  Deletable <- NoAgents
  ClockRuns = FALSE
INVARIANTS
  NoIsolation
CHECK_DEADLOCK FALSE
