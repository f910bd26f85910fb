SPECIFICATION OrderSpec
CONSTANTS
  a1 = a1
  a2 = a2
  s1 = s1
  s2 = s2
  Agents <- OneAgent
  Senders <- TwoSenders
  Structured <- NoAgents
  Addressings <- Single
  MAILBOX_CAP = 2
  NOTICE_CAP = 1
  HISTORY_CAPACITY = 3
  PARK_TTL = 1
  MaxLetters = 3
  MaxEpoch = 1
  Requesters <- OneAgent
  Deletable <- NoAgents
  ClockRuns = FALSE
SYMMETRY SenderSymmetry
INVARIANTS
  TicketsMatchBatches
  ArrivalOrder
PROPERTIES
  ImplementsLanes
CHECK_DEADLOCK FALSE
