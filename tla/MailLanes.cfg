SPECIFICATION Spec
CONSTANTS
  a1 = a1
  a2 = a2
  Agents <- MCAgents
  MAILBOX_CAP = 2
  NOTICE_CAP = 1
  MaxLetters = 5
SYMMETRY Symmetry
INVARIANTS
  IInv
PROPERTIES
  NeverOvertaken
CHECK_DEADLOCK FALSE
