SPECIFICATION MCSpec
CONSTANTS
  q1 = q1
  q2 = q2
  q3 = q3
  c1 = c1
  c2 = c2
  Queries = {q1, q2, q3}
  Conns = {c1, c2}
  Ids = {1, 2}
  Names = {"w", "v", "r", "x", "y"}
  Writes = {"w", "v"}
  Reads = {"r"}
  Asks <- AskTables
  MaxLocal = 1
  MaxRetained = 1
INVARIANTS
  AppliedOnce
  OneReplyEach
PROPERTIES
  EveryQueryAnswered
CHECK_DEADLOCK FALSE
