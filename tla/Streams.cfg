SPECIFICATION MCSpec
CONSTANTS
  k1 = k1
  k2 = k2
  k3 = k3
  Streams <- ThreeStreams
  MaxStreams = 2
  ResumeBuffer = 3
  Rewind = 3
  MaxSeq = 5
  MaxGeneration = 2
  MaxLinks = 2
  MaxWishes = 1
INVARIANTS
  WindowsAreBounded
  AnsweredIsCarried
PROPERTIES
  DeliveredInOrder
  WindowsClose
CHECK_DEADLOCK FALSE
