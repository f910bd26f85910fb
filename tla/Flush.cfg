SPECIFICATION MCSpec
CONSTANTS
  a1 = a1
  a2 = a2
  c1 = c1
  c2 = c2
  h1 = h1
  h2 = h2
  Agents <- TwoAgents
  Callers <- TwoCallers
  HostThreads <- TwoHosts
  MaxEpoch = 3
INVARIANTS
  RingsAreAccounted
  IncarnationsAppear
PROPERTIES
  ImplementsDoorbells
  RingsAreAnswered
