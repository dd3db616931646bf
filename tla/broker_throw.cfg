CONSTANTS
  Producers = {p1}
  Consumers = {c1, c2}
  Filterings <- AllMatch
  Throws = TRUE
  MaxEvents = 2
  MaxDepth = 1
SPECIFICATION FairSpec
INVARIANTS
  PointersValid
  NoLeak
  StreamsWellFormed
PROPERTIES
  SilentOnceDestroyed
  LoopsUndisturbed
  CallsTakeEffect
CHECK_DEADLOCK FALSE
