CONSTANTS
  Producers = {p1, p2}
  Consumers = {c1}
  Filterings <- AnyMatch
  Throws = FALSE
  MaxEvents = 2
  MaxDepth = 1
SPECIFICATION Spec
INVARIANTS
  StreamsFaithful
  EventsInOrder
  DrainedIsComplete
CHECK_DEADLOCK FALSE
