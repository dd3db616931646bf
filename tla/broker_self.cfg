CONSTANTS
  Producers = {p1}
  Consumers = {c1}
  Filterings <- AllMatch
  Throws = FALSE
  MaxEvents = 1
  MaxDepth = 1
SPECIFICATION Spec
INVARIANT RunningHandlerIntact
CHECK_DEADLOCK FALSE
