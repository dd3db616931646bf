CONSTANTS
  Producers = {p1}
  Consumers = {c1, c2}
  Filterings <- AllMatch
  Throws = FALSE
  MaxEvents = 1
  MaxDepth = 2
SPECIFICATION Spec
PROPERTY LoopsUndisturbed
CHECK_DEADLOCK FALSE
