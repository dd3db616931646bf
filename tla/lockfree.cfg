CONSTANTS
 Producers = {p1, p2}
 Consumers = {c1, c2}
 BufferSize = 2
 MaxPuts = 2
 FreeThreads = {t1, t2, t3}
 Nodes = {n1, n2}
 NullNode = null
 SHOULD_BE_ON_FREELIST = 8
 RegistryThreads = {1, 2, 3}
 TokenThreads = {11, 12}
 RegistryCasts = {{1, 2, 3}, {1, 11, 12}}
 HashMod = 2
 InitialHashSize = 2
 MaxProducers = 4
 MaxTables = 3
 RotationCasts = {{r1}, {r2}, {r2, r3}}
 Plain = {r1}
 QUOTA = 2
 MaxBulk = 2
 MaxParties = 4
 MaxOffset = 2
SPECIFICATION MCSpec
INVARIANTS
  CellsSafe
  NothingStranded
  NodesSafe
  OwnProducer
  Findable
  EveryoneTried
  RotationKept
PROPERTIES
  AnswersTrue
  ImplementsFifo
CHECK_DEADLOCK FALSE
