CONSTANTS
 MAX_BLOCK_SIZE=2
 MaxSizes={1,4}
 MaxItems=5
 MaxAllocs=1
 Second=10
 ClockNsecs={0,3,9}
 TimeoutNsecs=4
SPECIFICATION BlockingSpec
INVARIANTS
  MemorySound
  NoAssertionFails
  CountAgrees
PROPERTIES
  AnswersTrue
  ImplementsFifo
  WaiterWakes
CHECK_DEADLOCK FALSE
