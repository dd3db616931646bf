CONSTANTS
 Consumers={c1}
 BLOCK_SIZE=2
 MAX_SUBQUEUE_SIZE=8
 INITIAL_INDEX_SIZE=2
 InitialBlockPoolSize=1
 ExplicitMallocFails={}
 ImplicitMallocFails={}
 MaxItems=6
 MaxOvercommit=2
 MaxBlocks=4
 ExplicitMaxBulk=3
 ImplicitMaxBulk=3
 DequeueMaxima={1,2}
SPECIFICATION Spec
INVARIANT IndexHasRoom
CHECK_DEADLOCK FALSE
