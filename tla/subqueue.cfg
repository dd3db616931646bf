CONSTANTS
 Consumers={c1,c2}
 BLOCK_SIZE=2
 MAX_SUBQUEUE_SIZE=4
 INITIAL_INDEX_SIZE=2
 InitialBlockPoolSize=1
 ExplicitMallocFails={"index"}
 ImplicitMallocFails={"index","block"}
 MaxItems=5
 MaxOvercommit=2
 MaxBlocks=4
 ExplicitMaxBulk=2
 ImplicitMaxBulk=3
 DequeueMaxima={1,2}
SPECIFICATION Spec
INVARIANTS
  CountersAgree
  BlocksFound
  BlocksReturn
PROPERTIES
  ImplementsFifo
SYMMETRY Symmetry
CHECK_DEADLOCK FALSE
