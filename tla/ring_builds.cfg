CONSTANTS
  Readers = {r1}
  NSlots = 2
  SlotBytes = 2
  SnMod = 16
  NDEBUG = TRUE
  Sizes = {0, 1, 2, 3, 5}
  MaxWrites = 4
SPECIFICATION BuildsSpec
INVARIANTS
  PrefixOrWrapped
  OneSlotPerRead
  BytesInOrder
  WholeInDebug
PROPERTIES
  LappedNeverDelivers
  ReadableIsRead
  LossExplained
  ReadReturns
  CatchesUp
CHECK_DEADLOCK FALSE
