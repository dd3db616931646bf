CONSTANTS
  Readers = {r1}
  NSlots = 2
  SlotBytes = 3
  SnMod = 3
  NDEBUG = FALSE
  Sizes = {0, 1, 2, 3}
  MaxWrites = 8
SPECIFICATION Spec
INVARIANTS
  StallsAtWrap
  RingIInv
PROPERTIES
  ImplementsLossyLog
CHECK_DEADLOCK FALSE
