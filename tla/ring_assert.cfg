CONSTANTS
  Readers = {r1}
  NSlots = 2
  SlotBytes = 2
  SnMod = 16
  NDEBUG = FALSE
  Sizes = {0, 1, 2, 3, 5}
  MaxWrites = 2
SPECIFICATION Spec
INVARIANT AssertionHolds
CHECK_DEADLOCK FALSE
