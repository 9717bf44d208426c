SPECIFICATION OrderedSpec
CONSTANTS
  MaxPages = 4
  PageSize = 2
  BaseAddress = 4
  AddrSpace = 64
  Sizes = {0, 1, 3, 6, 7, 10}
  Aligns = {0, 1, 3, 4, 8}
  Tags <- MCTags
  KERNEL_TAG = 9
  Addrs <- MCAddrs
  RangeInputs <- MCRangeInputs
INVARIANTS BlocksIntact TableIsExact
PROPERTIES ReservedForever AllocatorSpec
CHECK_DEADLOCK FALSE
