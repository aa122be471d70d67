CONSTANTS
  SIZE_MAX = 2147483647
  MASK_BITS = 64
  MAX_ALLOCATION_SIZE = 33554432
  MAX_BINS = 4096
  LeadingBits = 10
SPECIFICATION SizesSpec
INVARIANTS RoundDownIsLastReachedBin RoundUpIsFirstFittingBin
CHECK_DEADLOCK FALSE
