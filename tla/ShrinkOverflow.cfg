CONSTANTS
  SIZE_MAX = 31
  MASK_BITS = 4
  MAX_ALLOCATION_SIZE = 7
  MAX_BINS = 6
  TOTAL_SPACE = 6
  BASES = {0, 3}
  LIMITS = {6}
  Aligns = {1}
  Requests = {1, 2}
  ShrinkRequests = {1, 31}
  REALLOC_INPLACE = TRUE
SPECIFICATION Spec
PROPERTIES ShrinkKeepsTheAllocation
