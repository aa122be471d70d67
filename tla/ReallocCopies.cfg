CONSTANTS
  SIZE_MAX = 31
  MASK_BITS = 4
  MAX_ALLOCATION_SIZE = 7
  MAX_BINS = 6
  TOTAL_SPACE = 8
  BASES = {2}
  LIMITS = {8}
  Aligns = {1, 2}
  Requests = {1, 3}
  ShrinkRequests = {0, 1}
  REALLOC_INPLACE = FALSE
  FRESH_AFTER_DROP = TRUE
SPECIFICATION ContentsSpec
INVARIANTS HeadersIntact
