CONSTANTS
  SIZE_MAX = 31
  MASK_BITS = 4
  MAX_ALLOCATION_SIZE = 7
  MAX_BINS = 6
  TOTAL_SPACE = 7
  BASES = {2}
  LIMITS = {5, 7}
  Aligns = {1, 2}
  Requests = {1, 2}
  ShrinkRequests = {0, 1}
  REALLOC_INPLACE = TRUE
  FRESH_AFTER_DROP = FALSE
SPECIFICATION ContentsSpec
INVARIANTS ZeroedReadsZero
