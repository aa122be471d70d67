CONSTANTS
  SIZE_MAX = 31
  MASK_BITS = 3
  MAX_ALLOCATION_SIZE = 4
  MAX_BINS = 4
  TOTAL_SPACE = 8
  BASES = {0, 2}
  LIMITS = {5, 8}
  Aligns = {1, 2}
  Requests = {0, 3}
  ShrinkRequests = {0, 2}
  REALLOC_INPLACE = FALSE
SPECIFICATION Spec
INVARIANTS ListsLinked EveryFreeChunkIsListed FittingChunkIsFound
PROPERTIES ImplementsContract
