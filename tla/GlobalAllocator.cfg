CONSTANTS
  SIZE_MAX = 31
  MASK_BITS = 4
  MAX_ALLOCATION_SIZE = 7
  MAX_BINS = 6
  TOTAL_SPACE = 4
  BASES = {3}
  LIMITS = {4}
  REALLOC_INPLACE = TRUE
  Threads = {t1, t2}
  CALLS = 2
  GRANULARITY = 8
  USIZE_MAX = 511
  POINTER_SIZE = 2
  CALLOC_ALIGN = 4
  AlignBytes = {1}
  ByteSizes = {0, 9}
  Counts = {0}
SPECIFICATION Spec
INVARIANTS UnlockedReadIsStable
PROPERTIES ImplementsAllocator EveryCallReturns
CHECK_DEADLOCK FALSE
