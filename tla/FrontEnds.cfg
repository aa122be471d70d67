CONSTANTS
  SIZE_MAX = 31
  MASK_BITS = 4
  MAX_ALLOCATION_SIZE = 7
  MAX_BINS = 6
  TOTAL_SPACE = 8
  BASES = {0, 3}
  LIMITS = {3, 8}
  REALLOC_INPLACE = TRUE
  Threads = {t1}
  CALLS = 5
  GRANULARITY = 8
  USIZE_MAX = 511
  POINTER_SIZE = 2
  CALLOC_ALIGN = 4
  AlignBytes = {1, 16, 24}
  ByteSizes = {0, 9, 511}
  Counts = {2, 57}
SPECIFICATION Spec
INVARIANTS ServedAsAsked
PROPERTIES RepliesTellTheTruth
CHECK_DEADLOCK FALSE
