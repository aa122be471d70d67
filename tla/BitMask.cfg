CONSTANTS
  SIZE_MAX = 255
  MASK_BITS = 4
  MAX_ALLOCATION_SIZE = 11
  MAX_BINS = 16
SPECIFICATION Spec
INVARIANTS TypeOK MaskRepresentsBins FindFirstIsLeast
