CONSTANTS
  SIZE_MAX = 31
  MASK_BITS = 4
  MAX_ALLOCATION_SIZE = 7
  MAX_BINS = 6
  TOTAL_SPACE = 7
  BASES = {0, 3}
  LIMITS = {4, 12}
  Aligns = {1, 2, 3}
  Requests = {0, 1, 2, 3, 31}
  ShrinkRequests = {0, 1, 30}
  REALLOC_INPLACE = TRUE
SPECIFICATION Spec
INVARIANTS TypeOK ClientsOwnTheirChunks Tiling BackPointers Coalesced ListsLinked EveryFreeChunkIsListed MaskMatchesLists WithinCommittedMemory FittingChunkIsFound NoSharing
PROPERTY ShrinkKeepsTheAllocation

