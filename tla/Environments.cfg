CONSTANTS
  PLATFORMS = {"array", "linux", "polkavm", "corevm", "wasm"}
  GRANULARITY = 4
  SIZE = 14
  SIZE_T = 32
  USIZE = 128
  HEAP_BASES = {6, 34, 42, 46}
  PAGE_SIZE = 8
  MEMORY_END = 47
  OTHERS = {8, 16, 32}
SPECIFICATION Spec
INVARIANTS MemoryIsBacked NothingLeaks
PROPERTIES OthersKeepTheirs ImplementsEnv
CHECK_DEADLOCK FALSE
