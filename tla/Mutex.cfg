CONSTANTS
  Threads = {t1, t2, t3}
  CALLS = 2
SPECIFICATION Spec
INVARIANTS MutualExclusion NoStaleAccess FlagTellsTheTruth
PROPERTIES SpinnersGetIn
CHECK_DEADLOCK FALSE
