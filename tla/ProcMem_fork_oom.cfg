SPECIFICATION PmSpec
CONSTANTS
  PTask = {t1, t2}
  NumPages = 10
  MAX_ASID = 2
  USER_STACK_GROWN_MAX = 1
  ELF_MAX_REGIONS = 1
  MaxVmas = 2
  MaxRegion = 1
  MaxWraps = 1
  ForkFails = {"clone"}
INVARIANT PagesHeldOnce
CHECK_DEADLOCK FALSE
