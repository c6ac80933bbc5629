SPECIFICATION FairSpec
CONSTANTS
  Jobs = {j1}
  Modes = {"SystemProxy"}
  Elevated = TRUE
  Overlap = FALSE
  Brisk = FALSE
  FAST_CRASH_LIMIT = 3
  MaxRequests = 2
PROPERTIES DeathIsReported
CHECK_DEADLOCK FALSE
