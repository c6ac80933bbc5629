SPECIFICATION Spec
CONSTANTS
  Jobs = {j1}
  Modes = {"Tun"}
  Elevated = TRUE
  Overlap = TRUE
  Brisk = TRUE
  FAST_CRASH_LIMIT = 3
  MaxRequests = 2
INVARIANT DownWhenAskedFor
CHECK_DEADLOCK FALSE
