SPECIFICATION FairSpec
CONSTANTS
  Jobs = {j1}
  Modes = {"SystemProxy"}
  Elevated = TRUE
  Overlap = FALSE
  Brisk = FALSE
  FAST_CRASH_LIMIT = 3
  MaxRequests = 4
INVARIANTS DownWhenAskedFor ConnectedIsWatched SettingsApplied ProxyFlagIsTrue
PROPERTIES DeathIsAnswered BootLoopStops
CHECK_DEADLOCK FALSE
