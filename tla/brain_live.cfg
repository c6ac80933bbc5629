SPECIFICATION FairSpec
CONSTANTS
  a = a  b = b  c = c
  Tags = {a, b, c}
  Safe = {a, b, c}
  ListOrder <- MCListOrder
  Delays = {1}
  Tolerance = 0
  Interval = 2
  PROBE_EVERY = 2
  RETRY_AFTER = 1
  FRESH = 3
  FAIL_LIMIT = 2
  STREAK = 2
  RECOVER_BASE = 3
  CHUNK = 1
  SAMPLES = 1
  MAX_DOUBLINGS = 1
  LongestStep = 1
  Strategies = {"Failover", "Fastest", "Rotate"}
  SteadyUp <- OneSteady
  CoreRefuses = FALSE
  MaxInstalls = 0
INVARIANT WatchedOnTime
PROPERTIES ReturnsHome EveryoneIsMeasured RotationVisitsAll DeadIsLeft
