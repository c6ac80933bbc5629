SPECIFICATION Spec
CONSTANTS
  a = a  b = b  c = c
  Tags = {a, b}
  Safe = {b}
  ListOrder <- MCListOrder2
  Delays = {1, 2}
  Tolerance = 0
  Interval = 2
  PROBE_EVERY = 2
  RETRY_AFTER = 1
  FRESH = 3
  FAIL_LIMIT = 2
  STREAK = 2
  RECOVER_BASE = 2
  CHUNK = 1
  SAMPLES = 2
  MAX_DOUBLINGS = 1
  LongestStep = 1
  Strategies = {"Manual", "Failover", "Fastest", "Rotate"}
  SteadyUp <- AnyServers
  CoreRefuses = TRUE
  MaxInstalls = 1
INVARIANTS TypeOK FragileLeftAlone SwitchIsVerified
PROPERTY BrainRefines
