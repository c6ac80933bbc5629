SPECIFICATION Spec
CONSTANTS
  Threads = {1, 2, 3}
  Instances = {1, 2, 3}
  Tasks = {1, 2}
  MaxActs <- MCActs
  MaxSessions = 3
  MaxEvents = 2
  Plans = {"serial", "overlap"}
INVARIANTS Agree StopIsNoCrash
PROPERTIES StartIsAnswered DeadIsNoticed
CHECK_DEADLOCK FALSE
