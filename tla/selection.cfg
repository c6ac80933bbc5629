SPECIFICATION Spec
CONSTANTS
  Servers = {a, b, c}
  Commands = {k1}
  Loop = Loop
  MaxCommands = 1
  MaxRefused = 0
INVARIANT RoutedIsTrue
CHECK_DEADLOCK FALSE
