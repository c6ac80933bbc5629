SPECIFICATION Spec
CONSTANTS
  \* Recovery
  home = home  none = none  lan = lan  a1 = a1  a2 = a2  n1 = n1  n2 = n2
  Configs <- MCConfigs
  Ports = {a1, a2}
  Bypass = "ours"
  Pids = {n1, n2}
  NoPid = NoPid  Garbage = Garbage  NoBackup = NoBackup  Torn = Torn
  Modes = {"Tun", "SystemProxy"}
  Faults = {"none", "disk", "write", "kill", "gap", "switch"}
  \* Lists
  j1 = j1  j2 = j2  s1 = s1  p1 = p1  p2 = p2  f = f  g = g
  Jobs = {j1, j2}
  SubIds = {s1, p1, p2}
  FreeIds = {p1, p2}
  Ids <- MCIds
  Prints = {f, g}
  NoId = NoId
  Own = Own
  MaxServed = 2
  MaxOwn = 2
  MaxCommands = 2
  Starts <- MCStarts
  Hitches = {"none", "overlap", "crash"}
  \* Session
  c1 = c1  c2 = c2
SYMMETRY AnyJob
INVARIANTS BackupIsUsers UsersAtRest OrphanIsKnown DiskCatchesUp NoStrays
           NothingLeftRunning
PROPERTIES StrangersLive RefreshIsStable OrderChoosesNothing
CHECK_DEADLOCK FALSE
