SPECIFICATION RecoverySpec
CONSTANTS
  home = home  none = none  lan = lan  p1 = p1  p2 = p2  n1 = n1  n2 = n2
  Configs <- MCConfigs
  Ports = {p1, p2}
  Bypass = "ours"
  Pids = {n1, n2}
  NoPid = NoPid  Garbage = Garbage  NoBackup = NoBackup  Torn = Torn
  Modes = {"Tun", "SystemProxy"}
  Faults = {"switch"}
INVARIANT NoDeadListener
