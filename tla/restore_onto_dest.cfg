CONSTANTS
  home = home
  t1 = t1
  t2 = t2
  Bases = {home}
  Foreign = Foreign
  NoSub = NoSub
  Roots = {home, t1, t2}
  Live = {home, t2}
  Snapshots <- OldSnapshot
  Backups <- TwoBackups
  Raws <- TwoRaws
  Starts <- HomeOrNot
  FirstTick = 5
  MaxTick = 8
  MaxAside = 2
  MaxFails = 0

SPECIFICATION Spec

PROPERTIES
  ReportedIsRestored

CHECK_DEADLOCK FALSE
