CONSTANTS
  home = home
  t1 = t1
  t2 = t2
  Bases = {home}
  Foreign = Foreign
  NoSub = NoSub
  Roots = {home, t1, t2}
  Live = {home, t2}
  Snapshots <- OldSnapshot
  Backups <- TwoBackups
  Raws <- TwoRaws
  Starts <- HomeOrNot
  FirstTick = 5
  MaxTick = 8
  MaxAside = 2
  MaxFails = 1

SPECIFICATION Spec

INVARIANTS
  RestoreTypeOK
  CorrelatedHoldTheSame

PROPERTIES
  AsideStays
  OnlyStagingGoes
  NewDestIsRestored
  FailsOnlyWhenBlocked

CHECK_DEADLOCK FALSE
