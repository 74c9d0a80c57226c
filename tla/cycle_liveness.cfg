CONSTANTS
  home = home
  root = root
  Foreign = Foreign
  NoSub = NoSub
  Bases = {home}
  SourceUuid <- OneSource
  Times = {1}
  Commands = {"snapshot", "run", "resume"}
  UsedModes = {"yes"}
  KeepAll = TRUE
  Outsiders = {}
  Orphans = TRUE
  FinishInSteps = FALSE
  FirstId = 1
  MaxId = 10
  Reserve = 6
  MaxFaults = 2

SPECIFICATION FairSpec

PROPERTIES
  ResumeCatchesUp
