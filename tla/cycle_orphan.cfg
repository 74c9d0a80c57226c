CONSTANTS
  home = home
  root = root
  Foreign = Foreign
  NoSub = NoSub
  Bases = {home}
  SourceUuid <- OneSource
  Times = {1}
  Commands = {"run", "prune"}
  UsedModes = {"yes"}
  KeepAll = FALSE
  Outsiders = {}
  Orphans = TRUE
  FinishInSteps = FALSE
  FirstId = 1
  MaxId = 8
  Reserve = 0
  MaxFaults = 1

SPECIFICATION Spec

PROPERTIES
  CommonPairKept
