CONSTANTS
  home = home
  root = root
  Foreign = Foreign
  NoSub = NoSub
  Bases = {home, root}
  SourceUuid <- TwoSources
  Times = {1}
  Commands = {"snapshot", "run", "resume", "prune"}
  UsedModes = {"yes", "strict"}
  KeepAll = FALSE
  Outsiders <- OneOutsider
  Orphans = FALSE
  FinishInSteps = TRUE
  FirstId = 3
  MaxId = 8
  Reserve = 0
  MaxFaults = 1

SPECIFICATION Spec

INVARIANTS
  TypeOK
  ParentOnBothSides
  NeverSentTwice
  NameIsFree

PROPERTIES
  CommonPairKept
  ReportIsTrue
  SnapshotsOutliveMissingTarget
  CleanupTakesOnlyGarbled
  RefinesArchive
