CONSTANTS
  home = home
  Foreign = Foreign
  NoSub = NoSub
  Bases = {home}
  Series = home
  Times = {1, 2}
  Plain = {"dd"}
  Encrypted = {"gpg"}
  FixedOptions = TRUE
  UsedModes = {"yes"}
  Retains = FALSE
  CutAt <- AnyCall
  MaxId = 4
  MaxFaults = 1

SPECIFICATION FairSpec

INVARIANTS
  TypeOK
  ListedNeverPartial
  AnchorIsWhole

PROPERTIES
  OnlyPruneTakesData
  RawReportIsTrue
  RawRefinesArchive
  LatestIsBackedUp
