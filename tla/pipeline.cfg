CONSTANTS
  Lines <- AllShapes
  Total = 3
  Capacity = 1
  Chatter = 3
  MaxFails = 2

SPECIFICATION FairSpec

INVARIANTS
  TypeOK
  OkMeansWhole
  NothingStillWriting
  NeverBlamedDownstream

PROPERTIES
  Returns
  ChildrenEnd

CHECK_DEADLOCK FALSE
