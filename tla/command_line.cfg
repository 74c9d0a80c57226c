CONSTANTS
  Hosts = {"here", "nas"}
  MountsOf <- TwoHosts
  Procs = {"p", "q"}
  Locks = {"lock"}
  LockOf <- SameLock
  Commands <- Used
  Initially <- OneBackup
  Directories <- SnapDirOnly
  Names <- ThreeNames
  HostName = "box"
  Restored = "restored"
  None = None

SPECIFICATION Spec

INVARIANTS
  TypeOK
  HooksPaired
  DoomedIsThere
  ListedPathsLeadBack

PROPERTIES
  DryRunsChangeNothing
  InventoryIsTrue
  DeletesWhatItMeant

CHECK_DEADLOCK FALSE
