CONSTANTS
  Hosts = {"here", "nas"}
  MountsOf <- TwoHosts
  Procs = {"p"}
  Locks = {"lock"}
  LockOf <- SameLock
  Commands <- ListOnly
  Initially <- OutsideSnaps
  Directories <- SnapDirOnly
  Names <- ThreeNames
  HostName = "box"
  Restored = "restored"
  None = None

SPECIFICATION Spec

INVARIANTS
  ListedPathsLeadBack

CHECK_DEADLOCK FALSE
