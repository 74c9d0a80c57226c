CONSTANTS
  Hosts = {"here", "nas"}
  MountsOf <- TwoHosts
  Procs = {"p"}
  Locks = {"lock"}
  LockOf <- SameLock
  Commands <- Mirrored
  Initially <- OneBackup
  Directories <- SnapDirOnly
  Names <- ThreeNames
  HostName = "box"
  Restored = "restored"
  None = None

SPECIFICATION Spec

PROPERTIES
  DeletesWhatItMeant

CHECK_DEADLOCK FALSE
