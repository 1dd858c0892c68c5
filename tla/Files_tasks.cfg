CONSTANTS
  VfsMax = 2
  MaxFds = 3
  MaxFiles = 2
  FatPath <- MCFatPath
  SpiffsPath <- MCSpiffsPath
  Garbage = Garbage
  FatCut = FatCut
  Tasks = {t1, t2}
  Names = {a, b}
  NULL = NULL
SPECIFICATION Spec
SYMMETRY Symmetry
INVARIANTS SlotsMatchTable MountedIsUsable LockReleased
PROPERTIES ImplementsFileTable
CHECK_DEADLOCK FALSE
