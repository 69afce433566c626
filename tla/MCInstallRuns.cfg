SPECIFICATION Spec
CONSTANTS
  Names = {n1, n2}
  Procs = {p1, p2}
  Files = {f1, f2, f3}
  NBlocks = 2
  Manifest = 1
  Kinds = {"install", "download"}
  Callings <- OwnOrShared
  Faults = {"kill", "cut", "disk", "tar"}
  MaxStarts = 2
  NoFile = NoFile
  NoCommand = NoCommand
SYMMETRY Symmetry
INVARIANTS TypeOK Inv CheckedInstallIsComplete CheckedDownloadIsComplete ThrowsOnlyWhenDisturbed LeavesNoDirectory
CHECK_DEADLOCK FALSE
