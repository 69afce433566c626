SPECIFICATION Spec
CONSTANTS
  Names = {n1}
  Servers = {s1, s2}
  Repos = {r1}
  Clients = {c1}
  Tuis = {t1}
  Concurrency = 1
  Cmds = {"scan", "install", "download", "addrepo", "removerepo"}
  Picks = {"scan", "install", "download", "addrepo", "removerepo", "untrack"}
  Faults = {"kill"}
  MaxRounds = 4
  None = None
  Nowhere = Nowhere
SYMMETRY Symmetry
INVARIANTS TypeOK Inv DeedsAreStored ScanIsStored NoGhostRows
CHECK_DEADLOCK FALSE
