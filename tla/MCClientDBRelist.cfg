SPECIFICATION Spec
CONSTANTS
  Names = {n1}
  Servers = {s1}
  Repos = {r1}
  Clients = {c1}
  Tuis = {t1}
  Concurrency = 1
  Cmds = {}
  Picks = {"scan", "install", "download", "addrepo", "removerepo", "untrack"}
  Faults = {}
  MaxRounds = 5
  None = None
  Nowhere = Nowhere
SYMMETRY Symmetry
INVARIANTS EveryScanIsStored
CHECK_DEADLOCK FALSE
