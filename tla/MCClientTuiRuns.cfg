SPECIFICATION TuiSpec
CONSTANTS
  n1 = n1
  n2 = n2
  s1 = s1
  r1 = r1
  r2 = r2
  Names <- TwoNames
  Servers <- OneServer
  Repos <- TwoRepos
  Clients = {c1}
  Tuis = {t1}
  Concurrency = 1
  Cmds = {}
  Picks = {"scan", "install", "download", "addrepo", "removerepo", "untrack"}
  Faults = {"kill"}
  MaxRounds = 4
  None = None
  Nowhere = Nowhere
  Rank <- Alphabetic
  Page = 2
INVARIANTS ScreenOK
PROPERTIES ImplementsClientDB
CHECK_DEADLOCK FALSE
