SPECIFICATION FairSpec
CONSTANTS
  c1 = c1
  c2 = c2
  f1 = f1
  f2 = f2
  a = a
  b = b
  Nobody = Nobody
  NoFile = NoFile
  Clients <- OneClient
  Files <- TwoFiles
  Names <- TwoNames
  MaxVersion = 2
  Faults = {"reset","silent","quit","tar","disk"}
  Ops = {"install","download","query"}
  Passwords = {"good","bad","empty"}
  Needs = {TRUE,FALSE}
  Beliefs = {TRUE,FALSE}
  Formats = {TRUE,FALSE}
CHECK_DEADLOCK FALSE
INVARIANTS TypeOK UndisturbedIsComplete ServesOnlyAuthenticated BlockedOnlyByStaleBelief UncheckedOnlyWhenCut DiesOnlyOfLeavers
PROPERTIES CommandsEnd MutexIsReleased
