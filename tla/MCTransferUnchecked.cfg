SPECIFICATION Spec
CONSTANTS
  c1 = c1
  c2 = c2
  f1 = f1
  f2 = f2
  a = a
  b = b
  Nobody = Nobody
  NoFile = NoFile
  Clients <- OneClient
  Files <- TwoFiles
  Names <- TwoNames
  MaxVersion = 2
  Faults = {"reset"}
  Ops = {"install","download","query"}
  Passwords = {"good","bad","empty"}
  Needs = {TRUE,FALSE}
  Beliefs = {TRUE,FALSE}
  Formats = {TRUE,FALSE}
CHECK_DEADLOCK FALSE
INVARIANT EveryDownloadIsChecked
