SPECIFICATION Spec
CONSTANTS
  c1 = c1
  c2 = c2
  f1 = f1
  f2 = f2
  a = a
  b = b
  Nobody = Nobody
  NoFile = NoFile
  Clients <- TwoClients
  Files <- TwoFiles
  Names <- TwoNames
  MaxVersion = 2
  Faults = {"operator"}
  Ops = {"install"}
  Passwords = {"good"}
  Needs = {FALSE}
  Beliefs = {FALSE}
  Formats = {FALSE}
SYMMETRY Sym
INVARIANTS Inv UndisturbedIsComplete UncheckedOnlyWhenCut DiesOnlyOfLeavers
