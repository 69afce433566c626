SPECIFICATION ConsoleSpec
CONSTANTS
  p1 = p1
  t1 = t1
  a = a
  b = b
  Torn = Torn
  Names <- TwoNames
  Procs <- CommandAndTui
  Tuis <- OneTui
  Manifests <- SilentAndFull
  None = None
  Concurrency = 1
  Kinds = {"present", "attach", "remove", "clear"}
  Faults = {"kill", "io"}
  Rank <- Alphabetic
  Page = 1
INVARIANTS TypeOK FormOK SelInList TidyAgrees FreshDaemonServes ManifestIsRegistered
PROPERTIES ImplementsRegistry ImplementsPackageSet
