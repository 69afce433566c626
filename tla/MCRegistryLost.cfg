SPECIFICATION Spec
CONSTANTS
  p1 = p1
  p2 = p2
  t1 = t1
  a = a
  b = b
  Torn = Torn
  Names <- TwoNames
  Procs <- TwoCommands
  Tuis <- NoTui
  Manifests <- SilentAndFull
  None = None
  Concurrency = 2
  Kinds = {"present", "attach", "remove", "clear"}
  Faults = {}
INVARIANT PresentedIsRegistered
