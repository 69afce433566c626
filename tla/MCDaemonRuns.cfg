SPECIFICATION Spec
CONSTANTS
  NoFd = NoFd
  NoThread = NoThread
  MaxFd = 2
  MaxBacklog = 2
  MaxSignals = 2
INVARIANTS TypeOK Inv JoinedBeforeExit HellosGoOut
PROPERTIES BacklogIsServed InsistingEnds StopsWhenBusy
CHECK_DEADLOCK FALSE
