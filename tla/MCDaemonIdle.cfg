SPECIFICATION Spec
CONSTANTS
  NoFd = NoFd
  NoThread = NoThread
  MaxFd = 2
  MaxBacklog = 2
  MaxSignals = 1
PROPERTY StopsOnSignal
CHECK_DEADLOCK FALSE
