SPECIFICATION FairConnections
CONSTANTS
  Conns = {c1}
  Fds = {3, 4}
  Free = Free
  NoFd = NoFd
  Fails = {}
PROPERTY QuitDisconnects
CHECK_DEADLOCK FALSE
