SPECIFICATION FairConnections
CONSTANTS
  Conns = {c1, c2, c3}
  Fds = {3, 4, 5, 6}
  Free = Free
  NoFd = NoFd
  Fails = {"socket", "bind", "listen"}
INVARIANTS ConnTypeOK OwnDescriptors DoubleCloseConfined
PROPERTIES StopConverges StopHangsInAccept Accepted Released
CHECK_DEADLOCK FALSE
