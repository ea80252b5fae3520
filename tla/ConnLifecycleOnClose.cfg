CONSTANTS
  Fds <- MCFds
  MaxConns <- MCMaxConns
  NumLoops = 1
SPECIFICATION Spec
INVARIANT OnCloseAtMostOnce
CHECK_DEADLOCK FALSE
