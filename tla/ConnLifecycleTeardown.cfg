CONSTANTS
  Fds <- MCFds
  MaxConns <- MCMaxConns
  NumLoops = 2
SPECIFICATION Spec
INVARIANT TeardownIsolated
CHECK_DEADLOCK FALSE
