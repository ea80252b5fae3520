\* Two connections and two fd numbers (the second reuses the first's fd or not), one loop; every closer of each.
CONSTANTS
  Fds <- MCFds
  MaxConns = 2
  NumLoops = 1
SPECIFICATION Spec
INVARIANTS TypeOK ClosedIsUnregistered
CHECK_DEADLOCK FALSE
