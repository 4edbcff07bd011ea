CONSTANTS
  c1 = c1
  c2 = c2
  c3 = c3
  Conns = {c1, c2, c3}
  MaxWidth = 1
  MaxCommands = 1
  MaxProcs = 1
  MaxFd = 6
SPECIFICATION Spec
SYMMETRY Symmetry
INVARIANTS
  ConnectionsStayOpen
CHECK_DEADLOCK FALSE
