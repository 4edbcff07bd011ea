CONSTANTS
  c1 = c1
  c2 = c2
  Conns = {c1, c2}
  MaxWidth = 3
  MaxCommands = 2
  MaxProcs = 4
  MaxFd = 11
SPECIFICATION Spec
SYMMETRY Symmetry
INVARIANTS
  TypeOK
  PipesEndWithWriter
  NothingElseLeaks
  StagesConnected
CHECK_DEADLOCK FALSE
