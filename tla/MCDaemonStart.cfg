CONSTANTS
  first = first
  second = second
  third = third
  Instances = {first, second, third}
  Pid <- MCPid
  NoInstance = NoInstance
  MaxFile = 4
SPECIFICATION Spec
INVARIANTS
  TypeOK
  OneDaemon
  ServesAlone
  PidFileBeginsWithPid
  LockHolderHasFileOpen
CHECK_DEADLOCK FALSE
