CONSTANTS
  MaxStream = 2
  MaxLeft = 1
SPECIFICATION FairSpec
INVARIANTS
  TypeOK
  PatientLinesStayWhole
  PatientLinesPassReceiver
PROPERTIES
  EofEndsConnection
  DisconnectEndsShower
CHECK_DEADLOCK FALSE
