CONSTANTS
  Groups = {g1, g2, g3, g4}
  MaxJobs = 3
  NoJob = NoJob
SPECIFICATION Spec
INVARIANTS
  TypeOK
  TableConsistent
  CompactWhileOrdered
PROPERTIES
  SlotNeverReassigned
  ImplementsLedger
CHECK_DEADLOCK FALSE
