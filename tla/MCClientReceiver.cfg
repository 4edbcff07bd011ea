CONSTANTS
  MaxStream = 2
  MaxLeft = 1
SPECIFICATION Spec
INVARIANTS
  PatientLinesAreCommands
CHECK_DEADLOCK FALSE
