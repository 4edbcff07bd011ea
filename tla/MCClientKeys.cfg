CONSTANTS
  MaxStream = 2
  MaxLeft = 1
SPECIFICATION Spec
PROPERTIES
  KeysAreSent
CHECK_DEADLOCK FALSE
