CONSTANTS
  WordChars = {"w", "p"}
  MaxLine = 5
  MaxTidy = 5
  Strays = {{}, {"p"}}
SPECIFICATION Spec
INVARIANTS
  SplitBySpaces
CHECK_DEADLOCK FALSE
