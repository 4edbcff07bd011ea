CONSTANTS
  WordChars = {"w"}
  MaxLine = 6
  MaxTidy = 13
  Strays = {{}, {"w"}, {"|"}}
SPECIFICATION Spec
INVARIANTS
  WordsFitArgv
  ListCoversBars
  ArgvIsWhatIsTyped
  StandaloneRunsWhatIsTyped
CHECK_DEADLOCK FALSE
