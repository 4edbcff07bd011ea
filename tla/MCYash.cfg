CONSTANTS
  Lines = {"run", "run&", "pipe", "pipe&", "none", "fg", "bg", "jobs"}
  MaxCommands = 3
  HistorySize = 2
SPECIFICATION FairSpec
INVARIANTS
  TypeOK
  IdsIncrease
  StoredWithinHistory
  TerminalReturned
  FailsOnlyOnUnsetGroup
  PromptIgnoresControlZ
PROPERTIES
  LiveLostOnlyWithFirst
  PromptReturns
CHECK_DEADLOCK FALSE
