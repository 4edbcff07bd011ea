CONSTANTS
  Lines = {"pipe", "pipe&", "jobs", "fg", "bg", "blank", "c", "z", "d"}
  MaxStarts = 1
  MaxQueue = 2
  MaxJobs = 2
  NoJob = NoJob
SPECIFICATION FairSpec
PROPERTIES
  PromptReturns
  HangupEndsThread
  FreedOnlyAfterADeath
  ForegroundHeld
CHECK_DEADLOCK FALSE
