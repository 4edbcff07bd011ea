CONSTANTS
  Lines = {"run", "run&", "fg", "bg", "c", "z"}
  MaxStarts = 2
  MaxQueue = 1
  MaxJobs = 2
  NoJob = NoJob
SPECIFICATION FairSpec
INVARIANTS
  TypeOK
  LiveJobIsCandidate
  StopsAreRecorded
PROPERTIES
  FreedOnlyAfterADeath
  PromptReturns
CHECK_DEADLOCK FALSE
