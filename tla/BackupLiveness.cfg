SPECIFICATION FairSpec
CONSTANTS
  a1 = a1
  a2 = a2
  r1 = r1
  r2 = r2
  None = None
  Attempts = {a1}
  Runners = {r1}
  FenceUsers = {}
  StepTries = 2
  MaxRevision = 1
  Plans <- FaultyPlans
PROPERTIES
  BackupSettles
  FenceIsTemporary
CHECK_DEADLOCK FALSE
