SPECIFICATION Spec
CONSTANTS
  a1 = a1
  a2 = a2
  r1 = r1
  r2 = r2
  None = None
  Attempts = {a1, a2}
  Runners = {r1, r2}
  FenceUsers = {}
  StepTries = 2
  MaxRevision = 1
  Plans <- SafetyPlans
SYMMETRY BackupSymmetry
INVARIANTS
  NewestBackupIsRetained
  BackupIsExclusive
  VerifiedBackupIsRestorable
  SnapshotIsQuiescent
  SearchReadyMeansIndexed
PROPERTIES
  RecoveryHoldsFences
CHECK_DEADLOCK FALSE
