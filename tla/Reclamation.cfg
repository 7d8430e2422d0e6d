SPECIFICATION FairSpec
CONSTANTS
  p1 = p1
  p2 = p2
  p3 = p3
  Cleanups = {p1, p2}
  Keys = {1, 2, 3}
  MaxGeneration = 1
  MaxUnits = 2
  MaxWrites = 2
  MaxDeletes = 4
  Derived = {2}
  MaxUploads = 2
  MaxSnapshots = 2
  Plans <- ReclamationPlans
INVARIANTS
  DeletedStaysDeleted DeleteStaysInItsIncarnation
  ActiveWriterKeepsObject ReclaimedStaysGone BackupKeepsObjects
PROPERTIES DeleteSparesReferences DeleteSparesEvidence ChainEnds
CHECK_DEADLOCK FALSE
