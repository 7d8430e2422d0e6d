SPECIFICATION ExportSpec
CONSTANTS
  c1 = c1
  c2 = c2
  c3 = c3
  d1 = d1
  d2 = d2
  y1 = y1
  y2 = y2
  Confirmations = {d1, d2}
  RetryKeys = {y1, y2}
  Calls = {c1, c2, c3}
  ObjectCount = 2
  MaxRevision = 2
  Scenarios <- DeletionScenarios
SYMMETRY CallSymmetry
INVARIANTS
  DeletedIsGone PartialPackageIsHidden ManifestGoesLast
  ConfirmationIsReplayed UnansweredRetryOwnsDeletion
CHECK_DEADLOCK FALSE
