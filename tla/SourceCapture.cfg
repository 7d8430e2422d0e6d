SPECIFICATION FairSpec
CONSTANTS
  i1 = i1
  i2 = i2
  r1 = r1
  r2 = r2
  Invocations = {i1, i2}
  Requests = {r1, r2}
  Required = {r1}
  AttemptsPerGeneration = 1
  MaximumBytes = 2
  BodyBytes = 1
  maximumHostWorkflowIdentities = 3
  MaxParents = 2
  MaxPolicies = 2
  Plans <- CapturePlans
  Captures <- MCCaptures
  Owners <- MCOwners
  Budgets <- SmallBudgets
  DispatchSizes = {2}
  Baselines = {0, 1}
  InitialPolicies <- SmallPolicies
INVARIANTS AccountMatchesLedger WithinAllowance OneFetchPerCapture  NoDebtBehindSnapshot
PROPERTIES ReopenDisownsLateWrites  CollectionSettles
CHECK_DEADLOCK FALSE
