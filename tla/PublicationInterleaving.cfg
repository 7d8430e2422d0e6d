SPECIFICATION Spec
CONSTANTS
  g1 = g1
  g2 = g2
  p1 = p1
  p2 = p2
  p3 = p3
  c1 = c1
  c2 = c2
  r1 = r1
  r2 = r2
  Spine = Spine
  None = None
  Games <- ContentionGames
  Preparations <- ContentionPreparations
  GameOf <- ContentionGameOf
  Contents = {c1}
  Runners = {r1, r2}
  MaxGeneration = 1
  CompositionAttempts = 1
  FenceUsers = {"maintenance", "snapshot", "recovery", "release"}
  Perishable = {p1}
ACTION_CONSTRAINT WithinInstance
SYMMETRY ContentionSymmetry
INVARIANTS
  CompositionMatchesHeads
PROPERTIES
  FencedWorkOnlyAbandoned
  FinalPublicationIsFinal
  StaleRunnerIsFenced
CHECK_DEADLOCK FALSE
