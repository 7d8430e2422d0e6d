SPECIFICATION Spec
CONSTANTS
  g1 = g1
  g2 = g2
  p1 = p1
  p2 = p2
  p3 = p3
  c1 = c1
  c2 = c2
  r1 = r1
  r2 = r2
  Spine = Spine
  None = None
  Games <- AcceptanceGames
  Preparations <- AcceptancePreparations
  GameOf <- AcceptanceGameOf
  Contents = {c1, c2}
  Runners = {r1}
  MaxGeneration = 0
  CompositionAttempts = 1
  FenceUsers = {"snapshot", "recovery"}
  Perishable = {p1, p2}
ACTION_CONSTRAINT WithinInstance
SYMMETRY AcceptanceSymmetry
INVARIANTS
  ServedFactsAreAccepted
  PublicationInvariant
  PredecessorStaysQueryable
PROPERTIES
  UnchangedFactsAreStable
  PublicationKeepsPromise
CHECK_DEADLOCK FALSE
