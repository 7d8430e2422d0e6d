SPECIFICATION Spec
CONSTANTS
  p1 = p1
  p2 = p2
  p3 = p3
  Cleanups = {p1, p2, p3}
  Keys = {1, 2, 3}
  MaxGeneration = 0
  MaxUnits = 2
  MaxWrites = 3
  MaxDeletes = 4
  Derived = {2}
  MaxUploads = 2
  MaxSnapshots = 2
  Plans <- SharedObject
INVARIANT ReferencedIsStored
CHECK_DEADLOCK FALSE
