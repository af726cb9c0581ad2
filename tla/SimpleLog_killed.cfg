SPECIFICATION Spec
CONSTANTS
  Writer = {w1, w2}
  Reader = {v1}
  MaxUnits = 1
  MaxRecords = 1
  MaxTime = 1
  MaxCrashes = 1
INVARIANTS IndexIsWholeRecords
