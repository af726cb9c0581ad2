\* Two writers and a viewer; one writer may be killed anywhere.
SPECIFICATION FairSpec
CONSTANTS
  Writer = {w1, w2}
  Reader = {v1}
  MaxUnits = 2
  MaxRecords = 1
  MaxTime = 2
  MaxCrashes = 1
INVARIANTS TypeOK IndexLeadsToRecords
PROPERTIES ImplementsAtomicLog ViewFailsOnlyBeforeFirstRecord NobodyWaitsForever
