SPECIFICATION Spec
CONSTANTS
  Events = {e1, e2, e3}
  NFiles = 2
  Retention = 0
  Critical = 3
  FaultKinds <- AllFaults
  MaxFaults = 1
  MaxCrashes = 2
  MaxTime = 1
  Clean = Clean
  Garbage = Garbage
SYMMETRY Symmetry
INVARIANTS AcceptedKept NoHoles
PROPERTY SyncedStays
