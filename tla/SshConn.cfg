SPECIFICATION MCSpec
CONSTANTS
  Conns = {c1, c2, c3}
  IPs = {a, b}
  MaxConcurrent = 3
  MaxPerIP = 2
  TarpitSlots = 1
  MaxRealities = 1
  RealityTTL = 0
  PanicSites = {"shell"}
  CommandKinds = {"plain", "credential"}
  MaxFaults = 0
  MaxTime = 1
  None = None
SYMMETRY Symmetry
INVARIANTS SlotsAccounted LiveListTruthful OneWorldPerSource
