SPECIFICATION MCFairSpec
CONSTANTS
  Conns = {c1, c2}
  IPs = {a}
  MaxConcurrent = 1
  MaxPerIP = 1
  TarpitSlots = 1
  MaxRealities = 1
  RealityTTL = 1
  PanicSites = {"connection", "exec"}
  CommandKinds = {"plain"}
  MaxFaults = 1
  MaxTime = 0
  None = None
PROPERTY SessionsEnd
