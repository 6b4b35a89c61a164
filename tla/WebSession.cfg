SPECIFICATION MCSpec
CONSTANTS
  Requests = {r1, r2, r3}
  IPs = {a}
  Targets = {t1, t2, Blank}
  UAs = {u1, Blank}
  Blank = Blank
  SelfOrigins = {}
  Evidence = {"none", "tool"}
  FpStripes = {u1, Blank}
  SessStripes = {r1, r2, r3}
  FpStripe <- MCFpStripe
  SessStripe <- OwnStripe
  MaxConcurrent = 2
  MaxSessions = 2
  PruneTo = 1
  LiveWindow = 0
  ResumeWindow = 1
  MaxTime = 2
  MaxRestarts = 1
  None = None
SYMMETRY Symmetry
INVARIANTS NoLostRequest LogOrdered IndexSound AutomationSticky NoTwinSessions SlotsAccounted NoStandstill
