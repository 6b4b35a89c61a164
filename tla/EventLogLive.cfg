SPECIFICATION FairSpec
CONSTANTS
  Events = {e1, e2}
  NFiles = 2
  Retention = 1
  Critical = 2
  FaultKinds <- RecoverableFaults
  MaxFaults = 1
  MaxCrashes = 0
  MaxTime = 2
  Clean = Clean
  Garbage = Garbage
PROPERTIES CloseReturns ExpiredRemoved LoggingResumes
