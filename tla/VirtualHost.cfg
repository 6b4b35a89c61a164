SPECIFICATION FairSpec
CONSTANTS
  s1 = s1
  s2 = s2
  Sessions = {s1, s2}
  User = "root"
  NoOne = NoOne
  NoJob = NoJob
  NoPath = "none"
  Paths <- MCPaths
  Dirs <- MCDirs
  Base <- MCBase
  Under <- MCUnder
  StagingPaths <- MCStaging
  TempDirs = {"/tmp"}
  Miners <- MCMiners
  SeedFiles <- MCSeedFiles
  SeedDirs <- MCSeedDirs
  Lures <- MCLures
  SystemFiles <- MCSystemFiles
  MaxFiles = 5
  MaxDirs = 2
  MaxFileBytes = 3
  MaxTotalBytes = 7
  Spool = "spool"
  History = "history"
  NohupOut = "nohup.out"
  Unit = "unit"
  ServiceExec = "/tmp/x"
  MaxOps = 12
  MaxFor = 2
  MaxWhile = 2
  MaxSubst = 1
  MaxAlias = 1
  MaxSource = 2
  ScriptOf <- MCScriptOf
  Scenes <- MCScenes
  Uploads <- MCUploads
  Edits = {1, 4}
  MaxJobs <- MCMaxJobs
INVARIANT QuotaKept
INVARIANT JobsExclusive
INVARIANT RelationSound
PROPERTY ImmutableKept
PROPERTY WaitersServed
CHECK_DEADLOCK FALSE
