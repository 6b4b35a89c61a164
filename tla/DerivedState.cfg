SPECIFICATION Spec
CONSTANTS
  Limits <- MCLimits
  Scenes <- MCScenes
  Sids = {"s1", "s2", "s3"}
  MaxRing = 4
  MaxPathKeys = 1
  MaxTimeline = 5
  MaxBehaviors = 4
  MaxSessions = 2
  PruneSlack = 1
  Hour = 3
  Retention = 6
  CritBytes = 12
  TargetBytes = 9
  MaxLives = 2
CHECK_DEADLOCK FALSE
INVARIANTS ReplayFaithful WithinBudget
PROPERTIES PeakIsReal HighlightsKept
