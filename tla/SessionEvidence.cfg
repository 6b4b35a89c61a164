SPECIFICATION Spec
CONSTANTS
  w1 = w1
  w2 = w2
  Sids = {"s1", "s2"}
  Goroutines = {"conn", "chan"}
  Workers = {w1, w2}
  Scenes <- MCScenes
  ReferrerWindow = 1
  Day = 2
  EffectBefore = 2
  EffectAfter = 1
  MaxTime = 7
INVARIANTS TranscriptWhole TracesFound
SYMMETRY Symmetry
CHECK_DEADLOCK FALSE
