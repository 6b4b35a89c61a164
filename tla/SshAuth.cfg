SPECIFICATION MCSpec
CONSTANTS
  Conns = {c1, c2, c3}
  Sources = {a, b}
  Users = {u, v}
  Unknown = Unknown
  Passwords = {p, q}
  PoolSize = 1
  RotateAfter = 1
  BindingTTL = 0
  MaxBindings = 1
  MaxTime = 1
  MaxRestarts = 1
  MaxFaults = 1
  None = None
SYMMETRY Symmetry
INVARIANTS RecentKeepSlot
PROPERTY BindingSticks
