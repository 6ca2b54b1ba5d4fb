SPECIFICATION Spec
CONSTANTS
  w1 = w1  w2 = w2  w3 = w3
  Workers = {w1, w2, w3}
  Capacity = 1
  Faults = {"setup", "push", "pop", "submit", "dispatch", "alloc", "visit", "stop"}
  Entries <- DeepEntries
  Root = "r"
  Parent <- DeepParent
  Mode <- DeepMode
  Target <- DeepTarget
  UnknownType = {}
  Hidden = {}
  TooLong = {}
  Accepted = {"r", "a", "b", "aa", "aaf"}
  Descended <- DeepEntries
  FollowSymlinks = FALSE
  IncludeHidden = TRUE
SYMMETRY Symmetry
INVARIANTS TypeOK OutstandingExact NoEarlyTermination BoundedOvershoot StatsExact OneTaskSuffices
