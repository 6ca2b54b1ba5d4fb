SPECIFICATION FairSpec
CONSTANTS
  w1 = w1  w2 = w2  w3 = w3
  Workers = {w1, w2}
  Capacity = 1
  Faults = {"setup", "dispatch", "alloc", "open", "getdents64", "stat", "visit", "stop"}
  Entries <- FullEntries
  Root = "r"
  Parent <- FullParent
  Mode <- FullMode
  Target <- FullTarget
  UnknownType = {"u", "af"}
  Hidden = {"h"}
  TooLong = {"ll"}
  Accepted = {"r", "a", "af", "l", "ll", "u", "h"}
  Descended <- FullEntries
  FollowSymlinks = TRUE
  IncludeHidden = FALSE
PROPERTIES ImplementsWalk QuietAfterDrain EventuallyReturns
