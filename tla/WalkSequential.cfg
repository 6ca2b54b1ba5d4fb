SPECIFICATION FairSpec
CONSTANTS
  Faults = {"setup", "alloc", "open", "getdents64", "stat", "visit", "stop"}
  Entries <- NestedEntries
  Root = "r"
  Parent <- NestedParent
  Mode <- NestedMode
  Target <- NestedTarget
  UnknownType = {"u", "x"}
  Hidden = {"h"}
  TooLong = {"ll", "af"}
  Accepted = {"r", "a", "aa", "af", "aaf", "l", "ll", "u", "h"}
  Descended <- NestedEntries
  FollowSymlinks = TRUE
  IncludeHidden = FALSE
INVARIANTS DescriptorsNested LeftMeansFinished
PROPERTIES FailureIsFinal ImplementsWalk
