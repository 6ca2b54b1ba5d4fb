SPECIFICATION FairSpec
CONSTANTS
  Keys <- MCKeys
  ZeroKey = "z"
  Mix <- MCMix
  BucketBytes = 3
  DefaultCapacity = 8
  SizeLimit = 32
INVARIANTS Reachable LoadBound
PROPERTIES ImplementsSet CallsReturn
