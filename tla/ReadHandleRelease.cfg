SPECIFICATION HandleSpec
CONSTANTS
  PageSize = 2
  ChunkSize = 2
  MaxFile = 4
  MaxLength = 0
  SizeLimit = 16
  Thresholds <- MCThresholds
  DefaultThreshold = 2
INVARIANT DestroyReleasesResources
