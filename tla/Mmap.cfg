SPECIFICATION Spec
CONSTANTS
  PageSize = 2
  ChunkSize = 2
  MaxFile = 5
  MaxLength = 7
  SizeLimit = 16
INVARIANTS Accounted TouchesLiveMemory
