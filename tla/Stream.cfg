SPECIFICATION Spec
CONSTANTS
  BufferSize = 2
  MaxChunk = 3
  MaxFile = 4
  MaxCalls = 4
  SizeLimit = 64
INVARIANTS NoByteLost PositionsAgree CloseLosesOnlyRefused InOrder EndMeansAll RemainingSuffices DescriptorOwnership
PROPERTIES EndIsFinal
