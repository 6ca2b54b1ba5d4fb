SPECIFICATION Spec
CONSTANTS
  SizeLimit = 32
  MaxPath = 10
  MaxName = 3
  MaxRoot = 11
INVARIANTS OpensItsPath JoinsAnyBuffer
