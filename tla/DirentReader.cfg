SPECIFICATION Spec
CONSTANTS
  Dirs <- MCDirs
  Length <- MCLength
  Dots <- MCDots
  MaxBatch = 2
  MaxDepth = 2
INVARIANTS AnswersStay
PROPERTIES ImplementsListing NextReturns
