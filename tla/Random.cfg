SPECIFICATION RandomSpec
CONSTANTS
  Threads = {t1, t2}
  MaxLength = 3
  Lengths <- MCLengths
  Descriptors <- MCDescriptors
  MaxCalls = 2
INVARIANTS FilledOnce DescriptorsKept
