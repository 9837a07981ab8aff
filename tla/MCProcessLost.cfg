CONSTANTS
  MAX_PROGRAM_AMOUNT = 4
  Quantum = 1
  Priorities = {1}
  MaxNest = 1
  FirstThreadReturns = FALSE
  MemoryFails = TRUE
SPECIFICATION ProcessSpec
INVARIANT NoReadyLost
