CONSTANTS
  MAX_PROGRAM_AMOUNT = 3
  Quantum = 1
  Priorities = {1, 2}
  MaxNest = 2
  FirstThreadReturns = TRUE
SPECIFICATION FairSpec
INVARIANTS
  TypeOK
  ReadyQueue
  AllPrograms
  OneRunning
PROPERTIES
  FirstInFirstOut
  ReadyRuns
