CONSTANTS
  N = 2
  readyPrograms = readyPrograms
  waiting = waiting
  NULL = NULL
  InitialCounter = 0
  MaxCounter = 2
  InterruptsOff = FALSE
SPECIFICATION Spec
INVARIANT HolderCanRun
