CONSTANTS
  N = 2
  readyPrograms = readyPrograms
  waiting = waiting
  NULL = NULL
  InitialCounter = 1
  MaxCounter = 2
  InterruptsOff = FALSE
SPECIFICATION Spec
INVARIANTS
  LockExclusion
  NoUnderflow
  SleepIsJustified
