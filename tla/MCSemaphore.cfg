CONSTANTS
  N = 4
  readyPrograms = readyPrograms
  waiting = waiting
  NULL = NULL
  InitialCounter = 1
  MaxCounter = 2
  InterruptsOff = TRUE
SPECIFICATION Spec
INVARIANTS
  TypeOK
  SleepersAreFound
  NoLostWakeup
  SpinWouldHang
