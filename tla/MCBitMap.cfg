CONSTANTS
  Length = 9
  MaxCount = 3
SPECIFICATION FairSpec
INVARIANTS
  TypeOK
  NothingSkipped
  PaddingClear
PROPERTIES
  ImplementsFirstFit
  AllocateReturns
