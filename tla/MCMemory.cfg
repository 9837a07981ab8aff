CONSTANTS
  Processes = {1, 2, 3}
  KernelPages = 16
  TablePages = 11
  TableEntries = 2
  UserPages = 4
  PoolPages = 2
SPECIFICATION Spec
INVARIANTS
  TypeOK
  PrivateMemory
  OwnedIsAllocated
  KernelTable
  FirstTableIsShared
PROPERTIES
  ExitReleasesItsOwn
