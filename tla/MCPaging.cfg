CONSTANTS
  Processes = {1, 2}
  Entries = 7
  KernelIndex = 2
  KernelPages = 4
  UserPages = 4
  ByteBits = 2
  UserPage <- SecondPage
  Data = {2}
  Leftover = 1
SPECIFICATION Spec
INVARIANTS
  NoFault
  CachedIsCurrent
  UserFramesAreReached
PROPERTIES
  ImplementsAddressSpaces
