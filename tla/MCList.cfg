CONSTANTS
  Items = {i1, i2, i3}
  Lists = {ready, waiting}
  NULL = NULL
  MaxPos = 3
SPECIFICATION Spec
SYMMETRY Interchangeable
INVARIANTS
  Mirrored
  PushedTwice
PROPERTY ImplementsListSpec
