CONSTANTS
  Writers = {w1, w2}
  Rows = 3
  Columns = 2
  Base = 4
  Newline = 10
  Blank = 32
  Texts <- OneLetter
SPECIFICATION Spec
INVARIANTS
  CursorOnScreen
