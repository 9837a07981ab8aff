CONSTANTS
  Writer = w1
  Writers = {w1}
  Rows = 3
  Columns = 2
  Base = 4
  Newline = 10
  Blank = 32
  BufferLength = 2
  IntWidth = 5
  MaxCalls = 2
  Picture <- ScreenPicture
  Formats <- SomeFormats
  Strings <- SomeStrings
  Points <- SomePoints
  Glyphs = {33}
SPECIFICATION Spec
INVARIANTS
  PrintfTypeOK
  CursorOnScreen
PROPERTIES
  ImplementsTeletype
