------------------------------- MODULE Console --------------------------------
(***************************************************************************)
(* The console, src/kernel/stdio.cpp, as its writers use it: processes and *)
(* kernel threads, which the timer may switch between any two accesses to  *)
(* the screen's memory and to the ports of the cursor.  The cursor is two  *)
(* registers, its high and its low byte, behind one port; a second port    *)
(* selects which.                                                          *)
(***************************************************************************)
EXTENDS Integers, Sequences

CONSTANTS
  Writers,
  Rows, Columns,   \* 25 and 80 in the code
  Base,            \* the values of one register, 256
  Newline, Blank   \* the characters '\n' and ' '

ASSUME ConsoleAssumption ==
  /\ Rows \in Nat \ {0} /\ Columns \in Nat \ {0} /\ Base \in Nat \ {0}
  /\ Rows * Columns < Base * Base

VARIABLES
  screen,    \* the character in each cell of the text memory
  index,     \* the register that is selected
  register,  \* the two halves of the cursor
  \* of each writer:
  pc,        \* what it does next
  text,      \* what is left of the string it prints
  count,     \* the characters of it that are printed
  position,  \* the locals cursor, pos and row of print, getCursor, moveCursor
  cell       \* the loop variable of rollUp
ports == <<index, register>>
consoleVars == <<screen, ports, pc, text, count, position, cell>>

Size == Rows * Columns
Cells == 0 .. Base * Base - 1
Halves == {"high", "low"}
Steps == {"idle", "print", "readHigh", "selectLow", "readLow", "put", "roll",
          "move", "writeHigh", "selectLowAgain", "writeLow"}

Cursor == register["high"] * Base + register["low"]

Goto(w, step) == pc' = [pc EXCEPT ![w] = step]
Select(half) == index' = half /\ UNCHANGED register
At(w, n) == position' = [position EXCEPT ![w] = n]

ConsoleInit ==
  /\ index \in Halves
  /\ pc = [w \in Writers |-> "idle"] /\ text = [w \in Writers |-> <<>>]
  /\ count = [w \in Writers |-> 0]
  /\ position = [w \in Writers |-> 0] /\ cell = [w \in Writers |-> 0]

\* The call of print(str).
PrintString(w, string) ==
  /\ pc[w] = "idle"
  /\ Goto(w, "print") /\ text' = [text EXCEPT ![w] = string]
  /\ count' = [count EXCEPT ![w] = 0]
  /\ UNCHANGED <<screen, ports, position, cell>>

PrintReturns(w) ==
  /\ pc[w] = "print" /\ text[w] = <<>>
  /\ Goto(w, "idle")
  /\ UNCHANGED <<screen, ports, text, count, position, cell>>

\* getCursor
SelectHigh(w) ==
  /\ pc[w] = "print" /\ text[w] # <<>>
  /\ Select("high") /\ Goto(w, "readHigh")
  /\ UNCHANGED <<screen, text, count, position, cell>>

ReadHigh(w) ==
  /\ pc[w] = "readHigh"
  /\ At(w, register[index] * Base) /\ Goto(w, "selectLow")
  /\ UNCHANGED <<screen, ports, text, count, cell>>

SelectLow(w) ==
  /\ pc[w] = "selectLow"
  /\ Select("low") /\ Goto(w, "readLow")
  /\ UNCHANGED <<screen, text, count, position, cell>>

ReadLow(w) ==
  /\ pc[w] = "readLow"
  /\ At(w, position[w] + register[index]) /\ Goto(w, "put")
  /\ UNCHANGED <<screen, ports, text, count, cell>>

\* print(c): the character, and the cell behind it.
PutGlyph(w) ==
  /\ pc[w] = "put" /\ Head(text[w]) # Newline
  /\ screen' = [screen EXCEPT ![position[w]] = Head(text[w])]
  /\ IF position[w] + 1 = Size
     THEN Goto(w, "roll") /\ At(w, Size - Columns)
     ELSE Goto(w, "move") /\ At(w, position[w] + 1)
  /\ cell' = [cell EXCEPT ![w] = 0]
  /\ UNCHANGED <<ports, text, count>>

PutNewline(w) ==
  /\ pc[w] = "put" /\ Head(text[w]) = Newline
  /\ LET row == position[w] \div Columns
     IN IF row = Rows - 1
        THEN Goto(w, "roll") /\ At(w, row * Columns)
        ELSE Goto(w, "move") /\ At(w, (row + 1) * Columns)
  /\ cell' = [cell EXCEPT ![w] = 0]
  /\ UNCHANGED <<screen, ports, text, count>>

\* Mutant: the last cell of the last row but one is blanked as well.
RollOneShort(w) ==
  LET k == cell[w]
  IN /\ pc[w] = "roll"
     /\ screen' = [screen EXCEPT ![k] = IF k + Columns + 1 < Size THEN screen[k + Columns]
                                        ELSE Blank]
     /\ cell' = [cell EXCEPT ![w] = k + 1]
     /\ IF k + 1 = Size THEN Goto(w, "move") ELSE UNCHANGED pc
     /\ UNCHANGED <<ports, text, count, position>>

\* rollUp, one cell after the other: the last row is blanked, the others copied.
Roll(w) ==
  LET k == cell[w]
  IN /\ pc[w] = "roll"
     /\ screen' = [screen EXCEPT ![k] = IF k + Columns < Size THEN screen[k + Columns]
                                        ELSE Blank]
     /\ cell' = [cell EXCEPT ![w] = k + 1]
     /\ IF k + 1 = Size THEN Goto(w, "move") ELSE UNCHANGED pc
     /\ UNCHANGED <<ports, text, count, position>>

\* moveCursor(position) returns, and with it print(c), if that called it.
Moved(w) ==
  /\ Goto(w, "print")
  /\ IF text[w] = <<>>
     THEN UNCHANGED <<text, count>>
     ELSE /\ text' = [text EXCEPT ![w] = Tail(@)]
          /\ count' = [count EXCEPT ![w] = @ + 1]

EnterMoveCursor(w) ==
  /\ pc[w] = "move"
  /\ IF position[w] >= Size
     THEN Moved(w) /\ UNCHANGED ports
     ELSE Select("high") /\ Goto(w, "writeHigh") /\ UNCHANGED <<text, count>>
  /\ UNCHANGED <<screen, position, cell>>

WriteHigh(w) ==
  /\ pc[w] = "writeHigh"
  /\ register' = [register EXCEPT ![index] = (position[w] \div Base) % Base]
  /\ Goto(w, "selectLowAgain")
  /\ UNCHANGED <<screen, index, text, count, position, cell>>

\* Mutant: the low byte is written without its index.
SelectLowAgainForgotten(w) ==
  /\ pc[w] = "selectLowAgain"
  /\ Goto(w, "writeLow")
  /\ UNCHANGED <<screen, ports, text, count, position, cell>>

SelectLowAgain(w) ==
  /\ pc[w] = "selectLowAgain"
  /\ Select("low") /\ Goto(w, "writeLow")
  /\ UNCHANGED <<screen, text, count, position, cell>>

WriteLow(w) ==
  /\ pc[w] = "writeLow"
  /\ register' = [register EXCEPT ![index] = position[w] % Base]
  /\ Moved(w)
  /\ UNCHANGED <<screen, index, position, cell>>

\* The call of moveCursor(x, y), also by the system call move_cursor.
MoveTo(w, x, y) ==
  /\ pc[w] = "idle"
  /\ IF x < Rows /\ y < Columns
     THEN Goto(w, "move") /\ At(w, x * Columns + y)
     ELSE UNCHANGED <<pc, position>>
  /\ count' = [count EXCEPT ![w] = 0]
  /\ UNCHANGED <<screen, ports, text, cell>>

\* print(x, y, c, color)
PrintAt(w, x, y, c) ==
  /\ pc[w] = "idle"
  /\ screen' = IF x < Rows /\ y < Columns
               THEN [screen EXCEPT ![x * Columns + y] = c] ELSE screen
  /\ UNCHANGED <<ports, pc, text, count, position, cell>>

Step(w) ==
  \/ SelectHigh(w) \/ ReadHigh(w) \/ SelectLow(w) \/ ReadLow(w)
  \/ PutGlyph(w) \/ PutNewline(w) \/ Roll(w)
  \/ EnterMoveCursor(w) \/ WriteHigh(w) \/ SelectLowAgain(w) \/ WriteLow(w)

Settled == \A w \in Writers : pc[w] \in {"idle", "print"}

-----------------------------------------------------------------------------
\* Between two characters the registers hold the number of a cell of the
\* screen, "0-1999" in the code: at any other number print(c) never finds the
\* end of the screen, and moveCursor refuses to follow it (stdio.cpp:34-46,
\* 89-116).
CursorOnScreen == Settled => Cursor < Size
=============================================================================
