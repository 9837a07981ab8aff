------------------------------- MODULE Teletype -------------------------------
(***************************************************************************)
(* What the console of src/include/stdio.h promises to its one user: text  *)
(* appears character by character at the cursor, a line that is full or    *)
(* ended goes on at the start of the next, and below the last line the     *)
(* screen scrolls.                                                         *)
(***************************************************************************)
EXTENDS Naturals, Sequences

CONSTANTS Rows, Columns,
          Cells,     \* the cells of the memory the screen is the first part of
          Newline, Blank,
          Texts, Glyphs

VARIABLES
  shown,    \* what each cell shows
  cursor,
  todo      \* the text that was asked for and is not shown yet
vars == <<shown, cursor, todo>>

Size == Rows * Columns

Idle == todo = <<>>

\* The picture and the cursor at cell n, or at the start of a new last line.
Advance(picture, n) ==
  IF n < Size
  THEN shown' = picture /\ cursor' = n
  ELSE /\ shown' = [k \in Cells |-> IF k + Columns < Size THEN picture[k + Columns]
                                    ELSE IF k < Size THEN Blank
                                    ELSE picture[k]]
       /\ cursor' = n - Columns

Ask(t) == Idle /\ todo' = t /\ UNCHANGED <<shown, cursor>>

EndLine ==
  /\ ~Idle /\ Head(todo) = Newline
  /\ Advance(shown, (cursor \div Columns + 1) * Columns)
  /\ todo' = Tail(todo)

ShowGlyph ==
  /\ ~Idle /\ Head(todo) # Newline
  /\ Advance([shown EXCEPT ![cursor] = Head(todo)], cursor + 1)
  /\ todo' = Tail(todo)

MoveTo(n) == Idle /\ cursor' = n /\ UNCHANGED <<shown, todo>>

Place(n, g) == Idle /\ shown' = [shown EXCEPT ![n] = g] /\ UNCHANGED <<cursor, todo>>

Init == shown \in [Cells -> Nat] /\ cursor \in 0 .. Size - 1 /\ todo = <<>>

Next ==
  \/ EndLine \/ ShowGlyph
  \/ \E t \in Texts : Ask(t)
  \/ \E n \in 0 .. Size - 1 : MoveTo(n) \/ \E g \in Glyphs : Place(n, g)

Spec == Init /\ [][Next]_vars /\ WF_vars(EndLine \/ ShowGlyph)
=============================================================================
