----------------------------- MODULE SharedConsole -----------------------------
(***************************************************************************)
(* The console with several writers: threads of the kernel that print, and *)
(* processes in the system calls write and move_cursor of                  *)
(* src/kernel/syscall.cpp, whose handler has enabled interrupts.           *)
(***************************************************************************)
EXTENDS Console

CONSTANT Texts   \* bound: what the writers print

Init ==
  /\ ConsoleInit /\ screen = [k \in Cells |-> Blank]
  /\ \E n \in 0 .. Size - 1 : register = [high |-> n \div Base, low |-> n % Base]

Next ==
  \E w \in Writers :
    \/ Step(w) \/ PrintReturns(w)
    \/ \E t \in Texts : PrintString(w, t)
    \/ \E x \in 0 .. Rows - 1, y \in 0 .. Columns - 1 : MoveTo(w, x, y)

Spec == Init /\ [][Next]_consoleVars
=============================================================================
