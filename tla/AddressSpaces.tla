---------------------------- MODULE AddressSpaces ----------------------------
(***************************************************************************)
(* What fork and paging promise to programs: each process has memory of    *)
(* its own.  A process that is loaded finds something in it, one that is   *)
(* forked what its parent has there, and afterwards each process sees what *)
(* it has written itself.                                                  *)
(***************************************************************************)
CONSTANTS Processes, Offsets, Values

NoSpace == <<>>

VARIABLE space   \* of each process: its memory, a word for each offset, or NoSpace

Init == space = [p \in Processes |-> NoSpace]

Load(p) ==
  /\ space[p] = NoSpace
  /\ space'[p] \in [Offsets -> Values]
  /\ space' = [space EXCEPT ![p] = space'[p]]

Write(p, k, x) ==
  /\ space[p] # NoSpace
  /\ space' = [space EXCEPT ![p][k] = x]

Fork(p, q) ==
  /\ space[p] # NoSpace /\ space[q] = NoSpace
  /\ space' = [space EXCEPT ![q] = space[p]]

Exit(p) ==
  /\ space[p] # NoSpace
  /\ space' = [space EXCEPT ![p] = NoSpace]

Next ==
  \E p \in Processes :
    \/ Load(p) \/ Exit(p)
    \/ \E k \in Offsets, x \in Values : Write(p, k, x)
    \/ \E q \in Processes : Fork(p, q)

Spec == Init /\ [][Next]_space
=============================================================================
