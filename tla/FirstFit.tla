------------------------------ MODULE FirstFit ------------------------------
(***************************************************************************)
(* What an allocator of runs of consecutive units promises its caller: a   *)
(* request for n units is answered with the lowest run of n free units,    *)
(* which becomes allocated, or with -1 exactly when there is no such run;  *)
(* nothing else changes.  BitMap.tla shows that the scanning loop of       *)
(* src/utils/bitmap.cpp keeps this promise.                                *)
(***************************************************************************)
EXTENDS Integers

CONSTANTS
  Length,    \* number of units managed
  MaxCount   \* largest request considered

VARIABLES
  allocated,   \* the units handed out
  request,     \* units asked for by the request being served, -1 if none
  reply        \* answer to the last request served

vars == <<allocated, request, reply>>

None == -1

Run(s, n) == s .. (s + n - 1)

\* A run of n free units starts at s.
FreeRun(used, s, n) == s + n <= Length /\ \A i \in Run(s, n) : i \notin used

Init == allocated = {} /\ request = None /\ reply = None

Ask(n) ==
  /\ request = None
  /\ request' = n
  /\ UNCHANGED <<allocated, reply>>

Grant(s) ==
  /\ request > 0
  /\ FreeRun(allocated, s, request)
  /\ \A t \in 0 .. (s - 1) : ~FreeRun(allocated, t, request)
  /\ allocated' = allocated \cup Run(s, request)
  /\ reply' = s
  /\ request' = None

Refuse ==
  /\ request # None
  /\ request > 0 => \A t \in 0 .. (Length - 1) : ~FreeRun(allocated, t, request)
  /\ reply' = None
  /\ request' = None
  /\ UNCHANGED allocated

Release(s, n) ==
  /\ request = None
  /\ Run(s, n) \subseteq allocated
  /\ allocated' = allocated \ Run(s, n)
  /\ UNCHANGED <<request, reply>>

Next ==
  \/ \E n \in 0 .. MaxCount : Ask(n)
  \/ \E s \in 0 .. (Length - 1) : Grant(s)
  \/ Refuse
  \/ \E s \in 0 .. (Length - 1), n \in 0 .. MaxCount : Release(s, n)

Spec == Init /\ [][Next]_vars
=============================================================================
