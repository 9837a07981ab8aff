------------------------------ MODULE MCMemory ------------------------------
(***************************************************************************)
(* Memory with so few pages that every allocation of a creation fails in   *)
(* some behaviour, and frames, pages and PCBs are used again and again.    *)
(* The five pages behind the first page table are those of three further   *)
(* ones: a directory comes to need several, also in one allocation.        *)
(***************************************************************************)
EXTENDS Memory
=============================================================================
