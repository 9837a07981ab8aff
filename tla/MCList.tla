-------------------------------- MODULE MCList --------------------------------
(***************************************************************************)
(* Two lists that share three items, as readyPrograms and a waiting list   *)
(* do.  No operation tells one item or one list from another.              *)
(***************************************************************************)
EXTENDS List, TLC

Interchangeable == Permutations(Items) \cup Permutations(Lists)
=============================================================================
