------------------------------ MODULE MCProcess ------------------------------
(***************************************************************************)
(* Process with a kernel thread and two or three processes: a parent with  *)
(* two children, and a grandchild that outlives its parent.                *)
(***************************************************************************)
EXTENDS Process
=============================================================================
