----------------------------- MODULE MCScheduler -----------------------------
(***************************************************************************)
(* Scheduler with few PCBs, so that creation meets a full PCB_SET, and a   *)
(* short quantum, so that a time slice ends anywhere.                      *)
(***************************************************************************)
EXTENDS Scheduler
=============================================================================
