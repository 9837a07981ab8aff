----------------------------- MODULE MCSemaphore -----------------------------
(* Two or four threads and a semaphore with up to two permits. *)
EXTENDS Semaphore
=============================================================================
