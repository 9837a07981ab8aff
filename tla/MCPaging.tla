------------------------------ MODULE MCPaging ------------------------------
(***************************************************************************)
(* Page tables of seven entries: two for the user's page tables, one for   *)
(* the kernel's, the last for the directory itself.  Bytes of two bits     *)
(* make exits free page tables from every other frame of the kernel.       *)
(***************************************************************************)
EXTENDS Paging

SecondPage == <<1, 2>>
=============================================================================
