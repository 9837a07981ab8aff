------------------------------ MODULE MCBitMap ------------------------------
(***************************************************************************)
(* BitMap with a length that is not a multiple of 8, so that a run can     *)
(* cross a byte boundary and the last byte has padding bits.               *)
(***************************************************************************)
EXTENDS BitMap
=============================================================================
