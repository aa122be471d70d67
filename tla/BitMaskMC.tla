----------------------------- MODULE BitMaskMC -----------------------------
(***************************************************************************)
(* The bit mask with words of 4 bits; the 11 bins need 3 words, the last   *)
(* of them incomplete.                                                     *)
(***************************************************************************)
EXTENDS BitMaskMachine
=============================================================================
