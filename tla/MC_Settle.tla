------------------------------ MODULE MC_Settle ------------------------------
(* A clock of 32 values: the milliseconds wrap at 8.                        *)
EXTENDS Settle
==============================================================================
