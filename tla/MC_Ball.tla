------------------------------ MODULE MC_Ball ------------------------------
(* One ball alone, in an arbitrary environment.                            *)
EXTENDS Ball
=============================================================================
