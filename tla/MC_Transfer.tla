----------------------------- MODULE MC_Transfer ----------------------------
(* Reports of a keyboard that holds nothing, one key, and two opposite     *)
(* ones in both orders.                                                    *)
EXTENDS Transfer

Holding(first, second) == <<first, second, 0, 0, 0, 0>>

SomeReports == {Holding(0, 0), Holding(A, D), Holding(D, A)}
=============================================================================
