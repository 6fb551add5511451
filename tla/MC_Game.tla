------------------------------ MODULE MC_Game ------------------------------
(* The whole game on a scaled field.                                       *)
EXTENDS Game, GameInputs
=============================================================================
