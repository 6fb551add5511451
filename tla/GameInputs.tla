----------------------------- MODULE GameInputs -----------------------------
(* Key combinations for the bounded runs of the game.  Jump keys count on  *)
(* the floor only and boost keys only above it, so holding both stands for *)
(* either.                                                                 *)
Direction == {{}, {"left"}, {"right"}}
HoverKeys == Direction \cup {{"up", "boost"}}
JumpKeys  == Direction \cup {{"up"}}
=============================================================================
