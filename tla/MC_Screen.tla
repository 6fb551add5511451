------------------------------ MODULE MC_Screen ------------------------------
(* A screen of 10 by 8 pixels, characters of 2 by 2; at one of the places  *)
(* the right half of the character is cut off.                             *)
EXTENDS Screen

SomePlaces == {<<3, 3>>, <<4, 6>>, <<8, 2>>, <<1, 1>>, <<9, 3>>}
LeftHome   == <<4, 6>>
RightHome  == <<8, 2>>
==============================================================================
