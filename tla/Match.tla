------------------------------- MODULE Match -------------------------------
(***************************************************************************)
(* What a match promises its two players: a stomp costs the other one a    *)
(* life, the first to have none left has lost, and from then on nothing    *)
(* changes until somebody resets the game.                                 *)
(***************************************************************************)
EXTENDS Integers

CONSTANT INITIAL_LIVES

Player == {1, 2}

VARIABLES phase, lives

vars == <<phase, lives>>

Fresh == [p \in Player |-> INITIAL_LIVES]

Init == phase = "waiting" /\ lives = Fresh

Start ==
    /\ phase = "waiting"
    /\ phase' = "playing"
    /\ UNCHANGED lives

LoseLife(p) ==
    /\ phase = "playing"
    /\ lives[p] > 0
    /\ lives' = [lives EXCEPT ![p] = @ - 1]
    /\ phase' = IF lives[p] = 1 THEN "decided" ELSE "playing"

Reset == phase' = "waiting" /\ lives' = Fresh

Next == Start \/ (\E p \in Player : LoseLife(p)) \/ Reset

Spec == Init /\ [][Next]_vars
=============================================================================
