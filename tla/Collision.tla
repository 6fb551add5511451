----------------------------- MODULE Collision -----------------------------
(***************************************************************************)
(* Who has stomped whom: module collision_detection (collision.sv), a      *)
(* combinational function of the two positions.                            *)
(***************************************************************************)
EXTENDS Integers

CONSTANTS
    Modulus,        \* 2^10
    Hit_Far,        \* 16: size of a character
    Hit_Near        \* 8: closer than this in height nobody is on top

(* Assumed by the module that composes the game. *)
CollisionAssumption ==
    /\ Modulus \in Nat /\ Hit_Far \in Nat /\ Hit_Near \in Nat \ {0}
    /\ Hit_Near <= Hit_Far

SignedNarrow(x) ==      \* fault: wires one bit too narrow
    LET half == Modulus \div 2
    IN  IF 2 * (x % half) >= half THEN (x % half) - half ELSE x % half

(* The X coordinates pass through signed 10-bit wires: the upper half of   *)
(* the register's range reads as negative.                                 *)
Signed(x) == IF 2 * x >= Modulus THEN x - Modulus ELSE x

InReach(x_0, x_1) ==
    LET d == Signed(x_0) - Signed(x_1) IN -Hit_Far < d /\ d <= Hit_Far

(* The Y coordinates are extended to 32 bits before they are subtracted,   *)
(* so the unsigned comparisons with -16 and -8 select a negative distance. *)
OnTop(y_a, y_b) == Hit_Near <= y_b - y_a /\ y_b - y_a <= Hit_Far

ball0_win(x_0, y_0, x_1, y_1) == InReach(x_0, x_1) /\ OnTop(y_0, y_1)

ball1_win(x_0, y_0, x_1, y_1) ==
    InReach(x_0, x_1) /\ ~OnTop(y_0, y_1) /\ OnTop(y_1, y_0)
=============================================================================
