------------------------------ MODULE GameFsm ------------------------------
(***************************************************************************)
(* The game controller: module game_fsm (Game_controller.sv).  Open, like  *)
(* Ball: its input ports are the parameters of Frame.                      *)
(***************************************************************************)
EXTENDS Integers

CONSTANTS
    INITIAL_LIVES,  \* 3
    Lives_Max       \* 7: the largest value of a 3-bit lives register

(* Assumed by the module that composes the game. *)
FsmAssumption ==
    /\ INITIAL_LIVES \in Nat \ {0}
    /\ Lives_Max \in Nat
    /\ INITIAL_LIVES < Lives_Max

VARIABLES current_state, character1_lives, character2_lives

vars == <<current_state, character1_lives, character2_lives>>

States == {"IDLE", "PLAYING", "GAME_OVER"}   \* state_definition.sv

-----------------------------------------------------------------------------
Init ==
    /\ current_state = "IDLE"
    /\ character1_lives = INITIAL_LIVES
    /\ character2_lives = INITIAL_LIVES

Minus1Wide(lives) == lives - 1   \* fault: no wrap at the width

(* A 3-bit register counts down past 0 to its largest value.               *)
Minus1(lives) == IF lives = 0 THEN Lives_Max ELSE lives - 1

NextStateRematch(start_game) ==   \* fault: start restarts a finished match
    CASE current_state \in {"IDLE", "GAME_OVER"} /\ start_game -> "PLAYING"
      [] current_state = "PLAYING" /\ (character1_lives = 0 \/ character2_lives = 0)
           -> "GAME_OVER"
      [] OTHER -> current_state

NextStateOneSided(start_game) ==   \* fault: one player's lives not tested
    CASE current_state = "IDLE" /\ start_game -> "PLAYING"
      [] current_state = "PLAYING" /\ character1_lives = 0 -> "GAME_OVER"
      [] OTHER -> current_state

(* Only the asynchronous Reset leaves GAME_OVER: the Reset branch of the   *)
(* combinational case is never clocked in.                                 *)
NextState(start_game) ==
    CASE current_state = "IDLE" /\ start_game -> "PLAYING"
      [] current_state = "PLAYING" /\ (character1_lives = 0 \/ character2_lives = 0)
           -> "GAME_OVER"
      [] OTHER -> current_state

LivesAfterAlways(lives, stomped) ==   \* fault: the state is not tested
    IF stomped THEN Minus1(lives) ELSE lives

(* A stomped character loses a life while the match is on.                 *)
LivesAfter(lives, stomped) ==
    IF stomped /\ current_state = "PLAYING" THEN Minus1(lives) ELSE lives

(* posedge frame_clk, with Reset low.  The port characterN_stepped means   *)
(* that character N has stomped the other one.                             *)
Frame(character1_stepped, character2_stepped, start_game) ==
    /\ current_state' = NextState(start_game)
    /\ character1_lives' = LivesAfter(character1_lives, character2_stepped)
    /\ character2_lives' = LivesAfter(character2_lives, character1_stepped)

(* posedge Reset *)
ResetFsm ==
    /\ current_state' = "IDLE"
    /\ character1_lives' = INITIAL_LIVES
    /\ character2_lives' = INITIAL_LIVES

Next ==
    \/ ResetFsm
    \/ \E stepped1, stepped2, start_game \in BOOLEAN :
           Frame(stepped1, stepped2, start_game)

Spec == Init /\ [][Next]_vars

-----------------------------------------------------------------------------
TypeOK ==
    /\ current_state \in States
    /\ character1_lives \in 0 .. Lives_Max
    /\ character2_lives \in 0 .. Lives_Max
=============================================================================
