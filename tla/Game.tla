-------------------------------- MODULE Game --------------------------------
(***************************************************************************)
(* The two-player game as lab62.sv wires it: two balls, the collision      *)
(* detector and the controller, all clocked by the vertical sync of the    *)
(* display (VGA_VS) and all cleared by KEY[0].  Nothing else synchronises  *)
(* them: in one frame each component reads the registers the others had    *)
(* before it.                                                              *)
(***************************************************************************)
EXTENDS Integers

CONSTANTS
    Modulus, Ball_X_Max, Ball_Y_Max, Ball_Y_Center, ATM_field, Lift,
    Ball_X_Center0, X_Step0, Jump0,      \* parameters of ball0
    Ball_X_Center1, X_Step1, Jump1,      \* parameters of ball1
    Hit_Far, Hit_Near,                   \* of collision_detection
    INITIAL_LIVES, Lives_Max,            \* of game_fsm
    KeySets0, KeySets1                   \* what the players may hold down

VARIABLES
    BallX0, MotionX0, BallY0, MotionY0,
    BallX1, MotionX1, BallY1, MotionY1,
    current_state, character1_lives, character2_lives

ball0Vars == <<BallX0, MotionX0, BallY0, MotionY0>>
ball1Vars == <<BallX1, MotionX1, BallY1, MotionY1>>
fsmVars   == <<current_state, character1_lives, character2_lives>>
vars      == <<ball0Vars, ball1Vars, fsmVars>>

B0 == INSTANCE Ball WITH
        Ball_X_Center <- Ball_X_Center0, X_Step <- X_Step0, Jump <- Jump0,
        Jetpack <- FALSE,
        Ball_X_Pos <- BallX0, Ball_X_Motion <- MotionX0,
        Ball_Y_Pos <- BallY0, Ball_Y_Motion <- MotionY0
B1 == INSTANCE Ball WITH
        Ball_X_Center <- Ball_X_Center1, X_Step <- X_Step1, Jump <- Jump1,
        Jetpack <- TRUE,
        Ball_X_Pos <- BallX1, Ball_X_Motion <- MotionX1,
        Ball_Y_Pos <- BallY1, Ball_Y_Motion <- MotionY1
F == INSTANCE GameFsm
C == INSTANCE Collision

(* The components' own assumptions, and that the two walls are no closer   *)
(* to each other around the back of the register than a character's size.  *)
ASSUME GameAssumption ==
    /\ B0!BallAssumption /\ B1!BallAssumption
    /\ F!FsmAssumption /\ C!CollisionAssumption
    /\ Ball_X_Max + Hit_Far < Modulus
    /\ KeySets0 \subseteq SUBSET B0!Keys /\ KeySets1 \subseteq SUBSET B1!Keys

-----------------------------------------------------------------------------
Init == B0!Init /\ B1!Init /\ F!Init

ball0_win == C!ball0_win(BallX0, BallY0, BallX1, BallY1)
ball1_win == C!ball1_win(BallX0, BallY0, BallX1, BallY1)

Playing == current_state = "PLAYING"

FrameCrossed(keys0, keys1, start_game) ==   \* fault: the die wires crossed
    /\ B0!Frame(keys0, ball0_win, Playing)
    /\ B1!Frame(keys1, ball1_win, Playing)
    /\ F!Frame(ball0_win, ball1_win, start_game)

(* One rising edge of VGA_VS.  The two bytes of keys are read from the     *)
(* keycode register, which the firmware writes at any time.                *)
Frame(keys0, keys1, start_game) ==
    /\ B0!Frame(keys0, ball1_win, Playing)
    /\ B1!Frame(keys1, ball0_win, Playing)
    /\ F!Frame(ball0_win, ball1_win, start_game)

(* KEY[0] pressed: asynchronous, at any point of a match. *)
Reset == B0!ResetBall /\ B1!ResetBall /\ F!ResetFsm

Next ==
    \/ \E keys0 \in KeySets0, keys1 \in KeySets1, start_game \in BOOLEAN :
           Frame(keys0, keys1, start_game)
    \/ Reset

AnyFrame ==
    \E keys0 \in KeySets0, keys1 \in KeySets1, start_game \in BOOLEAN :
        Frame(keys0, keys1, start_game)

Spec == Init /\ [][Next]_vars

(* The display keeps scanning, so frames keep coming. *)
FairSpec == Spec /\ WF_vars(AnyFrame)

-----------------------------------------------------------------------------
leftFirst == character1_lives = 0       \* fault: the other player's register

(* The picture of the banner at the end: that of the left player's         *)
(* victory, or the other one.                                              *)
left == character2_lives = 0

-----------------------------------------------------------------------------
TypeOK == B0!TypeOK /\ B1!TypeOK /\ F!TypeOK

(* The lives register of a character that has lost: the match goes on for  *)
(* one frame after it reached 0, and a second hit in that frame wraps it.  *)
Out(lives) == lives \in {0, Lives_Max}
Alive(lives) == lives \in 1 .. INITIAL_LIVES

(* A finished match has exactly one loser (Game_controller.sv:31-34 and    *)
(* 51-54 with collision.sv:25-32 and the respawn of ball0.sv:63-67): the   *)
(* frame in which the registers still count after one of them reached 0    *)
(* never knocks out the winner as well.                                    *)
OneLoser ==
    current_state = "GAME_OVER" =>
        \/ Out(character1_lives) /\ Alive(character2_lives)
        \/ Alive(character1_lives) /\ Out(character2_lives)

(* The banner of a finished match names the player who has lives left,     *)
(* although it looks at one register only (Color_Mapper.sv:90).  The       *)
(* exception is real: a second hit in the last frame wraps the register of *)
(* the right player, and the banner congratulates the loser.               *)
BannerTrue ==
    current_state = "GAME_OVER" /\ character2_lives # Lives_Max =>
        (left <=> Alive(character1_lives))

(* The detector is right about who is in reach in all the places that the  *)
(* characters can be in, but for one seam: no stomp is invented where the  *)
(* register wraps, and one is missed only between characters on different  *)
(* sides of the middle of the register's range (collision.sv:13-25).       *)
LeftOfSeam(x) == 2 * x < Modulus

ReachExact ==
    C!InReach(BallX0, BallX1) <=>
        /\ -Hit_Far < BallX0 - BallX1 /\ BallX0 - BallX1 <= Hit_Far
        /\ LeftOfSeam(BallX0) <=> LeftOfSeam(BallX1)

(* Whoever loses a life is sent home by the same frame, and nobody else    *)
(* loses one: the controller and the two balls agree on every stomp        *)
(* although each gets its own wire from the detector (lab62.sv:167-176).   *)
LoserGoesHome ==
    [][~Reset =>
        /\ character1_lives' # character1_lives =>
              /\ BallX0' = Ball_X_Center0 /\ BallY0' = Ball_Y_Center
              /\ character2_lives' = character2_lives
        /\ character2_lives' # character2_lives =>
              /\ BallX1' = Ball_X_Center1 /\ BallY1' = Ball_Y_Center
              /\ character1_lives' = character1_lives]_vars

(* A character that has just been stomped is in no position to stomp back  *)
(* in the next frame: its respawn leaves it on the floor, where its stale  *)
(* motion moves it only one frame later (ball0.sv:63-67).                  *)
NoRevenge == [][(ball0_win => ~ball1_win') /\ (ball1_win => ~ball0_win')]_vars

(* A match in which somebody has no lives left is over by the next frame,  *)
(* whatever the balls do meanwhile (Game_controller.sv:31-34).             *)
DecidedEnds ==
    Playing /\ (Out(character1_lives) \/ Out(character2_lives)) ~> ~Playing

-----------------------------------------------------------------------------
(* The match the players see: it is decided as soon as a lives register    *)
(* reads 0, and a wrapped register still means that no life is left.       *)
LivesShown(lives) == IF lives = Lives_Max THEN 0 ELSE lives

Decided == Out(character1_lives) \/ Out(character2_lives)

Phase ==
    CASE current_state = "IDLE" -> "waiting"
      [] Playing /\ ~Decided -> "playing"
      [] OTHER -> "decided"

M == INSTANCE Match WITH
       phase <- Phase,
       lives <- [p \in {1, 2} |-> IF p = 1 THEN LivesShown(character1_lives)
                                          ELSE LivesShown(character2_lives)]

(* The game implements the match of module Match. *)
MatchPlayed == M!Spec
=============================================================================
