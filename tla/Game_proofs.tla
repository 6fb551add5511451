---------------------------- MODULE Game_proofs ----------------------------
(***************************************************************************)
(* What holds of the game for every field, every speed and every number of *)
(* lives that satisfy GameAssumption, and for all keys.                    *)
(***************************************************************************)
EXTENDS Game, TLAPS

(* The theorems about one ball in any environment, for each of the two.    *)
P0 == INSTANCE Ball_proofs WITH
        Ball_X_Center <- Ball_X_Center0, X_Step <- X_Step0, Jump <- Jump0,
        Jetpack <- FALSE,
        Ball_X_Pos <- BallX0, Ball_X_Motion <- MotionX0,
        Ball_Y_Pos <- BallY0, Ball_Y_Motion <- MotionY0
P1 == INSTANCE Ball_proofs WITH
        Ball_X_Center <- Ball_X_Center1, X_Step <- X_Step1, Jump <- Jump1,
        Jetpack <- TRUE,
        Ball_X_Pos <- BallX1, Ball_X_Motion <- MotionX1,
        Ball_Y_Pos <- BallY1, Ball_Y_Motion <- MotionY1

LEMMA Parameters ==
    /\ Ball_Y_Max \in Nat \ {0} /\ Ball_Y_Center = Ball_Y_Max
    /\ Hit_Near \in Nat \ {0} /\ Hit_Far \in Nat
    /\ INITIAL_LIVES \in Nat \ {0} /\ Lives_Max \in Nat
    /\ INITIAL_LIVES < Lives_Max
  BY GameAssumption
     DEF B0!BallAssumption, F!FsmAssumption, C!CollisionAssumption

-----------------------------------------------------------------------------
(* Each ball of the game behaves like a ball in some environment.          *)
LEMMA Ports ==
  /\ ball0_win \in BOOLEAN /\ ball1_win \in BOOLEAN /\ Playing \in BOOLEAN
  BY DEF ball0_win, ball1_win, Playing, C!ball0_win, C!ball1_win

LEMMA BallFrame0 ==
  ASSUME NEW keys, NEW die, NEW playing
  PROVE  B0!Frame(keys, die, playing) <=> P0!Frame(keys, die, playing)
  BY DEF P0!Frame, B0!Frame, P0!Respawn, B0!Respawn, P0!Move, B0!Move,
     P0!NextXMotion, B0!NextXMotion, P0!NextYMotion, B0!NextYMotion,
     P0!AirborneYMotion, B0!AirborneYMotion, P0!NextX, B0!NextX,
     P0!NextY, B0!NextY, P0!Add, B0!Add, P0!Neg, B0!Neg

LEMMA BallStep0 ==
  ASSUME [Next]_vars PROVE [P0!Next]_(P0!vars)
<1>1. ASSUME NEW keys0 \in KeySets0, NEW keys1 \in KeySets1,
             NEW start_game \in BOOLEAN, Frame(keys0, keys1, start_game)
      PROVE  P0!Next
  <2>1. P0!Frame(keys0, ball1_win, Playing)
    BY <1>1, BallFrame0 DEF Frame
  <2>2. keys0 \in SUBSET P0!Keys
    BY GameAssumption DEF B0!Keys, P0!Keys
  <2> QED BY <2>1, <2>2, Ports DEF P0!Next
<1>2. ASSUME Reset PROVE P0!Next
  BY <1>2 DEF Reset, B0!ResetBall, P0!ResetBall, P0!Next
<1>3. ASSUME UNCHANGED vars PROVE UNCHANGED P0!vars
  BY <1>3 DEF vars, ball0Vars, P0!vars
<1> QED BY <1>1, <1>2, <1>3 DEF Next

LEMMA BallFrame1 ==
  ASSUME NEW keys, NEW die, NEW playing
  PROVE  B1!Frame(keys, die, playing) <=> P1!Frame(keys, die, playing)
  BY DEF P1!Frame, B1!Frame, P1!Respawn, B1!Respawn, P1!Move, B1!Move,
     P1!NextXMotion, B1!NextXMotion, P1!NextYMotion, B1!NextYMotion,
     P1!AirborneYMotion, B1!AirborneYMotion, P1!NextX, B1!NextX,
     P1!NextY, B1!NextY, P1!Add, B1!Add, P1!Neg, B1!Neg

LEMMA BallStep1 ==
  ASSUME [Next]_vars PROVE [P1!Next]_(P1!vars)
<1>1. ASSUME NEW keys0 \in KeySets0, NEW keys1 \in KeySets1,
             NEW start_game \in BOOLEAN, Frame(keys0, keys1, start_game)
      PROVE  P1!Next
  <2>1. P1!Frame(keys1, ball0_win, Playing)
    BY <1>1, BallFrame1 DEF Frame
  <2>2. keys1 \in SUBSET P1!Keys
    BY GameAssumption DEF B1!Keys, P1!Keys
  <2> QED BY <2>1, <2>2, Ports DEF P1!Next
<1>2. ASSUME Reset PROVE P1!Next
  BY <1>2 DEF Reset, B1!ResetBall, P1!ResetBall, P1!Next
<1>3. ASSUME UNCHANGED vars PROVE UNCHANGED P1!vars
  BY <1>3 DEF vars, ball1Vars, P1!vars
<1> QED BY <1>1, <1>2, <1>3 DEF Next

LEMMA Embedding == Spec => P0!Spec /\ P1!Spec
<1>1. Init => P0!Init /\ P1!Init
  BY DEF Init, B0!Init, B1!Init, P0!Init, P1!Init
<1>2. [Next]_vars => [P0!Next]_(P0!vars) /\ [P1!Next]_(P1!vars)
  BY BallStep0, BallStep1
<1> QED BY <1>1, <1>2, PTL DEF Spec, P0!Spec, P1!Spec

LEMMA BallAssumptions == P0!BallAssumption /\ P1!BallAssumption
  BY GameAssumption
     DEF B0!BallAssumption, B1!BallAssumption, P0!BallAssumption, P1!BallAssumption

LEMMA BallInvs == Spec => [](P0!Inv /\ P1!Inv)
<1>1. P0!Init => P0!Inv
  BY P0!InitInv, BallAssumptions
<1>2. P1!Init => P1!Inv
  BY P1!InitInv, BallAssumptions
<1>3. P0!Inv /\ [P0!Next]_(P0!vars) => P0!Inv'
  BY P0!StepInv, BallAssumptions
<1>4. P1!Inv /\ [P1!Next]_(P1!vars) => P1!Inv'
  BY P1!StepInv, BallAssumptions
<1> QED BY Embedding, <1>1, <1>2, <1>3, <1>4, PTL DEF P0!Spec, P1!Spec

-----------------------------------------------------------------------------
(* OneLoser is not inductive: while the registers still count after one of *)
(* them reached 0, the loser must stand at home, from where it cannot hit. *)
Heights == BallY0 \in 0 .. Ball_Y_Max /\ BallY1 \in 0 .. Ball_Y_Max

Undecided == Alive(character1_lives) /\ Alive(character2_lives)

JustDecided ==
    \/ /\ character1_lives = 0 /\ Alive(character2_lives)
       /\ BallY0 = Ball_Y_Center
    \/ /\ Alive(character1_lives) /\ character2_lives = 0
       /\ BallY1 = Ball_Y_Center

Score ==
    /\ F!TypeOK
    /\ current_state = "IDLE" => Undecided
    /\ current_state = "PLAYING" => Undecided \/ JustDecided
    /\ OneLoser

LEMMA BallHeights == P0!Inv /\ P1!Inv => Heights
  BY Parameters DEF P0!Inv, P1!Inv, P0!TypeOK, P1!TypeOK, P0!OnScreen,
     P1!OnScreen, P0!Word, P1!Word, Heights

LEMMA FloorCannotHit ==
  ASSUME NEW y \in 0 .. Ball_Y_Max
  PROVE  ~C!OnTop(Ball_Y_Max, y)
  BY Parameters DEF C!OnTop

(* Only one ball wins, never the one on the floor, and the other goes home. *)
LEMMA Winner ==
  ASSUME Heights
  PROVE  /\ ~(ball0_win /\ ball1_win)
         /\ BallY1 = Ball_Y_Center => ~ball1_win
         /\ BallY0 = Ball_Y_Center => ~ball0_win
  BY Parameters
     DEF Heights, ball0_win, ball1_win, C!ball0_win, C!ball1_win, C!OnTop

LEMMA LoserHome ==
  ASSUME NEW keys0, NEW keys1, NEW start_game, Frame(keys0, keys1, start_game)
  PROVE  /\ ball1_win => BallX0' = Ball_X_Center0 /\ BallY0' = Ball_Y_Center
         /\ ball0_win => BallX1' = Ball_X_Center1 /\ BallY1' = Ball_Y_Center
  BY DEF Frame, B0!Frame, B1!Frame, B0!Respawn, B1!Respawn

LEMMA Countdown ==
  ASSUME NEW lives, Alive(lives)
  PROVE  F!Minus1(lives) = lives - 1 /\ (F!Minus1(lives) = 0 \/ Alive(F!Minus1(lives)))
  BY Parameters DEF Alive, F!Minus1

LEMMA ScoreStep ==
  ASSUME Heights, Score, [Next]_vars
  PROVE  Score'
<1> USE Parameters
<1>1. ASSUME NEW keys0 \in KeySets0, NEW keys1 \in KeySets1,
             NEW start_game \in BOOLEAN, Frame(keys0, keys1, start_game)
      PROVE  Score'
  <2>0. /\ current_state' = F!NextState(start_game)
        /\ character1_lives' = F!LivesAfter(character1_lives, ball1_win)
        /\ character2_lives' = F!LivesAfter(character2_lives, ball0_win)
    BY <1>1 DEF Frame, F!Frame
  <2>1. CASE current_state = "IDLE"
    <3>1. current_state' \in {"IDLE", "PLAYING"}
      BY <2>0, <2>1 DEF F!NextState
    <3>2. Undecided'
      BY <2>0, <2>1 DEF F!LivesAfter, Score, Undecided, Alive
    <3> QED BY <3>1, <3>2 DEF Score, F!TypeOK, F!States, Undecided, Alive, OneLoser
  <2>2. CASE current_state = "PLAYING" /\ Undecided
    <3>1. current_state' = "PLAYING"
      BY <2>0, <2>2 DEF F!NextState, Undecided, Alive
    <3>2. CASE ball0_win
      <4>1. /\ character1_lives' = character1_lives
            /\ character2_lives' = F!Minus1(character2_lives)
        BY <2>0, <2>2, <3>2, Winner DEF F!LivesAfter
      <4>2. character2_lives' = 0 \/ Alive(character2_lives')
        BY <2>2, <4>1, Countdown DEF Undecided
      <4>3. BallY1' = Ball_Y_Center
        BY <1>1, <3>2, LoserHome
      <4> QED BY <2>2, <3>1, <4>1, <4>2, <4>3
              DEF Score, F!TypeOK, F!States, Undecided, JustDecided, Alive, OneLoser
    <3>3. CASE ball1_win
      <4>1. /\ character2_lives' = character2_lives
            /\ character1_lives' = F!Minus1(character1_lives)
        BY <2>0, <2>2, <3>3, Winner DEF F!LivesAfter
      <4>2. character1_lives' = 0 \/ Alive(character1_lives')
        BY <2>2, <4>1, Countdown DEF Undecided
      <4>3. BallY0' = Ball_Y_Center
        BY <1>1, <3>3, LoserHome
      <4> QED BY <2>2, <3>1, <4>1, <4>2, <4>3
              DEF Score, F!TypeOK, F!States, Undecided, JustDecided, Alive, OneLoser
    <3>4. CASE ~ball0_win /\ ~ball1_win
      BY <2>0, <2>2, <3>1, <3>4
         DEF F!LivesAfter, Score, F!TypeOK, F!States, Undecided, Alive, OneLoser
    <3> QED BY <3>2, <3>3, <3>4
  <2>3. CASE current_state = "PLAYING" /\ JustDecided
    <3>1. current_state' = "GAME_OVER"
      BY <2>0, <2>3 DEF F!NextState, JustDecided
    <3>2. ASSUME character1_lives = 0, BallY0 = Ball_Y_Center, Alive(character2_lives)
          PROVE  Out(character1_lives') /\ Alive(character2_lives')
      BY <2>0, <3>2, Winner DEF F!LivesAfter, F!Minus1, Out
    <3>3. ASSUME character2_lives = 0, BallY1 = Ball_Y_Center, Alive(character1_lives)
          PROVE  Out(character2_lives') /\ Alive(character1_lives')
      BY <2>0, <3>3, Winner DEF F!LivesAfter, F!Minus1, Out
    <3> QED BY <2>3, <3>1, <3>2, <3>3
            DEF Score, F!TypeOK, F!States, JustDecided, Alive, Out, OneLoser
  <2>4. CASE current_state = "GAME_OVER"
    BY <2>0, <2>4
       DEF F!NextState, F!LivesAfter, Score, F!TypeOK, F!States, OneLoser, Out, Alive
  <2> QED BY <2>1, <2>2, <2>3, <2>4 DEF Score, F!TypeOK, F!States
<1>2. CASE Reset
  BY <1>2 DEF Reset, F!ResetFsm, Score, F!TypeOK, F!States, Undecided, Alive, OneLoser
<1>3. CASE UNCHANGED vars
  BY <1>3 DEF vars, fsmVars, ball0Vars, ball1Vars, Score, F!TypeOK, Undecided, Alive,
     JustDecided, OneLoser, Out
<1> QED BY <1>1, <1>2, <1>3 DEF Next

LEMMA ScoreInv == Spec => [](Heights /\ Score)
<1>1. Init => Score
  BY Parameters DEF Init, F!Init, Score, F!TypeOK, F!States, Undecided, Alive, OneLoser
<1> QED BY <1>1, BallInvs, BallHeights, ScoreStep, PTL DEF Spec

(* Every register of the game keeps its type.                              *)
THEOREM TypeCorrect == Spec => []TypeOK
<1>1. P0!Inv /\ P1!Inv /\ Score => TypeOK
  BY DEF P0!Inv, P1!Inv, Score, TypeOK, B0!TypeOK, B1!TypeOK, P0!TypeOK, P1!TypeOK,
     B0!Word, P0!Word, B1!Word, P1!Word, B0!Neg, P0!Neg, B1!Neg, P1!Neg
<1> QED BY <1>1, BallInvs, ScoreInv, PTL

(* Both balls stay on the screen in every game.                            *)
THEOREM BallsOnScreen == Spec => [](B0!OnScreen /\ B1!OnScreen)
<1>1. P0!Inv /\ P1!Inv => B0!OnScreen /\ B1!OnScreen
  BY DEF P0!Inv, P1!Inv, B0!OnScreen, B1!OnScreen, P0!OnScreen, P1!OnScreen,
     B0!Neg, P0!Neg, B1!Neg, P1!Neg
<1> QED BY <1>1, BallInvs, PTL

(* A finished match has exactly one loser, for every number of lives and   *)
(* every field.                                                            *)
THEOREM FinishedMatch == Spec => []OneLoser
  BY ScoreInv, PTL DEF Score

(* The banner names the winner unless the right player's register has      *)
(* wrapped, for every number of lives and every field                      *)
(* (Color_Mapper.sv:90).                                                   *)
THEOREM BannerRight == Spec => []BannerTrue
<1>1. F!TypeOK /\ OneLoser => BannerTrue
  BY Parameters DEF F!TypeOK, OneLoser, BannerTrue, left, Out, Alive
<1>2. Score => F!TypeOK
  BY DEF Score
<1> QED
  BY <1>1, <1>2, FinishedMatch, ScoreInv, PTL

(* No character stomps back in the frame after it was stomped.             *)
THEOREM Defenceless == Spec => NoRevenge
<1>1. Heights /\ Heights' /\ [Next]_vars =>
        [(ball0_win => ~ball1_win') /\ (ball1_win => ~ball0_win')]_vars
  <2> SUFFICES ASSUME Heights, Heights', Next
               PROVE  (ball0_win => ~ball1_win') /\ (ball1_win => ~ball0_win')
    BY DEF vars
  <2>1. /\ BallY1' = Ball_Y_Center => ~ball1_win'
        /\ BallY0' = Ball_Y_Center => ~ball0_win'
    BY FloorCannotHit, Parameters
       DEF Heights, ball0_win, ball1_win, C!ball0_win, C!ball1_win
  <2>2. CASE Reset
    BY <2>1, <2>2 DEF Reset, B0!ResetBall, B1!ResetBall
  <2> QED BY <2>1, <2>2, LoserHome DEF Next
<1> QED BY <1>1, ScoreInv, PTL DEF Spec, NoRevenge

(* The controller takes a life exactly from the ball that is sent home.    *)
THEOREM StompsAgree == Spec => LoserGoesHome
<1>1. Heights /\ [Next]_vars =>
       [~Reset =>
        /\ character1_lives' # character1_lives =>
              /\ BallX0' = Ball_X_Center0 /\ BallY0' = Ball_Y_Center
              /\ character2_lives' = character2_lives
        /\ character2_lives' # character2_lives =>
              /\ BallX1' = Ball_X_Center1 /\ BallY1' = Ball_Y_Center
              /\ character1_lives' = character1_lives]_vars
  <2>1. ASSUME Heights, NEW keys0, NEW keys1, NEW start_game,
               Frame(keys0, keys1, start_game)
        PROVE  /\ character1_lives' # character1_lives =>
                    /\ BallX0' = Ball_X_Center0 /\ BallY0' = Ball_Y_Center
                    /\ character2_lives' = character2_lives
               /\ character2_lives' # character2_lives =>
                    /\ BallX1' = Ball_X_Center1 /\ BallY1' = Ball_Y_Center
                    /\ character1_lives' = character1_lives
    BY <2>1, LoserHome, Winner DEF Frame, F!Frame, F!LivesAfter
  <2> QED BY <2>1 DEF Next
<1> QED BY <1>1, ScoreInv, PTL DEF Spec, LoserGoesHome

-----------------------------------------------------------------------------
(* The match of module Match.  The frame that wraps a register from 0 is   *)
(* one in which the match has been decided already: a stuttering step.     *)
Shown == [p \in {1, 2} |-> IF p = 1 THEN LivesShown(character1_lives)
                                    ELSE LivesShown(character2_lives)]

LEMMA ShownAlive ==
  ASSUME NEW lives, Alive(lives)
  PROVE  lives # 0 /\ ~Out(lives) /\ LivesShown(lives) = lives
  BY Parameters DEF Alive, Out, LivesShown

LEMMA ShownOut ==
  ASSUME NEW lives, Out(lives)
  PROVE  LivesShown(lives) = 0
  BY DEF Out, LivesShown

LEMMA StepShown ==
  ASSUME NEW lives, Alive(lives)
  PROVE  /\ LivesShown(F!Minus1(lives)) = lives - 1
         /\ Out(F!Minus1(lives)) <=> lives = 1
  BY Parameters DEF Alive, Out, LivesShown, F!Minus1

LEMMA FreshShown ==
  Alive(INITIAL_LIVES) /\ LivesShown(INITIAL_LIVES) = INITIAL_LIVES
    /\ ~Out(INITIAL_LIVES)
  BY Parameters, ShownAlive DEF Alive

LEMMA MatchInit == Init => M!Init
<1> SUFFICES ASSUME Init PROVE M!Init
  OBVIOUS
<1>1. /\ current_state = "IDLE"
      /\ character1_lives = INITIAL_LIVES /\ character2_lives = INITIAL_LIVES
  BY DEF Init, F!Init
<1>2. Phase = "waiting"
  BY <1>1 DEF Phase, Playing
<1>3. Shown = M!Fresh
  BY <1>1, FreshShown DEF Shown, M!Fresh, M!Player
<1> QED BY <1>2, <1>3 DEF M!Init, Shown

LEMMA MatchReset == Reset => M!Reset
<1> SUFFICES ASSUME Reset PROVE M!Reset
  OBVIOUS
<1>1. /\ current_state' = "IDLE"
      /\ character1_lives' = INITIAL_LIVES /\ character2_lives' = INITIAL_LIVES
  BY DEF Reset, F!ResetFsm
<1>2. Phase' = "waiting"
  BY <1>1 DEF Phase, Playing
<1>3. Shown' = M!Fresh
  <2>1. /\ LivesShown(character1_lives)' = INITIAL_LIVES
        /\ LivesShown(character2_lives)' = INITIAL_LIVES
    BY <1>1, FreshShown DEF LivesShown
  <2> QED BY <2>1 DEF Shown, M!Fresh, M!Player
<1> QED BY <1>2, <1>3 DEF M!Reset, Shown

LEMMA MatchStep ==
  ASSUME Heights, Score, [Next]_vars
  PROVE  [M!Next]_(M!vars)
<1> USE Parameters
<1>1. ASSUME NEW keys0 \in KeySets0, NEW keys1 \in KeySets1,
             NEW start_game \in BOOLEAN, Frame(keys0, keys1, start_game)
      PROVE  [M!Next]_(M!vars)
  <2>0. /\ current_state' = F!NextState(start_game)
        /\ character1_lives' = F!LivesAfter(character1_lives, ball1_win)
        /\ character2_lives' = F!LivesAfter(character2_lives, ball0_win)
    BY <1>1 DEF Frame, F!Frame
  <2>1. CASE current_state = "IDLE"
    <3>1. UNCHANGED <<character1_lives, character2_lives>>
      BY <2>0, <2>1 DEF F!LivesAfter
    <3>2. ~Decided
      BY <2>1, ShownAlive DEF Score, Undecided, Decided
    <3>3. CASE start_game
      <4>1. current_state' = "PLAYING"
        BY <2>0, <2>1, <3>3 DEF F!NextState
      <4> QED BY <2>1, <3>1, <3>2, <4>1
              DEF Phase, Playing, Decided, LivesShown, Out, M!Start, M!Next
    <3>4. CASE ~start_game
      <4>1. current_state' = "IDLE"
        BY <2>0, <2>1, <3>4 DEF F!NextState
      <4> QED BY <2>1, <3>1, <4>1 DEF Phase, LivesShown, M!vars
    <3> QED BY <3>3, <3>4
  <2>2. CASE current_state = "PLAYING" /\ Undecided
    <3>1. current_state' = "PLAYING"
      BY <2>0, <2>2 DEF F!NextState, Undecided, Alive
    <3>2. Phase = "playing"
      BY <2>2, ShownAlive DEF Phase, Playing, Decided, Undecided
    <3>3. CASE ball0_win
      <4>1. /\ character1_lives' = character1_lives
            /\ character2_lives' = F!Minus1(character2_lives)
        BY <2>0, <2>2, <3>3, Winner DEF F!LivesAfter
      <4>2. Shown' = [Shown EXCEPT ![2] = @ - 1] /\ Shown[2] = character2_lives
        <5>1. /\ LivesShown(character2_lives) = character2_lives
              /\ LivesShown(character2_lives)' = character2_lives - 1
              /\ LivesShown(character1_lives)' = LivesShown(character1_lives)
          BY <2>2, <4>1, ShownAlive, StepShown DEF Undecided, LivesShown
        <5>2. /\ Shown = [p \in {1, 2} |-> Shown[p]] /\ Shown' = [p \in {1, 2} |-> Shown'[p]]
              /\ Shown[1] = LivesShown(character1_lives)
              /\ Shown[2] = LivesShown(character2_lives)
              /\ Shown'[1] = LivesShown(character1_lives)'
              /\ Shown'[2] = LivesShown(character2_lives)'
          BY DEF Shown
        <5> QED BY <5>1, <5>2
      <4>3. Phase' = IF character2_lives = 1 THEN "decided" ELSE "playing"
        BY <2>2, <3>1, <4>1, ShownAlive, StepShown
           DEF Phase, Playing, Decided, Undecided, Out
      <4>4. M!LoseLife(2)
        BY <2>2, <3>2, <4>2, <4>3 DEF M!LoseLife, Undecided, Alive, Shown
      <4> QED BY <4>4 DEF M!Next, M!Player
    <3>4. CASE ball1_win
      <4>1. /\ character2_lives' = character2_lives
            /\ character1_lives' = F!Minus1(character1_lives)
        BY <2>0, <2>2, <3>4, Winner DEF F!LivesAfter
      <4>2. Shown' = [Shown EXCEPT ![1] = @ - 1] /\ Shown[1] = character1_lives
        <5>1. /\ LivesShown(character1_lives) = character1_lives
              /\ LivesShown(character1_lives)' = character1_lives - 1
              /\ LivesShown(character2_lives)' = LivesShown(character2_lives)
          BY <2>2, <4>1, ShownAlive, StepShown DEF Undecided, LivesShown
        <5>2. /\ Shown = [p \in {1, 2} |-> Shown[p]] /\ Shown' = [p \in {1, 2} |-> Shown'[p]]
              /\ Shown[1] = LivesShown(character1_lives)
              /\ Shown[2] = LivesShown(character2_lives)
              /\ Shown'[1] = LivesShown(character1_lives)'
              /\ Shown'[2] = LivesShown(character2_lives)'
          BY DEF Shown
        <5> QED BY <5>1, <5>2
      <4>3. Phase' = IF character1_lives = 1 THEN "decided" ELSE "playing"
        BY <2>2, <3>1, <4>1, ShownAlive, StepShown
           DEF Phase, Playing, Decided, Undecided, Out
      <4>4. M!LoseLife(1)
        BY <2>2, <3>2, <4>2, <4>3 DEF M!LoseLife, Undecided, Alive, Shown
      <4> QED BY <4>4 DEF M!Next, M!Player
    <3>5. CASE ~ball0_win /\ ~ball1_win
      <4>1. UNCHANGED <<current_state, character1_lives, character2_lives>>
        BY <2>0, <2>2, <3>1, <3>5 DEF F!LivesAfter
      <4> QED BY <4>1 DEF M!vars, Phase, Playing, Decided, Out, LivesShown
    <3> QED BY <3>3, <3>4, <3>5
  <2>3. CASE current_state \in {"PLAYING", "GAME_OVER"} /\ ~Undecided
    <3>1. Score'
      BY ScoreStep
    <3>2. current_state' = "GAME_OVER"
      BY <2>0, <2>3 DEF F!NextState, Score, JustDecided
    <3>3. Phase = "decided" /\ Phase' = "decided"
      BY <2>3, <3>2 DEF Phase, Playing, Decided, Score, JustDecided, Out
    <3>4. \/ /\ Out(character1_lives) /\ Alive(character2_lives)
             /\ Out(character1_lives') /\ character2_lives' = character2_lives
          \/ /\ Out(character2_lives) /\ Alive(character1_lives)
             /\ Out(character2_lives') /\ character1_lives' = character1_lives
      BY <2>0, <2>3, Winner
         DEF Score, OneLoser, JustDecided, Out, F!LivesAfter, F!Minus1
    <3>5. Shown' = Shown
      BY <3>4, ShownOut DEF Shown, LivesShown, Out
    <3> QED BY <3>3, <3>5 DEF M!vars, Shown
  <2>4. current_state = "GAME_OVER" => ~Undecided
    BY ShownAlive DEF Score, OneLoser, Undecided
  <2> QED BY <2>1, <2>2, <2>3, <2>4 DEF Score, F!TypeOK, F!States
<1>2. CASE Reset
  BY <1>2, MatchReset DEF M!Next
<1>3. CASE UNCHANGED vars
  BY <1>3 DEF vars, fsmVars, M!vars, Phase, Playing, Decided, Out, LivesShown
<1> QED BY <1>1, <1>2, <1>3 DEF Next

(* The game implements the match, for every number of lives and every      *)
(* field.                                                                  *)
THEOREM ImplementsMatch == Spec => MatchPlayed
  BY MatchInit, MatchStep, ScoreInv, PTL DEF Spec, M!Spec, MatchPlayed

-----------------------------------------------------------------------------
(* Within the walls the signed distance is the true one on either side of  *)
(* the seam, and across it larger than any reach.                          *)
LEMMA SignedDistance ==
  ASSUME NEW x0 \in 0 .. Ball_X_Max, NEW x1 \in 0 .. Ball_X_Max
  PROVE  C!InReach(x0, x1) <=>
           /\ -Hit_Far < x0 - x1 /\ x0 - x1 <= Hit_Far
           /\ LeftOfSeam(x0) <=> LeftOfSeam(x1)
<1>1. Modulus \in Nat /\ Ball_X_Max \in Nat /\ Hit_Far \in Nat /\ Ball_X_Max + Hit_Far < Modulus
  BY GameAssumption DEF B0!BallAssumption, C!CollisionAssumption
<1>2. CASE LeftOfSeam(x0) <=> LeftOfSeam(x1)
  <2>1. C!Signed(x0) - C!Signed(x1) = x0 - x1
    BY <1>1, <1>2 DEF LeftOfSeam, C!Signed
  <2> QED
    BY <1>2, <2>1 DEF C!InReach
<1>3. CASE LeftOfSeam(x0) /\ ~LeftOfSeam(x1)
  <2>1. C!Signed(x0) - C!Signed(x1) > Hit_Far
    BY <1>1, <1>3 DEF LeftOfSeam, C!Signed
  <2> QED
    BY <1>1, <1>3, <2>1 DEF C!InReach, C!Signed
<1>4. CASE ~LeftOfSeam(x0) /\ LeftOfSeam(x1)
  <2>1. C!Signed(x0) - C!Signed(x1) < -Hit_Far
    BY <1>1, <1>4 DEF LeftOfSeam, C!Signed
  <2> QED
    BY <1>1, <1>4, <2>1 DEF C!InReach, C!Signed
<1> QED
  BY <1>2, <1>3, <1>4

(* The detector is exact wherever the game can bring the characters, but   *)
(* for the seam, for every field and size (collision.sv:13-25).            *)
THEOREM DetectorExact == Spec => []ReachExact
<1>1. P0!Inv /\ P1!Inv => BallX0 \in 0 .. Ball_X_Max /\ BallX1 \in 0 .. Ball_X_Max
  BY GameAssumption
     DEF B0!BallAssumption, P0!Inv, P1!Inv, P0!TypeOK, P1!TypeOK, P0!OnScreen,
         P1!OnScreen, P0!Word, P1!Word
<1>2. P0!Inv /\ P1!Inv => ReachExact
  BY <1>1, SignedDistance DEF ReachExact
<1> QED
  BY <1>2, BallInvs, PTL
=============================================================================
