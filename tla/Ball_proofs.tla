---------------------------- MODULE Ball_proofs ----------------------------
(***************************************************************************)
(* What holds of a ball for all parameters that satisfy BallAssumption,    *)
(* in every environment.                                                   *)
(***************************************************************************)
EXTENDS Ball, TLAPS

(* OnScreen and TypeOK need each other: the walls only hold for one of the *)
(* three X speeds, and the sums only stay words inside the field.          *)
Inv == TypeOK /\ OnScreen

LEMMA InitInv == Init => Inv
  BY BallAssumption DEF Init, Inv, TypeOK, OnScreen, Word, Neg

LEMMA MoveInv ==
  ASSUME Inv, NEW keycode \in SUBSET Keys, NEW playing \in BOOLEAN,
         Move(keycode, playing)
  PROVE  Inv'
<1> USE BallAssumption
<1>1. Ball_Y_Pos' \in Word /\ Ball_Y_Pos' <= Ball_Y_Max
  BY DEF Inv, TypeOK, OnScreen, Move, NextY, Word, Add
<1>2. Ball_Y_Motion' \in Word
  BY DEF Inv, TypeOK, OnScreen, Move, NextYMotion, AirborneYMotion, Word, Add, Neg
<1>3. Ball_X_Motion' \in {0, X_Step, Neg(X_Step)}
  BY DEF Move, NextXMotion
<1>4. /\ Ball_X_Pos' \in Word /\ Ball_X_Pos' <= Ball_X_Max
      /\ Ball_X_Motion' = X_Step => Ball_X_Pos' + X_Step <= Ball_X_Max
      /\ Ball_X_Motion' = Neg(X_Step) => X_Step <= Ball_X_Pos'
  <2>1. CASE playing
    BY <2>1 DEF Inv, TypeOK, OnScreen, Move, NextX, NextXMotion, Word, Add, Neg
  <2>2. CASE ~playing
    BY <2>2 DEF Inv, TypeOK, OnScreen, Move, NextX, NextXMotion, Word, Neg
  <2> QED BY <2>1, <2>2
<1> QED BY <1>1, <1>2, <1>3, <1>4 DEF Inv, TypeOK, OnScreen

LEMMA StepInv == Inv /\ [Next]_vars => Inv'
<1> SUFFICES ASSUME Inv, [Next]_vars PROVE Inv'
  OBVIOUS
<1> USE BallAssumption
<1>1. CASE ResetBall
  BY <1>1 DEF ResetBall, Inv, TypeOK, OnScreen, Word, Neg
<1>2. ASSUME NEW keycode \in SUBSET Keys, NEW die \in BOOLEAN,
             NEW playing \in BOOLEAN, Frame(keycode, die, playing)
      PROVE  Inv'
  <2>1. CASE Respawn
    BY <2>1 DEF Respawn, Inv, TypeOK, OnScreen, Word, Neg
  <2>2. CASE Move(keycode, playing)
    BY <2>2, MoveInv
  <2> QED BY <1>2, <2>1, <2>2 DEF Frame
<1>3. CASE UNCHANGED vars
  BY <1>3 DEF vars, Inv, TypeOK, OnScreen
<1> QED BY <1>1, <1>2, <1>3 DEF Next

(* The registers keep their types, and the ball never leaves the screen    *)
(* nor sinks into the floor, for every field, speed and key sequence.      *)
THEOREM Safety == Spec => [](TypeOK /\ OnScreen)
<1>1. Spec => []Inv
  BY InitInv, StepInv, PTL DEF Spec
<1> QED BY <1>1, PTL DEF Inv

(* The registers keep their widths: no sum leaves 10 bits.                 *)
THEOREM TypeCorrect == Spec => []TypeOK
  BY Safety, PTL

-----------------------------------------------------------------------------
(* The speed of a fall.  (v + 1) v is v (v - 1) plus the 2 v pixels the    *)
(* ball has come closer to the floor.                                      *)
LEMMA Faster ==
  ASSUME NEW v \in Nat, NEW y \in Nat, v * (v - 1) <= 2 * y
  PROVE  (v + 1) * v <= 2 * (y + v)
<1>1. (v + 1) * v = v * (v - 1) + 2 * v
  BY Z3
<1> QED BY <1>1

(* What a fall that obeys the bound in the air obeys on the floor.         *)
LEMMA Landed ==
  ASSUME NEW v \in Nat, NEW y \in Nat, NEW floor \in Nat \ {0},
         v * (v - 1) <= 2 * y, y <= floor
  PROVE  (v - 1) * (v - 2) <= 2 * floor
<1>1. CASE v = 0
  BY <1>1
<1>2. CASE v # 0
  <2>1. (v - 1) * (v - 2) = v * (v - 1) - 2 * (v - 1)
    BY Z3
  <2>2. v * (v - 1) \in Int
    OBVIOUS
  <2> QED BY <1>2, <2>1, <2>2
<1> QED BY <1>1, <1>2

(* A fall cannot be so fast that one more pixel per frame would reach the  *)
(* sign bit.                                                               *)
LEMMA Slow ==
  ASSUME NEW v \in Nat, NEW y \in Nat, v * (v - 1) <= 2 * y
  PROVE  v <= y + 1
<1>1. CASE v >= 2
  <2>1. v * (v - 1) >= 2 * (v - 1)
    BY <1>1, Z3
  <2> QED BY <2>1
<1>2. CASE v < 2
  BY <1>2
<1> QED BY <1>1, <1>2

(* One frame of vertical motion, from speed v and height y to w and z.     *)
LEMMA FallStep ==
  ASSUME NEW v \in Word, NEW y \in 0 .. Ball_Y_Max,
         NEW w \in Word, NEW z \in 0 .. Ball_Y_Max,
         Falling(v, y), ~Rising(v), y < Ball_Y_Max,
         w = v \/ w = Add(v, 1),
         z = Add(y, v) \/ z = Ball_Y_Max
  PROVE  Falling(w, z)
<1> USE BallAssumption
<1>1. v \in Nat /\ y \in Nat /\ w \in Nat /\ z \in Nat /\ Ball_Y_Max \in Nat \ {0}
  BY DEF Word
<1>2. v * (v - 1) <= 2 * y
  BY DEF Falling
<1>3. v <= y + 1
  BY <1>1, <1>2, Slow
<1>4. w = v \/ w = v + 1
  BY <1>1, <1>3 DEF Add
<1>5. z = y + v \/ z = Ball_Y_Max
  BY <1>1, <1>3 DEF Add
<1>6. CASE w = v
  <2>1. v * (v - 1) \in Int /\ v * (v - 1) <= 2 * z
    BY <1>1, <1>2, <1>5
  <2>2. (v - 1) * (v - 2) <= 2 * Ball_Y_Max
    BY <1>1, <1>2, Landed
  <2> QED BY <1>6, <2>1, <2>2 DEF Falling
<1>7. CASE w = v + 1
  <2>1. (v + 1) * v <= 2 * (y + v)
    BY <1>1, <1>2, Faster
  <2>2. v * (v - 1) <= 2 * Ball_Y_Max
    BY <1>1, <1>2
  <2>3. w - 1 = v /\ w - 2 = v - 1
    BY <1>1, <1>7
  <2>4. z < Ball_Y_Max => w * (w - 1) <= 2 * z
    BY <1>5, <1>7, <2>1, <2>3
  <2>5. (w - 1) * (w - 2) <= 2 * Ball_Y_Max
    BY <2>2, <2>3
  <2> QED BY <2>4, <2>5 DEF Falling
<1> QED BY <1>4, <1>6, <1>7

LEMMA AtRest ==
  ASSUME NEW z \in 0 .. Ball_Y_Max
  PROVE  Falling(0, z)
<1>1. 0 * (0 - 1) = 0 /\ (0 - 1) * (0 - 2) = 2
  OBVIOUS
<1> QED BY <1>1, BallAssumption DEF Falling

LEMMA FallInv == Inv /\ FallSpeedBounded /\ [Next]_vars => FallSpeedBounded'
<1> SUFFICES ASSUME Inv, FallSpeedBounded, [Next]_vars PROVE FallSpeedBounded'
  OBVIOUS
<1> USE BallAssumption
<1>0. Ball_Y_Motion \in Word /\ Ball_Y_Pos \in 0 .. Ball_Y_Max
  BY DEF Inv, TypeOK, OnScreen, Word
<1>p. PICK w \in Word, z \in 0 .. Ball_Y_Max : w = Ball_Y_Motion' /\ z = Ball_Y_Pos'
  BY StepInv DEF Inv, TypeOK, OnScreen, Word
<1>q. FallSpeedBounded' <=> Rising(w) \/ Falling(w, z)
  BY <1>p DEF FallSpeedBounded, Rising, Falling
<1>r. w = 0 => FallSpeedBounded'
  BY <1>q, AtRest
<1>1. CASE ResetBall
  BY <1>1, <1>p, <1>r DEF ResetBall
<1>2. ASSUME NEW keycode \in SUBSET Keys, NEW die \in BOOLEAN,
             NEW playing \in BOOLEAN, Frame(keycode, die, playing)
      PROVE  FallSpeedBounded'
  <2>1. CASE Respawn
    <3>1. w = Ball_Y_Motion /\ z = Ball_Y_Max
      BY <2>1, <1>p DEF Respawn
    <3>2. CASE Ball_Y_Pos < Ball_Y_Max /\ Falling(Ball_Y_Motion, Ball_Y_Pos)
      <4>1. (w - 1) * (w - 2) <= 2 * Ball_Y_Max
        BY <1>0, <3>1, <3>2, Landed DEF Falling, Word
      <4> QED BY <1>q, <3>1, <4>1 DEF Falling
    <3>3. CASE Ball_Y_Pos = Ball_Y_Max \/ Rising(Ball_Y_Motion)
      BY <1>0, <1>q, <3>1, <3>3 DEF FallSpeedBounded
    <3> QED BY <1>0, <1>q, <3>1, <3>2, <3>3 DEF FallSpeedBounded
  <2>2. CASE Move(keycode, playing) /\ ~(Ball_Y_Pos < Ball_Y_Max)
    <3>1. w = 0 \/ w = Neg(Jump)
      BY <2>2, <1>p DEF Move, NextYMotion
    <3>2. w = 0 \/ Rising(w)
      BY <3>1 DEF Rising, Neg
    <3> QED BY <3>2, <1>q, <1>r
  <2>3. CASE Move(keycode, playing) /\ Ball_Y_Pos < Ball_Y_Max
    <3>1. \/ w = Neg(Lift)
          \/ w = Ball_Y_Motion
          \/ w = Add(Ball_Y_Motion, 1)
      BY <2>3, <1>p DEF Move, NextYMotion, AirborneYMotion
    <3>2. z = Add(Ball_Y_Pos, Ball_Y_Motion) \/ z = Ball_Y_Max
      BY <2>3, <1>p DEF Move, NextY
    <3>3. CASE w = Neg(Lift)
      BY <3>3, <1>q, <1>r DEF Rising, Neg
    <3>4. CASE Rising(Ball_Y_Motion) /\ w # Neg(Lift)
      <4>1. Rising(w) \/ w = 0
        BY <1>0, <3>1, <3>4 DEF Rising, Add, Word
      <4> QED BY <4>1, <1>q, <1>r
    <3>5. CASE ~Rising(Ball_Y_Motion) /\ w # Neg(Lift)
      <4>1. Falling(w, z)
        BY <1>0, <2>3, <3>1, <3>2, <3>5, FallStep DEF FallSpeedBounded
      <4> QED BY <4>1, <1>q
    <3> QED BY <3>3, <3>4, <3>5
  <2> QED BY <1>2, <2>1, <2>2, <2>3 DEF Frame
<1>3. CASE UNCHANGED vars
  BY <1>3 DEF vars, FallSpeedBounded
<1> QED BY <1>1, <1>2, <1>3 DEF Next

(* Gravity never turns a fall into a rise, for every field and jump        *)
(* height.                                                                 *)
THEOREM BoundedFall == Spec => []FallSpeedBounded
<1>1. Init => FallSpeedBounded
  BY AtRest, BallAssumption DEF Init, FallSpeedBounded
<1>2. Spec => []Inv
  BY InitInv, StepInv, PTL DEF Spec
<1> QED BY <1>1, <1>2, FallInv, PTL DEF Spec

-----------------------------------------------------------------------------
LEMMA LeapStep ==
  ASSUME NEW v \in Word, NEW y \in 0 .. Ball_Y_Max,
         Rising(v) \/ Falling(v, y), Add(y, v) < y
  PROVE  Rising(v) /\ y - Add(y, v) <= Lift
<1> USE BallAssumption
<1>1. v \in Nat /\ v < Modulus /\ y \in Nat
  BY DEF Word
<1>2. CASE Rising(v)
  BY <1>1, <1>2 DEF Rising, Add
<1>3. CASE ~Rising(v) /\ y < Ball_Y_Max
  <2>1. v <= y + 1
    BY <1>1, <1>3, Slow DEF Falling
  <2> QED BY <1>1, <2>1 DEF Add
<1>4. CASE ~Rising(v) /\ y = Ball_Y_Max /\ v # 0
  <2>1. v - 1 \in Nat /\ (v - 1) - 1 = v - 2
    BY <1>1, <1>4
  <2>2. (v - 1) * ((v - 1) - 1) <= 2 * Ball_Y_Max
    BY <1>4, <2>1 DEF Falling
  <2>3. v - 1 <= Ball_Y_Max + 1
    BY <2>1, <2>2, Slow
  <2> QED BY <1>1, <2>3 DEF Add
<1>5. CASE v = 0
  BY <1>1, <1>5 DEF Add
<1> QED BY <1>1, <1>2, <1>3, <1>4, <1>5

(* Only a rising ball gains height, by at most Lift pixels a frame, for    *)
(* every field and every environment.                                      *)
THEOREM HeightGained == Spec => NoLeap
<1>1. Inv /\ FallSpeedBounded /\ [Next]_vars =>
        [Ball_Y_Pos' < Ball_Y_Pos =>
           Rising(Ball_Y_Motion) /\ Ball_Y_Pos - Ball_Y_Pos' <= Lift]_vars
  <2> SUFFICES ASSUME Inv, FallSpeedBounded, Next, Ball_Y_Pos' < Ball_Y_Pos
               PROVE  Rising(Ball_Y_Motion) /\ Ball_Y_Pos - Ball_Y_Pos' <= Lift
    BY DEF vars
  <2> USE BallAssumption
  <2>1. Ball_Y_Motion \in Word /\ Ball_Y_Pos \in 0 .. Ball_Y_Max
    BY DEF Inv, TypeOK, OnScreen, Word
  <2>2. Ball_Y_Pos' # Ball_Y_Max
    BY <2>1
  <2>3. Ball_Y_Pos' = Add(Ball_Y_Pos, Ball_Y_Motion)
    BY <2>2 DEF Next, ResetBall, Frame, Respawn, Move, NextY
  <2> QED BY <2>1, <2>3, LeapStep DEF FallSpeedBounded
<1>2. Spec => [](Inv /\ FallSpeedBounded)
  BY InitInv, StepInv, BoundedFall, PTL DEF Spec
<1> QED BY <1>1, <1>2, PTL DEF Spec, NoLeap
=============================================================================
