------------------------------- MODULE Ball -------------------------------
(***************************************************************************)
(* The motion of one character: modules ball0 (ball0.sv) and ball1         *)
(* (ball1.sv), which differ in their parameters and in what the boost key  *)
(* does.  Positions and motions are unsigned registers of one width; a     *)
(* motion to the left or up is stored in two's complement.                 *)
(*                                                                         *)
(* The module is open: the ports keycode, die and current_state_out are    *)
(* the parameters of Frame, and Next lets them take every value.           *)
(***************************************************************************)
EXTENDS Integers

CONSTANTS
    Modulus,        \* 2^10: positions and motions are 10-bit registers
    Ball_X_Center, Ball_Y_Center,
    Ball_X_Max, Ball_Y_Max,
    ATM_field,      \* no key pushes a ball that is this close to a wall
    X_Step,         \* pixels per frame while a direction key is held
    Jump,           \* upward speed a jump starts with
    Lift,           \* upward speed the jetpack of ball1 sets
    Jetpack         \* TRUE for ball1; FALSE for ball0, whose key hovers

(* The relations between the parameters of ball0.sv and ball1.sv that      *)
(* their arithmetic relies on.                                             *)
ASSUME BallAssumption ==
    /\ Modulus \in Nat /\ Ball_X_Max \in Nat /\ Ball_Y_Max \in Nat \ {0}
    /\ ATM_field \in Nat /\ Jump \in Nat /\ Lift \in Nat
    /\ X_Step \in Nat \ {0}
    /\ Ball_X_Center \in Nat /\ Ball_Y_Center = Ball_Y_Max
    /\ Jetpack \in BOOLEAN
    /\ 2 * X_Step <= ATM_field + 1
    /\ X_Step <= Ball_X_Center /\ Ball_X_Center + X_Step <= Ball_X_Max
    /\ 2 * ATM_field < Ball_X_Max
    /\ Ball_X_Max + X_Step < Modulus
    /\ Jump <= Lift
    /\ 2 * Ball_Y_Max + Lift + 2 < Modulus

VARIABLES Ball_X_Pos, Ball_X_Motion, Ball_Y_Pos, Ball_Y_Motion

vars == <<Ball_X_Pos, Ball_X_Motion, Ball_Y_Pos, Ball_Y_Motion>>

(* The keys one ball looks at, by what they do; keycode is a set of them.  *)
Keys == {"left", "right", "up", "boost"}

Word == 0 .. Modulus - 1

(* Fault: a sum one bit wider than the register. *)
AddWide(a, b) == a + b

(* Addition of two registers drops the carry; -n is stored as a residue.   *)
Add(a, b) == IF a + b < Modulus THEN a + b ELSE a + b - Modulus
Neg(n)    == IF n = 0 THEN 0 ELSE Modulus - n

-----------------------------------------------------------------------------
Init ==
    /\ Ball_X_Pos = Ball_X_Center /\ Ball_X_Motion = 0
    /\ Ball_Y_Pos = Ball_Y_Center /\ Ball_Y_Motion = 0

(* What one frame clock loads into each register.  Assignments are         *)
(* non-blocking: every right-hand side reads the old registers, and of     *)
(* several assignments to one register the last one executed counts.  The  *)
(* wall's X_Motion <= 0 therefore never survives the key handling.         *)
NextXMotionNoWall(keycode) ==   \* fault: the wall test forgotten
    IF "right" \in keycode THEN X_Step
    ELSE IF "left" \in keycode THEN Neg(X_Step) ELSE 0

NextXMotion(keycode) ==
    IF "right" \in keycode
    THEN IF Ball_X_Pos < Ball_X_Max - ATM_field THEN X_Step ELSE 0
    ELSE IF "left" \in keycode /\ Ball_X_Pos > ATM_field THEN Neg(X_Step) ELSE 0

AirborneYMotionThrust(keycode) ==   \* fault: the jetpack adds up
    IF "boost" \in keycode
    THEN IF Jetpack THEN Add(Ball_Y_Motion, Neg(Lift)) ELSE Ball_Y_Motion
    ELSE Add(Ball_Y_Motion, 1)

AirborneYMotion(keycode) ==
    IF "boost" \in keycode
    THEN IF Jetpack THEN Neg(Lift) ELSE Ball_Y_Motion
    ELSE Add(Ball_Y_Motion, 1)

NextYMotionNoFloor(keycode) ==   \* fault: gravity works on the floor too
    IF "up" \in keycode /\ Ball_Y_Pos = Ball_Y_Max
    THEN Neg(Jump) ELSE AirborneYMotion(keycode)

NextYMotion(keycode) ==
    IF Ball_Y_Pos < Ball_Y_Max
    THEN AirborneYMotion(keycode)
    ELSE IF "up" \in keycode /\ Ball_Y_Pos = Ball_Y_Max THEN Neg(Jump) ELSE 0

NextYToTop(playing) ==   \* fault: a sum past the floor is cut at the top
    IF playing /\ Add(Ball_Y_Pos, Ball_Y_Motion) <= Ball_Y_Max
    THEN Add(Ball_Y_Pos, Ball_Y_Motion)
    ELSE IF playing THEN 0 ELSE Ball_Y_Max

(* A sum past the top wraps to a large number and lands on the floor too.  *)
NextY(playing) ==
    IF playing /\ Add(Ball_Y_Pos, Ball_Y_Motion) <= Ball_Y_Max
    THEN Add(Ball_Y_Pos, Ball_Y_Motion)
    ELSE Ball_Y_Max

(* Outside PLAYING the wall clamp is the last assignment to the position.  *)
NextX(playing) ==
    CASE playing -> Add(Ball_X_Pos, Ball_X_Motion)
      [] ~playing /\ Ball_Y_Pos < Ball_Y_Max /\ Ball_X_Pos >= Ball_X_Max - ATM_field
           -> Ball_X_Max
      [] ~playing /\ Ball_Y_Pos < Ball_Y_Max /\ Ball_X_Pos <= ATM_field
                  /\ Ball_X_Pos < Ball_X_Max - ATM_field
           -> 0
      [] OTHER -> Ball_X_Pos

-----------------------------------------------------------------------------
RespawnX ==   \* fault: the height is not reset
    /\ Ball_X_Pos' = Ball_X_Center
    /\ UNCHANGED <<Ball_Y_Pos, Ball_X_Motion, Ball_Y_Motion>>

(* A stomped ball goes home and keeps its motion registers.                *)
Respawn ==
    /\ Ball_X_Pos' = Ball_X_Center /\ Ball_Y_Pos' = Ball_Y_Center
    /\ UNCHANGED <<Ball_X_Motion, Ball_Y_Motion>>

Move(keycode, playing) ==
    /\ Ball_X_Motion' = NextXMotion(keycode)
    /\ Ball_Y_Motion' = NextYMotion(keycode)
    /\ Ball_X_Pos' = NextX(playing)
    /\ Ball_Y_Pos' = NextY(playing)

(* posedge frame_clk, with Reset low *)
Frame(keycode, die, playing) ==
    \/ die /\ Respawn
    \/ ~die /\ Move(keycode, playing)

(* posedge Reset *)
ResetBall ==
    /\ Ball_X_Pos' = Ball_X_Center /\ Ball_X_Motion' = 0
    /\ Ball_Y_Pos' = Ball_Y_Center /\ Ball_Y_Motion' = 0

Next ==
    \/ ResetBall
    \/ \E keycode \in SUBSET Keys, die, playing \in BOOLEAN :
           Frame(keycode, die, playing)

Spec == Init /\ [][Next]_vars

-----------------------------------------------------------------------------
(* Every register holds a word, and X_Motion one of its three speeds.      *)
TypeOK ==
    /\ Ball_X_Pos \in Word /\ Ball_Y_Pos \in Word /\ Ball_Y_Motion \in Word
    /\ Ball_X_Motion \in {0, X_Step, Neg(X_Step)}

(* Whatever keys, stomps and phases a ball meets, it stays on the screen   *)
(* and above the floor ("do not get in!", ball0.sv:78), and the X motion   *)
(* it has stored keeps it there at the next frame: the one-frame lag       *)
(* between the wall test and the move never lets the 10-bit position wrap  *)
(* (ball0.sv:123-133, 155-161).                                            *)
OnScreen ==
    /\ Ball_Y_Pos <= Ball_Y_Max
    /\ Ball_X_Pos <= Ball_X_Max
    /\ Ball_X_Motion = X_Step => Ball_X_Pos + X_Step <= Ball_X_Max
    /\ Ball_X_Motion = Neg(X_Step) => X_Step <= Ball_X_Pos

(* The vertical motion is a rise of at most Lift, or a fall whose speed    *)
(* gravity can have built up over the height above the ball (the sum of    *)
(* 1 .. v-1 pixels, one step further on the frame it lands), so adding     *)
(* gravity never carries a fall into the sign bit and throws the ball up   *)
(* (ball0.sv:151-152, ball1.sv:153-157).                                   *)
Rising(v) == v >= Modulus - Lift
Falling(v, y) ==
    IF y < Ball_Y_Max THEN v * (v - 1) <= 2 * y
                      ELSE (v - 1) * (v - 2) <= 2 * Ball_Y_Max

FallSpeedBounded == Rising(Ball_Y_Motion) \/ Falling(Ball_Y_Motion, Ball_Y_Pos)

(* Only a rising ball gains height, and at most Lift pixels per frame: no  *)
(* wrapped sum ever puts a ball above where its motion took it             *)
(* (ball0.sv:155-158).                                                     *)
NoLeap ==
    [][Ball_Y_Pos' < Ball_Y_Pos =>
          Rising(Ball_Y_Motion) /\ Ball_Y_Pos - Ball_Y_Pos' <= Lift]_vars
=============================================================================
