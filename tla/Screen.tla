------------------------------- MODULE Screen -------------------------------
(***************************************************************************)
(* The picture: the colour mapper (Color_Mapper.sv) on the beam of the VGA *)
(* controller, with the sprite addresses of lab62.sv.  The game is only    *)
(* its registers: at a tick they take any values, at a reset those of the  *)
(* start.  A pixel is taken in its second half, when the registered area   *)
(* flags of the scoreboard (Color_Mapper.sv:70-78) have caught up with it. *)
(***************************************************************************)
EXTENDS VgaController

CONSTANTS
    Places,         \* where a character can be: pairs <<BallX, BallY>>, with
                    \* BallX up to the last column (Ball_X_Max)
    Home0, Home1,
    Sprite,         \* 16
    Score,          \* 64
    BannerX, BannerY, BannerW, BannerH  \* 251, 193, 136, 92

ASSUME ScreenAssumption ==
    /\ Sprite \in Nat \ {0} /\ Score \in Nat \ {0}
    /\ {BannerX, BannerY} \subseteq Nat /\ {BannerW, BannerH} \subseteq Nat \ {0, 1}
    /\ BannerX + BannerW < HVisible /\ BannerY + BannerH < VVisible
    /\ {Home0, Home1} \subseteq Places
    /\ Places \subseteq (0 .. HVisible - 1) \X (0 .. VVisible - Sprite)

VARIABLES
    place0, place1,     \* BallX and BallY of the characters
    over,               \* current_state_out = GAME_OVER
    drawn               \* history: words of character 0 drawn since the tick

gameVars == <<place0, place1, over>>
vars     == <<vgaVars, gameVars, drawn>>

-----------------------------------------------------------------------------
(* Which picture has the pixel at <<x, y>>, and which word of its ROM.     *)
InBannerTall(x, y) ==   \* fault: one line too many
    /\ over
    /\ x >= BannerX /\ x <= BannerX + BannerW
    /\ y + 1 >= BannerY /\ y <= BannerY + BannerH

InBanner(x, y) ==
    /\ over
    /\ x >= BannerX /\ x <= BannerX + BannerW
    /\ y >= BannerY /\ y <= BannerY + BannerH

InScore(x, y) == (x <= Score \/ x >= HVisible - 1 - Score) /\ y <= Score

On(place, x, y) ==
    /\ x >= place[1] /\ x < place[1] + Sprite
    /\ y >= place[2] /\ y < place[2] + Sprite

Picture(x, y) ==
    CASE InBanner(x, y)   -> "banner"
      [] InScore(x, y) /\ ~InBanner(x, y) -> "score"
      [] OTHER -> IF On(place0, x, y) THEN "character0"
                  ELSE IF On(place1, x, y) THEN "character1" ELSE "background"

BannerWord(x, y) == (x - BannerX) + (BannerY + BannerH - y) * BannerW

SpriteWordNarrow(place, x, y) ==    \* fault: rows of the wrong length
    ((Sprite - (y - place[2])) * (Sprite - 1) + (x - place[1])) % (Sprite * Sprite)

SpriteWordFlat(place, x, y) ==      \* fault: a wider address
    (Sprite - (y - place[2])) * Sprite + (x - place[1])

(* The address register is as wide as the ROM is long, and the top line of *)
(* the sprite overflows it.                                                *)
SpriteWord(place, x, y) ==
    ((Sprite - (y - place[2])) * Sprite + (x - place[1])) % (Sprite * Sprite)

-----------------------------------------------------------------------------
Init ==
    /\ VgaInit
    /\ place0 = Home0 /\ place1 = Home1 /\ over = FALSE
    /\ drawn = {}

GameTickLine ==     \* fault: clocked by VGA_HS
    \/ hs = 0 /\ hs' = 1 /\ place0' \in Places /\ place1' \in Places /\ over' \in BOOLEAN
    \/ ~(hs = 0 /\ hs' = 1) /\ UNCHANGED gameVars

(* The game's registers on a rising edge of VGA_VS.                        *)
GameTick ==
    \/ Rise /\ place0' \in Places /\ place1' \in Places /\ over' \in BOOLEAN
    \/ ~Rise /\ UNCHANGED gameVars

Draw ==
    LET word == IF display /\ Picture(hc, vc) = "character0"
                THEN {SpriteWord(place0, hc, vc)} ELSE {}
    IN  drawn' = IF Rise THEN {} ELSE drawn \cup word

Scan == Pixel /\ GameTick /\ Draw

Reset ==
    /\ VgaReset
    /\ place0' = Home0 /\ place1' = Home1 /\ over' = FALSE
    /\ drawn' = {}

Next == Scan \/ Reset

Spec == Init /\ [][Next]_vars

-----------------------------------------------------------------------------
TypeOK ==
    /\ VgaTypeOK
    /\ place0 \in Places /\ place1 \in Places /\ over \in BOOLEAN
    /\ drawn \subseteq 0 .. Sprite * Sprite - 1

(* Neither characters nor banner change between the first and the last     *)
(* line of a picture, so that nothing is torn (lab62.sv:167-176), except   *)
(* by a reset and the tick it causes.                                      *)
SteadyPicture == [][Scan /\ vc < VVisible /\ rises # 0 => UNCHANGED gameVars]_vars

(* In one frame each word of the sprite's ROM that belongs to a column on  *)
(* the screen appears, and no other: the addresses, counted from the       *)
(* bottom line and one line too high, come round again because the address *)
(* is as wide as the ROM is long (lab62.sv:200-201), and a sprite that     *)
(* stands at the right edge (Ball_X_Max, ball0.sv:83-87) is cut off there  *)
(* without a column coming in on another line.                             *)
ColumnShown(word) == place0[1] + (word % Sprite) < HVisible

Covered ==
    \E x \in place0[1] .. place0[1] + Sprite - 1,
       y \in place0[2] .. place0[2] + Sprite - 1 :
            x < HVisible /\ (InBanner(x, y) \/ InScore(x, y))

SpriteWhole ==
    [][Rise /\ rises # 0 /\ ~Covered
         => drawn = {w \in 0 .. Sprite * Sprite - 1 : ColumnShown(w)}]_vars

(* The banner's area has one line and one column more than its ROM: words  *)
(* that do not exist are read, but on the top line and at the end of the   *)
(* second only (Color_Mapper.sv:90 and 141, saber_win.sv:8).               *)
BannerInRom ==
    Picture(hc, vc) = "banner" =>
        \/ BannerWord(hc, vc) \in 0 .. BannerW * BannerH - 1
        \/ vc = BannerY
        \/ vc = BannerY + 1 /\ hc = BannerX + BannerW
=============================================================================
