--------------------------- MODULE Screen_proofs ----------------------------
(***************************************************************************)
(* Theorems about the VGA controller and the picture, for every timing     *)
(* that satisfies VgaAssumption and every size of the pictures.            *)
(***************************************************************************)
EXTENDS Screen, Modulo

(* The vertical pulse, one pixel late behind the counters.                 *)
Window ==
    \/ vc = VSync - 1 /\ hc >= 1
    \/ vc = VSync
    \/ vc = VSync + 1 /\ hc = 0

Below == vc > VSync + 1 \/ (vc = VSync + 1 /\ hc >= 1)

(* Whole lines since the last tick.                                        *)
Lines ==
    CASE rises = 2 /\ Below  -> vc - VSync - 1
      [] rises = 2 /\ ~Below -> vc + vlines - VSync
      [] OTHER               -> vc

(* The inductive invariant: the registers are functions of the counters,   *)
(* and the counters tell how long ago the last tick was.                   *)
Counters == hc \in 0 .. hpixels /\ vc \in 0 .. vlines
Pulses   == hs \in {0, 1} /\ vs \in {0, 1} /\ rises \in 0 .. 2
Fresh    == rises = 0 => hc = 0 /\ vc = 0 /\ vs = 0 /\ since = 0
Vertical == rises # 0 => (vs = 0 <=> Window)
Horizontal == rises # 0 /\ hs = 0 => hc >= HSync
FirstScan  == rises = 1 => ~Below /\ (vc > 0 \/ hc > 0)
Clock    == rises # 0 => since = Lines * Line + hc - 1

VgaInv ==
    Counters /\ Pulses /\ Fresh /\ Vertical /\ Horizontal /\ FirstScan /\ Clock

LEMMA Sizes ==
    /\ hpixels \in Nat /\ vlines \in Nat /\ HVisible \in Nat /\ VVisible \in Nat
    /\ HSync \in Nat /\ HSyncEnd \in Nat /\ VSync \in Nat
    /\ 0 < HVisible /\ HVisible < HSync /\ HSync < HSyncEnd /\ HSyncEnd <= hpixels
    /\ 0 < VVisible /\ VVisible < VSync /\ VSync < vlines
    /\ Line \in Nat /\ Line = hpixels + 1
  BY VgaAssumption DEF Line

LEMMA ProductNat ==
  ASSUME NEW a \in Nat, NEW b \in Nat
  PROVE  a * b >= 0
  OBVIOUS

LEMMA NextLine ==
  ASSUME NEW a \in Int, NEW L \in Int
  PROVE  (a + 1) * L = a * L + L
  OBVIOUS

(* A line is left only by its last pixel.                                  *)
LEMMA WholeLines ==
  ASSUME NEW L \in Nat, NEW a \in Nat, NEW k \in Nat, NEW h \in 0 .. L - 1,
         a * L + h = k * L
  PROVE  a = k /\ h = 0
<1>1. ASSUME a < k PROVE FALSE
  <2>1. k * L = a * L + (k - a) * L
    OBVIOUS
  <2>2. (k - a) * L = (k - a - 1) * L + L
    OBVIOUS
  <2>3. (k - a - 1) * L >= 0
    BY <1>1
  <2> QED
    BY <2>1, <2>2, <2>3
<1>2. ASSUME k < a PROVE FALSE
  <2>1. a * L = k * L + (a - k) * L
    OBVIOUS
  <2>2. (a - k) * L = (a - k - 1) * L + L
    OBVIOUS
  <2>3. (a - k - 1) * L >= 0
    BY <1>2
  <2> QED
    BY <2>1, <2>2, <2>3
<1> QED
  BY <1>1, <1>2

-----------------------------------------------------------------------------
LEMMA TickAt ==
  VgaInv /\ Pixel => (Rise <=> (rises = 0 \/ (vc = VSync + 1 /\ hc = 0)))
<1> SUFFICES ASSUME VgaInv, Pixel
             PROVE  Rise <=> (rises = 0 \/ (vc = VSync + 1 /\ hc = 0))
  OBVIOUS
<1> USE Sizes DEF VgaInv, Pixel, Rise, Counters, Pulses
<1>1. CASE rises = 0
  BY <1>1 DEF Fresh, VsLow
<1>2. CASE rises # 0
  BY <1>2 DEF Vertical, Window, VsLow
<1> QED
  BY <1>1, <1>2

LEMMA InvInit == VgaInit => VgaInv
  BY Sizes DEF VgaInit, VgaInv, Counters, Pulses, Fresh, Vertical, Horizontal,
               FirstScan, Clock

LEMMA InvReset == VgaReset => VgaInv'
  BY Sizes DEF VgaReset, VgaInv, Counters, Pulses, Fresh, Vertical, Horizontal,
               FirstScan, Clock

LEMMA InvPixel == VgaInv /\ Pixel => VgaInv'
<1> SUFFICES ASSUME VgaInv, Pixel
             PROVE  VgaInv'
  OBVIOUS
<1> USE Sizes
<1>1. Counters'
  BY DEF VgaInv, Counters, Pixel
<1>2. Pulses'
  BY DEF VgaInv, Pulses, Pixel
<1>3. rises' # 0
  <2>1. CASE rises = 0
    <3>1. Rise
      BY <2>1, TickAt
    <3>2. rises' = 1
      BY <2>1, <3>1 DEF Pixel
    <3> QED
      BY <3>2
  <2>2. CASE rises # 0
    <3>1. rises' = rises \/ rises' = 2 \/ rises' = rises + 1
      BY DEF Pixel
    <3> QED
      BY <2>2, <3>1 DEF VgaInv, Pulses
  <2> QED
    BY <2>1, <2>2
<1>4. Fresh'
  BY <1>3 DEF Fresh
<1>5. Vertical'
  BY <1>1 DEF Vertical, Window, VgaInv, Counters, Pixel, VsLow
<1>6. Horizontal'
  BY <1>1 DEF Horizontal, VgaInv, Counters, Pixel, HsLow
<1>7. FirstScan'
  <2>1. CASE Rise
    <3>1. rises' = 1 => rises = 0
      BY <2>1 DEF Pixel, VgaInv, Pulses, Rise
    <3>2. rises = 0 => hc' = 1 /\ vc' = 0
      BY DEF Pixel, VgaInv, Fresh
    <3> QED
      BY <3>1, <3>2 DEF FirstScan, Below
  <2>2. CASE ~Rise
    <3>1. rises' = rises /\ ~(vc = VSync + 1 /\ hc = 0)
      BY <2>2, TickAt DEF Pixel, Rise
    <3> QED
      BY <1>1, <3>1 DEF FirstScan, Below, VgaInv, Counters, Pixel
  <2> QED
    BY <2>1, <2>2
<1>8. Clock'
  <2>1. CASE Rise
    <3>1. since' = 0
      BY <2>1 DEF Pixel
    <3>2. CASE rises = 0
      <4>1. rises' = 1 /\ hc' = 1 /\ vc' = 0
        BY <2>1, <3>2 DEF Pixel, VgaInv, Fresh
      <4>2. Lines' = 0
        BY <4>1 DEF Lines
      <4> QED
        BY <3>1, <4>1, <4>2 DEF Clock
    <3>3. CASE rises # 0
      <4>1. hc' = 1 /\ vc' = VSync + 1 /\ rises' = 2
        BY <2>1, <3>3, TickAt DEF Pixel, VgaInv, Pulses
      <4>2. Lines' = 0
        BY <4>1 DEF Lines, Below
      <4> QED
        BY <3>1, <4>1, <4>2 DEF Clock
    <3> QED
      BY <3>2, <3>3
  <2>2. CASE ~Rise
    <3>0. rises # 0 /\ ~(vc = VSync + 1 /\ hc = 0)
      BY <2>2, TickAt
    <3>1. /\ rises # 0 /\ rises' = rises /\ since' = since + 1
          /\ ~(vc = VSync + 1 /\ hc = 0)
      BY <2>2, <3>0 DEF Pixel
    <3>2. since = Lines * Line + hc - 1
      BY <3>1 DEF VgaInv, Clock
    <3>3. CASE hc < hpixels
      <4>1. hc' = hc + 1 /\ vc' = vc
        BY <3>3 DEF Pixel, VgaInv, Counters
      <4>2. Lines' = Lines /\ Lines \in Int
        BY <3>1, <4>1 DEF Lines, Below, VgaInv, Counters
      <4> QED
        BY <3>1, <3>2, <4>1, <4>2 DEF Clock, VgaInv, Counters
    <3>4. CASE hc = hpixels
      <4>1. hc' = 0 /\ vc' = IF vc = vlines THEN 0 ELSE vc + 1
        BY <3>4 DEF Pixel
      <4>2. Lines' = Lines + 1 /\ Lines \in Int
        BY <3>1, <3>4, <4>1 DEF Lines, Below, VgaInv, Counters, FirstScan, Pulses
      <4>3. Lines' * Line = Lines * Line + Line
        BY <4>2, NextLine
      <4> QED
        BY <3>1, <3>2, <3>4, <4>1, <4>2, <4>3 DEF Clock, VgaInv, Counters
    <3> QED
      BY <3>3, <3>4 DEF VgaInv, Counters
  <2> QED
    BY <2>1, <2>2
<1> QED
  BY <1>1, <1>2, <1>4, <1>5, <1>6, <1>7, <1>8 DEF VgaInv

LEMMA InvStep == VgaInv /\ [Pixel \/ VgaReset]_vgaVars => VgaInv'
<1> SUFFICES ASSUME VgaInv, [Pixel \/ VgaReset]_vgaVars
             PROVE  VgaInv'
  OBVIOUS
<1>1. CASE UNCHANGED vgaVars
  BY <1>1 DEF vgaVars, VgaInv, Counters, Pulses, Fresh, Vertical, Horizontal,
              FirstScan, Clock, Window, Below, Lines, Line
<1> QED
  BY <1>1, InvReset, InvPixel

LEMMA VgaAlways == VgaSpec => []VgaInv
  BY InvInit, InvStep, PTL DEF VgaSpec

-----------------------------------------------------------------------------
LEMMA DueAt ==
  VgaInv /\ Pixel => ((rises = 0 \/ (vc = VSync + 1 /\ hc = 0)) <=> since + 1 = Due)
<1> SUFFICES ASSUME VgaInv, Pixel
             PROVE  (rises = 0 \/ (vc = VSync + 1 /\ hc = 0)) <=> since + 1 = Due
  OBVIOUS
<1> USE Sizes
<1>1. CASE rises = 0
  BY <1>1 DEF VgaInv, Fresh, Due
<1>2. CASE rises # 0
  <2> DEFINE whole == IF rises = 1 THEN VSync + 1 ELSE vlines + 1
  <2>1. since + 1 = Lines * Line + hc
    <3>1. Lines \in Int
      BY <1>2 DEF Lines, VgaInv, Counters, Pulses
    <3> QED
      BY <1>2, <3>1 DEF VgaInv, Clock, Counters
  <2>2. Due = whole * Line
    BY <1>2 DEF Due, VgaInv, Pulses
  <2>3. Lines \in Nat /\ whole \in Nat
    BY <1>2 DEF Lines, Below, VgaInv, Counters, Pulses
  <2>4. hc \in 0 .. Line - 1
    BY DEF VgaInv, Counters
  <2>5. Lines * Line + hc = whole * Line <=> Lines = whole /\ hc = 0
    <3>1. ASSUME Lines * Line + hc = whole * Line PROVE Lines = whole /\ hc = 0
      <4> HIDE DEF whole
      <4> QED
        BY <2>3, <2>4, <3>1, WholeLines
    <3>2. ASSUME Lines = whole, hc = 0 PROVE Lines * Line + hc = whole * Line
      <4> HIDE DEF whole
      <4> QED
        BY <2>3, <3>2
    <3> QED
      BY <3>1, <3>2
  <2>6. Lines = whole /\ hc = 0 <=> vc = VSync + 1 /\ hc = 0
    BY <1>2 DEF Lines, Below, VgaInv, Counters, Pulses, FirstScan
  <2> QED
    BY <1>2, <2>1, <2>2, <2>5, <2>6
<1> QED
  BY <1>1, <1>2

(* Every step of the composition is a step of the VGA controller.          *)
LEMMA BeamSteps == [Next]_vars => [Pixel \/ VgaReset]_vgaVars
  BY DEF Next, Scan, Reset, vars

LEMMA BeamAlways == Spec => []VgaInv
<1>1. Init => VgaInit
  BY DEF Init
<1>2. Spec => VgaSpec
  BY <1>1, BeamSteps, PTL DEF Spec, VgaSpec
<1> QED
  BY <1>2, VgaAlways

(* The clock of the game is regular: one tick per scan of all lines and    *)
(* none besides, but for the two that follow a reset, for every timing     *)
(* (VGA_controller.sv:61-80, 100-109).                                     *)
THEOREM RegularTicks == Spec => TickPeriod
<1>1. VgaInv /\ [Next]_vars => [Pixel => (Rise <=> since + 1 = Due)]_vgaVars
  BY TickAt, DueAt
<1> QED
  BY <1>1, BeamAlways, PTL DEF Spec, TickPeriod

(* The game ticks below the picture only, but for the tick a reset causes, *)
(* for every timing (VGA_controller.sv:100-119).                           *)
THEOREM TicksBelow == Spec => TickUnseen
<1>1. VgaInv /\ [Next]_vars => [Rise /\ rises # 0 => vc' >= VVisible]_vgaVars
  <2> SUFFICES ASSUME VgaInv, [Next]_vars, Rise, rises # 0
               PROVE  vc' >= VVisible \/ UNCHANGED vgaVars
    OBVIOUS
  <2>1. CASE Pixel
    <3>1. vc = VSync + 1 /\ hc = 0
      BY <2>1, TickAt
    <3> QED
      BY <2>1, <3>1, Sizes DEF Pixel
  <2>2. CASE VgaReset
    BY <2>2 DEF VgaReset, Rise
  <2> QED
    BY <2>1, <2>2, BeamSteps
<1> QED
  BY <1>1, BeamAlways, PTL DEF Spec, TickUnseen

(* The horizontal pulse lies beside the picture, but for the first pixel   *)
(* after a reset, for every timing (VGA_controller.sv:87-96).              *)
THEOREM PulseBeside == Spec => []HSyncUnseen
<1>1. VgaInv => HSyncUnseen
  BY Sizes DEF VgaInv, Counters, Horizontal, HSyncUnseen, display
<1> QED
  BY <1>1, BeamAlways, PTL

(* No picture is torn by the game, for every timing and every place of the *)
(* characters (lab62.sv:167-176).                                          *)
THEOREM NothingTorn == Spec => SteadyPicture
<1>1. VgaInv /\ [Next]_vars
        => [Scan /\ vc < VVisible /\ rises # 0 => UNCHANGED gameVars]_vars
  <2> SUFFICES ASSUME VgaInv, Scan, vc < VVisible, rises # 0
               PROVE  UNCHANGED gameVars
    OBVIOUS
  <2>1. ~Rise
    BY TickAt, Sizes DEF Scan, VgaInv, Counters
  <2> QED
    BY <2>1 DEF Scan, GameTick
<1> QED
  BY <1>1, BeamAlways, PTL DEF Spec, SteadyPicture

LEMMA BannerWords ==
  ASSUME VgaInv, Picture(hc, vc) = "banner"
  PROVE  \/ BannerWord(hc, vc) \in 0 .. BannerW * BannerH - 1
         \/ vc = BannerY
         \/ vc = BannerY + 1 /\ hc = BannerX + BannerW
<1> DEFINE x == hc - BannerX
           y == BannerY + BannerH - vc
<1>0. /\ BannerX \in Nat /\ BannerY \in Nat
      /\ BannerW \in Nat /\ BannerW > 1 /\ BannerH \in Nat /\ BannerH > 1
  BY ScreenAssumption
<1>1. InBanner(hc, vc)
  BY DEF Picture
<1>2. x \in 0 .. BannerW /\ y \in 0 .. BannerH
  BY <1>0, <1>1 DEF InBanner, VgaInv, Counters
<1>3. BannerWord(hc, vc) = x + y * BannerW
  BY DEF BannerWord
<1>4. ASSUME y + 2 <= BannerH PROVE x + y * BannerW \in 0 .. BannerW * BannerH - 1
  <2>1. BannerW * BannerH = y * BannerW + (BannerH - y - 2) * BannerW + 2 * BannerW
    BY <1>0, <1>2
  <2>2. (BannerH - y - 2) * BannerW >= 0 /\ y * BannerW >= 0
    <3>1. BannerH - y - 2 \in Nat /\ y \in Nat
      BY <1>0, <1>2, <1>4
    <3> HIDE DEF y
    <3> QED
      BY <1>0, <3>1, ProductNat
  <2> QED
    BY <1>0, <1>2, <2>1, <2>2
<1>5. ASSUME y + 1 = BannerH, x # BannerW PROVE x + y * BannerW \in 0 .. BannerW * BannerH - 1
  <2>1. BannerW * BannerH = y * BannerW + BannerW /\ y * BannerW >= 0
    BY <1>0, <1>2, <1>5
  <2> QED
    BY <1>0, <1>2, <1>5, <2>1
<1>6. y = BannerH => vc = BannerY
  BY <1>0 DEF VgaInv, Counters
<1>7. y + 1 = BannerH /\ x = BannerW => vc = BannerY + 1 /\ hc = BannerX + BannerW
  BY <1>0 DEF VgaInv, Counters
<1> HIDE DEF x, y
<1> QED
  BY <1>0, <1>2, <1>3, <1>4, <1>5, <1>6, <1>7

(* The banner reads words outside of its ROM on its top line and at the    *)
(* end of its second line only, for every size (Color_Mapper.sv:90, 141).  *)
THEOREM BannerReads == Spec => []BannerInRom
<1>1. VgaInv => BannerInRom
  BY BannerWords DEF BannerInRom
<1> QED
  BY <1>1, BeamAlways, PTL

-----------------------------------------------------------------------------
LEMMA VgaTypes == VgaInv => VgaTypeOK
<1> SUFFICES ASSUME VgaInv
             PROVE  VgaTypeOK
  OBVIOUS
<1> USE Sizes
<1>1. Counters /\ Pulses
  BY DEF VgaInv
<1>2. since \in 0 .. Line * (vlines + 1) - 1
  <2>1. CASE rises = 0
    <3>1. since = 0
      BY <2>1 DEF VgaInv, Fresh
    <3>2. Line * (vlines + 1) = Line * vlines + Line
      OBVIOUS
    <3>3. Line * vlines >= 0
      BY ProductNat
    <3> QED
      BY <3>1, <3>2, <3>3
  <2>2. CASE rises # 0
    <3>1. since = Lines * Line + hc - 1
      BY <2>2 DEF VgaInv, Clock
    <3>2. /\ Lines \in 0 .. vlines + 1
          /\ Lines = vlines + 1 => hc = 0
          /\ Lines = 0 => hc > 0
      BY <1>1, <2>2 DEF Lines, Below, Counters, Pulses, VgaInv, FirstScan
    <3>3. hc \in 0 .. Line - 1
      BY <1>1 DEF Counters
    <3>4. Line * (vlines + 1) = Lines * Line + (vlines + 1 - Lines) * Line
      BY <3>2
    <3>5. CASE Lines = vlines + 1
      BY <3>1, <3>2, <3>4, <3>5
    <3>6. CASE Lines # vlines + 1
      <4>1. (vlines + 1 - Lines) * Line = (vlines - Lines) * Line + Line
        BY <3>2
      <4>2. (vlines - Lines) * Line >= 0
        <5>1. vlines - Lines \in Nat
          BY <3>2, <3>6
        <5> QED
          BY <5>1, ProductNat
      <4>3. Lines * Line >= 0 /\ (Lines # 0 => Lines * Line >= Line)
        <5>1. Lines \in Nat
          BY <3>2
        <5>2. Lines # 0 => (Lines - 1) * Line >= 0 /\ Lines * Line = (Lines - 1) * Line + Line
          BY <5>1, ProductNat, NextLine
        <5> QED
          BY <5>1, <5>2, ProductNat
      <4> QED
        BY <3>1, <3>2, <3>3, <3>4, <4>1, <4>2, <4>3
    <3> QED
      BY <3>5, <3>6
  <2> QED
    BY <2>1, <2>2
<1> QED
  BY <1>1, <1>2 DEF VgaTypeOK, Counters, Pulses

GameTypes ==
    /\ place0 \in Places /\ place1 \in Places /\ over \in BOOLEAN
    /\ drawn \subseteq 0 .. Sprite * Sprite - 1

LEMMA Residue ==
  ASSUME NEW a \in Int, NEW b \in Nat \ {0}
  PROVE  a % b \in 0 .. b - 1
  OBVIOUS

LEMMA WordInRom ==
  ASSUME NEW place \in Places, NEW x \in Int, NEW y \in Int
  PROVE  SpriteWord(place, x, y) \in 0 .. Sprite * Sprite - 1
<1>1. Sprite \in Nat \ {0} /\ place[1] \in Int /\ place[2] \in Int
  BY ScreenAssumption
<1>2. Sprite * Sprite \in Nat \ {0}
  BY <1>1
<1>3. (Sprite - (y - place[2])) * Sprite + (x - place[1]) \in Int
  BY <1>1
<1> QED
  BY <1>2, <1>3, Residue DEF SpriteWord

LEMMA GameTypesStep == VgaInv /\ GameTypes /\ [Next]_vars => GameTypes'
<1> SUFFICES ASSUME VgaInv, GameTypes, [Next]_vars
             PROVE  GameTypes'
  OBVIOUS
<1>1. CASE Scan
  <2>1. /\ place0' \in Places /\ place1' \in Places /\ over' \in BOOLEAN
    BY <1>1 DEF Scan, GameTick, GameTypes, gameVars
  <2>2. SpriteWord(place0, hc, vc) \in 0 .. Sprite * Sprite - 1
    BY WordInRom DEF VgaInv, Counters, GameTypes
  <2>3. drawn' \subseteq 0 .. Sprite * Sprite - 1
    BY <1>1, <2>2 DEF Scan, Draw, GameTypes
  <2> QED
    BY <2>1, <2>3 DEF GameTypes
<1>2. CASE Reset
  BY <1>2, ScreenAssumption DEF Reset, GameTypes
<1>3. CASE UNCHANGED vars
  BY <1>3 DEF vars, gameVars, GameTypes
<1> QED
  BY <1>1, <1>2, <1>3 DEF Next

(* Every register of controller and mapper keeps its type; in particular   *)
(* the sprite address stays within the ROM (lab62.sv:200-201).             *)
THEOREM TypeCorrect == Spec => []TypeOK
<1>1. Init => GameTypes
  BY ScreenAssumption DEF Init, GameTypes
<1>2. Spec => []GameTypes
  BY <1>1, GameTypesStep, BeamAlways, PTL DEF Spec
<1>3. VgaInv /\ GameTypes => TypeOK
  BY VgaTypes DEF TypeOK, GameTypes
<1> QED
  BY <1>2, <1>3, BeamAlways, PTL

-----------------------------------------------------------------------------
(* The sprite.  Behind the beam lie the pixels that have been drawn.       *)
Behind(x, y) == y < vc \/ (y = vc /\ x < hc)

(* What the tick leaves out: the first pixel of the first scan.            *)
Missed(x, y) == rises = 1 /\ x = 0 /\ y = 0

Scanned ==
    rises # 0 /\ ~Below =>
        \A x \in 0 .. HVisible - 1, y \in 0 .. VVisible - 1 :
            Behind(x, y) /\ ~Missed(x, y) /\ Picture(x, y) = "character0"
              => SpriteWord(place0, x, y) \in drawn

(* As long as the game's registers rest, so does the choice of a pixel.    *)
LEMMA PictureRests ==
  ASSUME UNCHANGED gameVars, NEW x, NEW y
  PROVE  /\ (Picture(x, y) = "character0") <=> (Picture(x, y)' = "character0")
         /\ SpriteWord(place0, x, y)' = SpriteWord(place0, x, y)
  BY DEF gameVars, Picture, InBanner, InScore, On, SpriteWord

(* A pixel adds its own word and leaves the others.                        *)
LEMMA ScannedStep == VgaInv /\ Scanned /\ [Next]_vars => Scanned'
<1> SUFFICES ASSUME VgaInv, Scanned, [Next]_vars
             PROVE  Scanned'
  OBVIOUS
<1> USE Sizes
<1>1. CASE Reset
  BY <1>1 DEF Reset, VgaReset, Scanned
<1>2. CASE UNCHANGED vars
  <2>1. UNCHANGED <<vgaVars, gameVars, drawn>>
    BY <1>2 DEF vars
  <2> QED
    BY <2>1 DEF Scanned, Below, Behind, Missed, vgaVars, gameVars, Picture,
                InBanner, InScore, On, SpriteWord
<1>3. CASE Scan /\ Rise
  <2>1. rises = 0 \/ (vc = VSync + 1 /\ hc = 0)
    BY <1>3, TickAt DEF Scan
  <2>2. CASE rises = 0
    <3>1. rises' = 1 /\ hc' = 1 /\ vc' = 0
      BY <1>3, <2>2 DEF Scan, Pixel, VgaInv, Fresh
    <3> QED
      BY <3>1 DEF Scanned, Behind, Missed
  <2>3. CASE rises # 0
    <3>1. hc' = 1 /\ vc' = VSync + 1
      BY <1>3, <2>1, <2>3 DEF Scan, Pixel
    <3> QED
      BY <3>1 DEF Scanned, Below
  <2> QED
    BY <2>2, <2>3
<1>4. CASE Scan /\ ~Rise
  <2> SUFFICES ASSUME ~Below',
                      NEW x \in 0 .. HVisible - 1, NEW y \in 0 .. VVisible - 1,
                      Behind(x, y)', ~Missed(x, y)', Picture(x, y)' = "character0"
               PROVE  SpriteWord(place0, x, y)' \in drawn'
    BY DEF Scanned
  <2>1. UNCHANGED gameVars /\ Pixel /\ Draw
    BY <1>4 DEF Scan, GameTick
  <2>2. Picture(x, y) = "character0" /\ SpriteWord(place0, x, y)' = SpriteWord(place0, x, y)
    BY <2>1, PictureRests
  <2>3. rises # 0 /\ rises' = rises
    BY <1>4, <2>1, TickAt DEF Pixel
  <2>4. hc \in 0 .. hpixels /\ vc \in 0 .. vlines
    BY DEF VgaInv, Counters
  <2>5. CASE Behind(x, y) /\ ~Below
    <3>1. SpriteWord(place0, x, y) \in drawn
      BY <2>2, <2>3, <2>5 DEF Scanned, Missed
    <3> QED
      BY <1>4, <2>1, <2>2, <3>1 DEF Draw
  <2>6. CASE x = hc /\ y = vc
    <3>1. display /\ Picture(hc, vc) = "character0"
      BY <2>2, <2>6 DEF display
    <3> QED
      BY <1>4, <2>1, <2>2, <2>6, <3>1 DEF Draw
  <2>7. \/ Behind(x, y) /\ ~Below
        \/ x = hc /\ y = vc
    <3>1. CASE hc < hpixels
      <4>1. hc' = hc + 1 /\ vc' = vc
        BY <2>1, <2>4, <3>1 DEF Pixel
      <4> QED
        BY <2>4, <4>1 DEF Behind, Below
    <3>2. CASE hc = hpixels
      <4>1. hc' = 0 /\ vc' = IF vc = vlines THEN 0 ELSE vc + 1
        BY <2>1, <3>2 DEF Pixel
      <4> QED
        BY <2>4, <3>2, <4>1 DEF Behind, Below
    <3> QED
      BY <2>4, <3>1, <3>2
  <2> QED
    BY <2>5, <2>6, <2>7
<1> QED
  BY <1>1, <1>2, <1>3, <1>4 DEF Next

(* Each column of the sprite has the words of its own column of the ROM.   *)
LEMMA ColumnOfWord ==
  ASSUME NEW place \in Places, NEW x \in Int, NEW y \in Int, On(place, x, y)
  PROVE  SpriteWord(place, x, y) % Sprite = x - place[1]
<1> DEFINE c == x - place[1]
           r == Sprite - (y - place[2])
           size == Sprite * Sprite
<1>1. Sprite \in Nat \ {0} /\ place[1] \in Int /\ place[2] \in Int
  BY ScreenAssumption, Sizes
<1>2. c \in 0 .. Sprite - 1 /\ r \in 1 .. Sprite
  BY <1>1 DEF On
<1>3. SpriteWord(place, x, y) = (r * Sprite + c) % size
  BY DEF SpriteWord
<1>4. size \in Nat \ {0}
  BY <1>1
<1>5. size >= Sprite
  <2>1. size = (Sprite - 1) * Sprite + Sprite /\ (Sprite - 1) * Sprite >= 0
    BY <1>1, ProductNat
  <2> QED
    BY <1>1, <2>1
<1> HIDE DEF c, r
<1>6. CASE r = Sprite
  <2>1. r * Sprite + c = 1 * size + c /\ c \in 0 .. size - 1
    BY <1>1, <1>2, <1>5, <1>6
  <2>2. (r * Sprite + c) % size = c
    <3> HIDE DEF size
    <3> QED
      BY <1>1, <1>2, <1>4, <2>1, ModValue
  <2>3. c = 0 * Sprite + c
    BY <1>1, <1>2
  <2>4. c % Sprite = c
    BY <1>1, <1>2, <2>3, ModValue
  <2>5. SpriteWord(place, x, y) % Sprite = c
    <3> HIDE DEF size
    <3> QED
      BY <1>3, <2>2, <2>4
  <2> QED
    BY <2>5 DEF c
<1>7. CASE r # Sprite
  <2>1. r * Sprite + c \in 0 .. size - 1
    <3>1. size = r * Sprite + Sprite + (Sprite - 1 - r) * Sprite
      BY <1>1, <1>2
    <3>2. (Sprite - 1 - r) * Sprite >= 0 /\ r * Sprite >= 0
      <4>1. Sprite - 1 - r \in Nat /\ r \in Nat
        BY <1>1, <1>2, <1>7
      <4> QED
        BY <1>1, <4>1, ProductNat
    <3> QED
      BY <1>1, <1>2, <3>1, <3>2
  <2>2. (r * Sprite + c) % size = r * Sprite + c
    <3> DEFINE word == r * Sprite + c
    <3>1. word = 0 * size + word /\ word \in 0 .. size - 1 /\ word \in Int
      BY <1>4, <2>1
    <3> HIDE DEF word, size
    <3>2. word % size = word
      BY <1>4, <3>1, ModValue
    <3> QED
      BY <3>2 DEF word
  <2>3. (r * Sprite + c) % Sprite = c
    BY <1>1, <1>2, <2>1, ModValue
  <2>5. SpriteWord(place, x, y) % Sprite = c
    <3> HIDE DEF size
    <3> QED
      BY <1>3, <2>2, <2>3
  <2> QED
    BY <2>5 DEF c
<1> QED
  BY <1>6, <1>7

(* Row 0 of the ROM is on the top line, row r > 0 on the line Sprite - r.  *)
LEMMA EveryWordSomewhere ==
  ASSUME NEW place \in Places, NEW w \in 0 .. Sprite * Sprite - 1
  PROVE  \E y \in place[2] .. place[2] + Sprite - 1 :
            SpriteWord(place, place[1] + (w % Sprite), y) = w
<1>1. Sprite \in Nat \ {0} /\ place[1] \in Int /\ place[2] \in Int /\ w \in Int
  BY ScreenAssumption, Sizes
<1>2. PICK r \in Int : w = r * Sprite + (w % Sprite)
  BY <1>1, ModSplit
<1> DEFINE c == w % Sprite
           x == place[1] + c
           y == IF r = 0 THEN place[2] ELSE place[2] + Sprite - r
           size == Sprite * Sprite
<1>3. c \in 0 .. Sprite - 1
  BY <1>1, ModSplit
<1>4. size \in Nat \ {0} /\ w \in 0 .. size - 1
  BY <1>1
<1> HIDE DEF c
<1>5. w = r * Sprite + c
  BY <1>2 DEF c
<1>6. r >= 0
  <2> SUFFICES ASSUME r < 0 PROVE FALSE
    OBVIOUS
  <2>1. r * Sprite = (-1) * Sprite - (-1 - r) * Sprite
    BY <1>1
  <2>2. (-1 - r) * Sprite >= 0
    BY <1>1, ProductNat
  <2> QED
    BY <1>1, <1>3, <1>5, <2>1, <2>2
<1>7. r < Sprite
  <2> SUFFICES ASSUME r >= Sprite PROVE FALSE
    BY <1>1
  <2>1. r * Sprite = Sprite * Sprite + (r - Sprite) * Sprite
    BY <1>1
  <2>2. (r - Sprite) * Sprite >= 0
    BY <1>1, ProductNat
  <2> QED
    BY <1>1, <1>3, <1>5, <2>1, <2>2
<1>8. y \in place[2] .. place[2] + Sprite - 1
  BY <1>1, <1>3, <1>6, <1>7
<1>9. SpriteWord(place, x, y) = w
  <2>1. \A a, q \in Int : a = q * size + w => a % size = w
    <3> HIDE DEF size
    <3> QED
      BY <1>4, ModValue
  <2>2. CASE r = 0
    <3>1. (Sprite - (y - place[2])) * Sprite + (x - place[1]) = 1 * size + w
      BY <1>1, <1>3, <1>5, <2>2
    <3>2. 1 * size + w \in Int /\ 1 \in Int
      BY <1>4
    <3>3. (1 * size + w) % size = w
      BY <2>1, <3>2
    <3> QED
      BY <3>1, <3>3 DEF SpriteWord
  <2>3. CASE r # 0
    <3>1. (Sprite - (y - place[2])) * Sprite + (x - place[1]) = 0 * size + w
      <4>1. Sprite - (y - place[2]) = r /\ x - place[1] = c
        BY <1>1, <1>3, <2>3
      <4> HIDE DEF x, y
      <4> QED
        BY <1>4, <1>5, <4>1
    <3>2. 0 * size + w \in Int /\ 0 \in Int
      BY <1>4
    <3>3. (0 * size + w) % size = w
      BY <2>1, <3>2
    <3> QED
      BY <3>1, <3>3 DEF SpriteWord
  <2> QED
    BY <2>2, <2>3
<1> QED
  BY <1>8, <1>9 DEF c

(* What has been drawn belongs to columns on the screen.                   *)
ShownOnly == \A w \in drawn : ColumnShown(w)

LEMMA ShownOnlyStep == VgaInv /\ GameTypes /\ ShownOnly /\ [Next]_vars => ShownOnly'
<1> SUFFICES ASSUME VgaInv, GameTypes, ShownOnly, [Next]_vars
             PROVE  ShownOnly'
  OBVIOUS
<1>1. CASE Reset
  BY <1>1 DEF Reset, ShownOnly
<1>2. CASE UNCHANGED vars
  BY <1>2 DEF vars, gameVars, ShownOnly, ColumnShown
<1>3. CASE Scan /\ Rise
  BY <1>3 DEF Scan, Draw, ShownOnly
<1>4. CASE Scan /\ ~Rise
  <2> SUFFICES ASSUME NEW w \in drawn'
               PROVE  ColumnShown(w)'
    BY DEF ShownOnly
  <2>1. place0' = place0 /\ Draw
    BY <1>4 DEF Scan, GameTick, gameVars
  <2>2. CASE w \in drawn
    BY <2>1, <2>2 DEF ShownOnly, ColumnShown
  <2>3. CASE w \notin drawn
    <3>1. display /\ Picture(hc, vc) = "character0" /\ w = SpriteWord(place0, hc, vc)
      BY <1>4, <2>1, <2>3 DEF Draw
    <3>2. On(place0, hc, vc) /\ place0 \in Places /\ hc \in Int /\ vc \in Int
      BY <3>1 DEF Picture, GameTypes, VgaInv, Counters
    <3>3. w % Sprite = hc - place0[1] /\ place0[1] \in Int
      BY <3>1, <3>2, ColumnOfWord, ScreenAssumption
    <3> QED
      BY <2>1, <3>1, <3>2, <3>3 DEF display, ColumnShown
  <2> QED
    BY <2>2, <2>3
<1> QED
  BY <1>1, <1>2, <1>3, <1>4 DEF Next

(* In every frame the words of the sprite's ROM that are drawn are those   *)
(* whose column is on the screen, every one of them and no other, for      *)
(* every timing, size and place of the character, at the right edge too    *)
(* (lab62.sv:200-201, ball0.sv:83-87).                                     *)
THEOREM SpriteComplete == Spec => SpriteWhole
<1>1. Init => Scanned /\ ShownOnly
  BY DEF Init, VgaInit, Scanned, ShownOnly
<1>2. Spec => []GameTypes
  <2>1. Init => GameTypes
    BY ScreenAssumption DEF Init, GameTypes
  <2> QED
    BY <2>1, GameTypesStep, BeamAlways, PTL DEF Spec
<1>3. Spec => [](Scanned /\ ShownOnly)
  BY <1>1, <1>2, ScannedStep, ShownOnlyStep, BeamAlways, PTL DEF Spec
<1> DEFINE Shown == {w \in 0 .. Sprite * Sprite - 1 : ColumnShown(w)}
<1>4. VgaInv /\ GameTypes /\ Scanned /\ ShownOnly /\ [Next]_vars
        => [Rise /\ rises # 0 /\ ~Covered => drawn = Shown]_vars
  <2> SUFFICES ASSUME VgaInv, GameTypes, Scanned, ShownOnly, Next,
                      Rise, rises # 0, ~Covered
               PROVE  Shown \subseteq drawn
    BY DEF GameTypes, ShownOnly
  <2>1. Pixel
    BY DEF Next, Scan, Reset, VgaReset, Rise
  <2>2. vc = VSync + 1 /\ hc = 0
    BY <2>1, TickAt
  <2> SUFFICES ASSUME NEW w \in 0 .. Sprite * Sprite - 1, ColumnShown(w)
               PROVE  w \in drawn
    OBVIOUS
  <2> DEFINE x == place0[1] + (w % Sprite)
  <2>3. place0 \in Places
    BY DEF GameTypes
  <2>4. PICK y \in place0[2] .. place0[2] + Sprite - 1 : SpriteWord(place0, x, y) = w
    BY <2>3, EveryWordSomewhere
  <2>5. /\ Sprite \in Nat \ {0} /\ Score \in Nat
        /\ place0[1] \in 0 .. HVisible - 1 /\ place0[2] \in 0 .. VVisible - Sprite
    BY <2>3, ScreenAssumption
  <2>6. x \in place0[1] .. place0[1] + Sprite - 1 /\ x < HVisible
    <3>1. w % Sprite \in 0 .. Sprite - 1
      BY <2>5, Residue
    <3>2. x < HVisible
      BY DEF ColumnShown
    <3> QED
      BY <2>5, <3>1, <3>2
  <2> HIDE DEF x
  <2>7. x \in 0 .. HVisible - 1 /\ y \in 0 .. VVisible - 1
    BY <2>5, <2>6, Sizes
  <2>8. ~InBanner(x, y) /\ ~InScore(x, y)
    BY <2>4, <2>6 DEF Covered
  <2>9. Picture(x, y) = "character0"
    BY <2>5, <2>6, <2>8 DEF Picture, On
  <2>10. Behind(x, y) /\ ~Below
    BY <2>2, <2>7, Sizes DEF Behind, Below
  <2>11. ~Missed(x, y)
    BY <2>5, <2>8 DEF Missed, InScore
  <2> QED
    BY <2>4, <2>7, <2>9, <2>10, <2>11 DEF Scanned
<1> QED
  BY <1>2, <1>3, <1>4, BeamAlways, PTL DEF Spec, SpriteWhole
=============================================================================
