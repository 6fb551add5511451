--------------------------- MODULE VgaController ----------------------------
(***************************************************************************)
(* The VGA controller (VGA_controller.sv): two counters follow the beam,   *)
(* two registers make the synchronisation pulses.  The vertical one,       *)
(* VGA_VS, is also the clock of the game (lab62.sv:167-176), which loads   *)
(* its registers on the rising edge.                                       *)
(***************************************************************************)
EXTENDS Integers

CONSTANTS
    hpixels, vlines,        \* last pixel of a line, last line: 799, 524
    HVisible, VVisible,     \* 640, 480
    HSync, HSyncEnd,        \* 656, 752
    VSync                   \* 490

ASSUME VgaAssumption ==
    /\ {hpixels, vlines, HVisible, VVisible, HSync, HSyncEnd, VSync} \subseteq Nat
    /\ 0 < HVisible /\ HVisible < HSync /\ HSync < HSyncEnd /\ HSyncEnd <= hpixels
    /\ 0 < VVisible /\ VVisible < VSync /\ VSync < vlines

VARIABLES
    hc, vc, hs, vs,
    rises, since    \* history: rising edges of vs after a reset, up to 2;
                    \* pixels since the last one or the reset

vgaVars == <<hc, vc, hs, vs, rises, since>>

VgaInit == hc = 0 /\ vc = 0 /\ hs = 0 /\ vs = 0 /\ rises = 0 /\ since = 0

VsLowToEnd == vc + 1 >= VSync           \* fault: the pulse has no end
VsLowOnce  == vc + 1 = VSync            \* fault: one line instead of two

HsLow == hc + 1 >= HSync /\ hc + 1 < HSyncEnd
VsLow == vc + 1 \in {VSync, VSync + 1}

Rise == vs = 0 /\ vs' = 1

(* posedge clkdiv: one pixel. *)
Pixel ==
    /\ \/ hc < hpixels /\ hc' = hc + 1 /\ vc' = vc
       \/ hc = hpixels /\ hc' = 0 /\ vc' = IF vc = vlines THEN 0 ELSE vc + 1
    /\ hs' = IF HsLow THEN 0 ELSE 1
    /\ vs' = IF VsLow THEN 0 ELSE 1
    /\ \/ Rise /\ since' = 0 /\ rises' = IF rises = 2 THEN 2 ELSE rises + 1
       \/ ~Rise /\ since' = since + 1 /\ rises' = rises

(* posedge Reset: KEY[0] at any moment.  The synchronisation signals start *)
(* low.                                                                    *)
VgaReset == hc' = 0 /\ vc' = 0 /\ hs' = 0 /\ vs' = 0 /\ rises' = 0 /\ since' = 0

VgaSpec == VgaInit /\ [][Pixel \/ VgaReset]_vgaVars

display == hc < HVisible /\ vc < VVisible

-----------------------------------------------------------------------------
Line == hpixels + 1

VgaTypeOK ==
    /\ hc \in 0 .. hpixels /\ vc \in 0 .. vlines
    /\ hs \in {0, 1} /\ vs \in {0, 1}
    /\ rises \in 0 .. 2 /\ since \in 0 .. Line * (vlines + 1) - 1

(* The frames of the game have equal length: its clock ticks when vs rises *)
(* and never else, once per scan of all lines.  Only after a reset, which  *)
(* drives vs low in the middle of anything, there is a tick with the first *)
(* pixel and another one after VSync + 1 lines                             *)
(* (VGA_controller.sv:61-80, 100-109).                                     *)
Due ==
    CASE rises = 0 -> 1
      [] rises = 1 -> (VSync + 1) * Line
      [] OTHER     -> (vlines + 1) * Line

TickPeriod == [][Pixel => (Rise <=> since + 1 = Due)]_vgaVars

(* The game ticks while the beam is below the picture, but for the tick    *)
(* that a reset causes (VGA_controller.sv:100-119).                        *)
TickUnseen == [][Rise /\ rises # 0 => vc' >= VVisible]_vgaVars

(* The horizontal pulse never blacks out a part of the picture, but for    *)
(* the first pixel after a reset (VGA_controller.sv:87-96).                *)
HSyncUnseen == hs = 0 /\ rises # 0 => ~display

(* "vertical sync pulse is 2 lines(800 pixels) long at line 490-491"       *)
(* (VGA_controller.sv:98).                                                 *)
VSyncAtLines == vs = 0 /\ rises # 0 => vc \in {VSync, VSync + 1}
=============================================================================
