-------------------------------- MODULE Keys --------------------------------
(***************************************************************************)
(* The encoding of a keyboard report in main.c: a loop over its six key    *)
(* codes sets bits of the keycode register, and the direction keys of one  *)
(* character also clear the bit of the opposite direction.  The register   *)
(* is the set of the bits that are 1.                                      *)
(***************************************************************************)
EXTENDS Integers

(* Character 0. *)
A     == 4
W     == 26
D     == 7
SPACE == 44
(* Character 1. *)
ZUO   == 80
SHANG == 82
YOU   == 79
POINT == 55

KeyCodes == {A, W, D, SPACE, ZUO, SHANG, YOU, POINT}

Bit(code) == CASE code = A -> 7     [] code = W -> 6
               [] code = D -> 5     [] code = ZUO -> 4
               [] code = SHANG -> 3 [] code = YOU -> 2
               [] code = SPACE -> 1 [] code = POINT -> 0

OppositeNone(code) == {}        \* fault: no bit is cleared

(* The bit a direction key clears.                                         *)
Opposite(code) == CASE code = A -> {5} [] code = D -> {7}
                    [] code = ZUO -> {2} [] code = YOU -> {4}
                    [] OTHER -> {}

(* One pass of the loop.                                                   *)
Press(keycode, code) ==
    IF code \in KeyCodes THEN (keycode \cup {Bit(code)}) \ Opposite(code)
                         ELSE keycode

Codes == [1 .. 6 -> 0 .. 255]       \* BOOT_KBD_REPORT.keycode

(* The loop over the six codes.                                            *)
KeyByte(codes) ==
    LET k1 == Press({}, codes[1])   k2 == Press(k1, codes[2])
        k3 == Press(k2, codes[3])   k4 == Press(k3, codes[4])
        k5 == Press(k4, codes[5])   k6 == Press(k5, codes[6])
    IN k6
=============================================================================
