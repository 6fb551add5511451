------------------------------ MODULE MAX3421E ------------------------------
(***************************************************************************)
(* The USB host controller chip and the cable behind it, as far as the     *)
(* firmware in software/final reads and writes them.  The chip is not part *)
(* of the repository: its registers are modelled from their use there.     *)
(*                                                                         *)
(*   hirq    the pending bits of HIRQ; only CONDET drives the INT pin,     *)
(*           because only CONDETIE is enabled                              *)
(*   busrst  HCTL.BUSRST, which the chip clears when the reset is over     *)
(*   mode    the two bits of MODE the firmware changes                     *)
(*   line    what is plugged in: nothing ("SE0"), a device of one of the   *)
(*           two speeds, or an illegal level on both wires ("SE1")         *)
(*   kind, devaddr   the device: what it is, and the address it answers to *)
(***************************************************************************)
EXTENDS Integers

CONSTANTS
    Kinds,          \* what may be plugged in: subset of "keyboard", "mouse", "other"
    MaxEvents       \* bound: disturbances of the bus in one behaviour

VARIABLES hirq, busrst, mode, line, kind, devaddr, events

chipVars == <<hirq, busrst, mode, line, kind, devaddr, events>>

Irqs   == {"CONDET", "BUSEVENT", "FRAME"}
Speeds == {"full", "low"}
Lines  == Speeds \cup {"SE0", "SE1"}

Unreset == -1       \* a device that has seen no bus reset answers nobody

ChipInit ==
    /\ hirq = {} /\ busrst = FALSE
    /\ mode = [low |-> FALSE, sof |-> FALSE]
    /\ line \in {"SE0"} \cup Speeds /\ kind \in Kinds /\ devaddr = Unreset
    /\ events = 0

(* A device is plugged in, pulled out or exchanged.                        *)
Plug ==
    /\ events < MaxEvents /\ events' = events + 1
    /\ line' \in Lines /\ kind' \in Kinds
    /\ line' = line => line \in Speeds
    /\ devaddr' = Unreset
    /\ hirq' = hirq \cup {"CONDET"}
    /\ UNCHANGED <<busrst, mode>>

(* "bus reset causes connection detect interrupt" (MAX3421E.c:149).        *)
ResetNoise ==
    /\ busrst /\ "CONDET" \notin hirq
    /\ events < MaxEvents /\ events' = events + 1
    /\ hirq' = hirq \cup {"CONDET"}
    /\ UNCHANGED <<busrst, mode, line, kind, devaddr>>

ResetDone ==
    /\ busrst /\ busrst' = FALSE
    /\ hirq' = hirq \cup {"BUSEVENT"}
    /\ devaddr' = IF line \in Speeds THEN 0 ELSE Unreset
    /\ UNCHANGED <<mode, line, kind, events>>

StartOfFrame ==
    /\ mode.sof /\ ~busrst /\ "FRAME" \notin hirq
    /\ hirq' = hirq \cup {"FRAME"}
    /\ UNCHANGED <<busrst, mode, line, kind, devaddr, events>>

ChipNext == Plug \/ ResetNoise \/ ResetDone \/ StartOfFrame

(* HRSL names the two levels J and K after the speed the host is set to.   *)
JStatus == line \in Speeds /\ (line = "low") = mode.low
KStatus == line \in Speeds /\ (line = "low") # mode.low

(* Only the device with that address, at the host's speed and on a running *)
(* bus, can answer a transfer.  It still may fail to.                      *)
Answers(a) ==
    /\ line \in Speeds /\ (line = "low") = mode.low
    /\ mode.sof /\ ~busrst
    /\ devaddr = a

ChipTypeOK ==
    /\ hirq \subseteq Irqs
    /\ busrst \in BOOLEAN /\ mode \in [low : BOOLEAN, sof : BOOLEAN]
    /\ line \in Lines /\ kind \in Kinds
    /\ events \in 0 .. MaxEvents
=============================================================================
