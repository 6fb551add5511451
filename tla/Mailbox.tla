------------------------------ MODULE Mailbox ------------------------------
(***************************************************************************)
(* What polling a keyboard promises.  While the connection is open the     *)
(* keyboard posts one report at a time and the game takes each of them     *)
(* once: turn changes with every report that is taken, so that a second    *)
(* copy of a report is not mistaken for nothing.                           *)
(***************************************************************************)
EXTENDS Integers

CONSTANTS Letters, NoLetter,
          Read(_)               \* what the reader makes of a letter

VARIABLES open, slot, turn, inbox

vars == <<open, slot, turn, inbox>>

Init == ~open /\ slot = NoLetter /\ turn = 0 /\ inbox = {}

Connect ==
    /\ ~open /\ open' = TRUE
    /\ slot' \in Letters \cup {NoLetter}
    /\ UNCHANGED <<turn, inbox>>

Disconnect ==
    /\ open /\ open' = FALSE
    /\ slot' = NoLetter /\ turn' = 0
    /\ UNCHANGED inbox

Post ==
    /\ open /\ slot = NoLetter
    /\ slot' \in Letters
    /\ UNCHANGED <<open, turn, inbox>>

Take ==
    /\ open /\ slot # NoLetter
    /\ inbox' = Read(slot)
    /\ slot' = NoLetter /\ turn' = 1 - turn
    /\ UNCHANGED open

Next == Connect \/ Disconnect \/ Post \/ Take

Spec == Init /\ [][Next]_vars
=============================================================================
