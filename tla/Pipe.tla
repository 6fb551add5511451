-------------------------------- MODULE Pipe --------------------------------
(***************************************************************************)
(* What printing through a buffered device promises: a pipe.  A call puts  *)
(* its characters in from the front to the back, in as many portions as it *)
(* takes, and may give up the rest; the reader gets them one by one in the *)
(* order they were put in; the pipe never holds more than its capacity.    *)
(* Characters are numbered by their position in the stream, modulo Chars.  *)
(***************************************************************************)
EXTENDS Integers, Sequences

CONSTANTS Capacity, Longest, Chars

VARIABLES inside,               \* the characters in the pipe
          printed, received,    \* the next one to go in and to come out
          todo                  \* how many the call has still to put in

vars == <<inside, printed, received, todo>>

Init == inside = <<>> /\ printed = 0 /\ received = 0 /\ todo = 0

Call ==
    /\ todo = 0 /\ todo' \in 1 .. Longest
    /\ UNCHANGED <<inside, printed, received>>

Put ==
    \E k \in 1 .. todo :
        /\ Len(inside) + k <= Capacity
        /\ inside' = inside \o [i \in 1 .. k |-> (printed + i - 1) % Chars]
        /\ printed' = (printed + k) % Chars
        /\ todo' = todo - k
        /\ UNCHANGED received

GiveUp ==
    /\ todo > 0 /\ todo' = 0
    /\ UNCHANGED <<inside, printed, received>>

Get ==
    /\ inside # <<>> /\ Head(inside) = received
    /\ inside' = Tail(inside) /\ received' = (received + 1) % Chars
    /\ UNCHANGED <<printed, todo>>

Next == Call \/ Put \/ GiveUp \/ Get

Spec == Init /\ [][Next]_vars
=============================================================================
