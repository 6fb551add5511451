------------------------------- MODULE Settle -------------------------------
(***************************************************************************)
(* The wait after an attachment (transfer.c:275-284) on the system clock.  *)
(* The firmware turns ticks into milliseconds in 32-bit arithmetic, which  *)
(* wraps before the division.  Module UsbHost has a timer instead, which   *)
(* takes its promises from here, and the way into the wait that sets none. *)
(***************************************************************************)
EXTENDS HalClock

CONSTANTS
    Milli,      \* 1000: milliseconds per second
    Delay       \* 200

ASSUME SettleAssumption ==
    /\ Milli \in Nat \ {0} /\ Delay \in Nat
    /\ Word \div Period + Delay < Word     \* usb_delay does not overflow

VARIABLES
    usb_task_state,     \* "ATTACHED", "SETTLE" or "RESET_DEVICE"
    usb_delay,
    waited              \* history: ticks since usb_delay was set, up to Delay ms

taskVars == <<usb_task_state, usb_delay, waited>>

(* (alt_nticks()*1000)/alt_ticks_per_second()                              *)
Now == ((nticks * Milli) % Word) \div Period

Init ==
    /\ ClockInit
    /\ usb_task_state = "ATTACHED" /\ usb_delay = 0 /\ waited = 0

StartSettle ==
    /\ usb_task_state = "ATTACHED" /\ usb_task_state' = "SETTLE"
    /\ usb_delay' = Plus(Now, Delay) /\ waited' = 0
    /\ UNCHANGED clockVars

EndSettleEarly ==   \* fault: the last millisecond is not waited for
    /\ usb_task_state = "SETTLE" /\ usb_task_state' = "RESET_DEVICE"
    /\ Now >= usb_delay
    /\ UNCHANGED <<clockVars, usb_delay, waited>>

EndSettleLate ==    \* fault: a millisecond more, beyond the last there is
    /\ usb_task_state = "SETTLE" /\ usb_task_state' = "RESET_DEVICE"
    /\ Now > usb_delay + 1
    /\ UNCHANGED <<clockVars, usb_delay, waited>>

EndSettle ==
    /\ usb_task_state = "SETTLE" /\ usb_task_state' = "RESET_DEVICE"
    /\ Now > usb_delay
    /\ UNCHANGED <<clockVars, usb_delay, waited>>

(* Something is plugged in, some time.                                     *)
Attach ==
    /\ usb_task_state' = "ATTACHED"
    /\ UNCHANGED <<clockVars, usb_delay, waited>>

(* So many ticks last longer than Delay milliseconds.                      *)
Long(ticks) == ticks * Milli > Delay * Period

Tick ==
    /\ alt_tick
    /\ waited' = IF Long(waited) THEN waited ELSE waited + 1
    /\ UNCHANGED <<usb_task_state, usb_delay>>

Next == StartSettle \/ EndSettle \/ Attach \/ Tick

vars == <<clockVars, taskVars>>

Spec == Init /\ [][Next]_vars

(* Time passes.  The loop looks at the clock often enough to see each of   *)
(* its values.                                                             *)
FairSpec ==
    /\ Spec
    /\ WF_clockVars(Tick) /\ WF_taskVars(StartSettle) /\ SF_taskVars(EndSettle)

-----------------------------------------------------------------------------
(* The device has more than Delay milliseconds to settle (transfer.c:277): *)
(* no wrap of the tick counter or of its product with 1000, no rounding    *)
(* and no other attachment in between makes the wait shorter.              *)
SettlesLong ==
    [][usb_task_state = "SETTLE" /\ usb_task_state' = "RESET_DEVICE"
         => Long(waited)]_vars

(* The wait ends whenever some value of the clock lies past the deadline,  *)
(* also when the milliseconds wrap first and come round (transfer.c:281).  *)
SettleEndsElse ==
    usb_task_state = "SETTLE"
      /\ (\E n \in 0 .. Word - 1 : ((n * Milli) % Word) \div Period > usb_delay)
    ~> usb_task_state # "SETTLE"

(* "waiting for settle timer to expire" (transfer.c:281): it does.         *)
SettleEnds == usb_task_state = "SETTLE" ~> usb_task_state # "SETTLE"
=============================================================================
