------------------------------ MODULE HalClock ------------------------------
(***************************************************************************)
(* The system clock of the board support package: alt_tick.c and           *)
(* alt_alarm_start.c, called once per millisecond by the timer's           *)
(* interrupt (altera_avalon_timer_sc.c).  One alarm is registered, that of *)
(* the JTAG UART; its callback asks to be called again after Period ticks. *)
(* All counters are 32-bit registers that wrap.                            *)
(***************************************************************************)
EXTENDS Integers

CONSTANTS
    Word,       \* 2^32
    Period      \* alt_ticks_per_second()

ASSUME ClockAssumption ==
    /\ Word \in Nat /\ Period \in Nat \ {0} /\ Period + 1 < Word

VARIABLES
    nticks,             \* _alt_nticks
    time, rollover,     \* of the alarm
    age                 \* history: ticks since the alarm was set

clockVars == <<nticks, time, rollover, age>>

Plus(a, b) == IF a + b < Word THEN a + b ELSE a + b - Word

(* alt_alarm_start at any moment of the clock; the first call is one tick  *)
(* late so that it is never early.                                         *)
ClockInit ==
    /\ nticks \in 0 .. Word - 1
    /\ time = Plus(nticks, Period + 1)
    /\ rollover = (time < nticks)
    /\ age = -1

DueAlways == time <= Plus(nticks, 1)    \* fault: rollover is ignored

(* Does this tick call the alarm back?                                     *)
Due ==
    /\ time <= Plus(nticks, 1)
    /\ ~rollover \/ Plus(nticks, 1) = 0

alt_tick ==
    /\ nticks' = Plus(nticks, 1)
    /\ \/ /\ Due
          /\ time' = Plus(time, Period)
          /\ rollover' = (time' < nticks')
          /\ age' = 0
       \/ /\ ~Due
          /\ rollover' = (rollover /\ nticks' # 0)
          /\ age' = age + 1
          /\ UNCHANGED time

ClockTypeOK ==
    /\ nticks \in 0 .. Word - 1 /\ time \in 0 .. Word - 1
    /\ rollover \in BOOLEAN /\ age \in -1 .. Period

ClockSpec == ClockInit /\ [][alt_tick]_clockVars

(* The alarm is called exactly every Period ticks, also across the moment  *)
(* at which the tick counter starts again from 0 (alt_tick.c:107-137,      *)
(* alt_alarm_start.c:84-96).                                               *)
AlarmOnTime == Due <=> age + 1 = Period
=============================================================================
