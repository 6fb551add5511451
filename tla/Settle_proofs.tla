--------------------------- MODULE Settle_proofs ----------------------------
(***************************************************************************)
(* The wait of transfer.c:275-284 is never too short, for every width of   *)
(* the tick counter, every rate of the ticks and every delay.              *)
(***************************************************************************)
EXTENDS Settle, Modulo

(* The product that is divided: what wraps.                                *)
Raw == (nticks * Milli) % Word

(* What the timer says of the time that has passed.  When it was set, the  *)
(* product was less than (usb_delay - Delay + 1) * Period; a tick adds at  *)
(* most Milli to it.                                                       *)
TimerInv ==
    Long(waited) \/ Raw < (usb_delay - Delay + 1) * Period + waited * Milli

IInv ==
    /\ nticks \in 0 .. Word - 1 /\ usb_delay \in Nat /\ waited \in Nat
    /\ usb_task_state = "SETTLE" => TimerInv

LEMMA Constants ==
    /\ Word \in Nat \ {0} /\ Period \in Nat \ {0}
    /\ Milli \in Nat \ {0} /\ Delay \in Nat
    /\ Word \div Period \in Int /\ Word \div Period + Delay < Word
  BY ClockAssumption, SettleAssumption

LEMMA Quotient ==
  ASSUME NEW a \in Nat, NEW m \in Nat \ {0}
  PROVE  /\ a \div m \in Nat
         /\ (a \div m) * m <= a /\ a < (a \div m + 1) * m
<1> DEFINE q == a \div m
<1>1. q \in Int /\ a = q * m + (a % m) /\ a % m \in 0 .. m - 1
  OBVIOUS
<1> HIDE DEF q
<1>2. q * m <= a /\ a < (q + 1) * m
  BY <1>1
<1>3. q \in Nat
  <2>1. ASSUME q < 0 PROVE FALSE
    <3>1. (q + 1) * m <= 0
      BY <1>1, <2>1
    <3> QED
      BY <1>1, <1>2, <3>1
  <2> QED
    BY <1>1, <2>1
<1> QED
  BY <1>2, <1>3 DEF q

LEMMA QuotientOrder ==
  ASSUME NEW a \in Nat, NEW b \in Nat, a <= b, NEW m \in Nat \ {0}
  PROVE  a \div m <= b \div m
<1> DEFINE p == a \div m
           q == b \div m
<1>1. p \in Nat /\ q \in Nat /\ p * m <= a /\ b < (q + 1) * m
  BY Quotient
<1> HIDE DEF p, q
<1>2. ASSUME p >= q + 1 PROVE FALSE
  <2>1. p * m = (q + 1) * m + (p - (q + 1)) * m /\ (p - (q + 1)) * m >= 0
    BY <1>1, <1>2
  <2> QED
    BY <1>1, <2>1
<1> QED
  BY <1>1, <1>2 DEF p, q

(* The milliseconds, and the deadline set from them.                       *)
LEMMA NowFacts ==
  ASSUME nticks \in 0 .. Word - 1
  PROVE  /\ Raw \in 0 .. Word - 1 /\ Now \in Nat
         /\ Now * Period <= Raw /\ Raw < (Now + 1) * Period
         /\ Plus(Now, Delay) = Now + Delay
<1> USE Constants
<1>1. nticks * Milli \in Int
  OBVIOUS
<1>2. Raw \in 0 .. Word - 1
  BY <1>1, ModSplit DEF Raw
<1>3. Now = Raw \div Period
  BY DEF Now, Raw
<1> HIDE DEF Raw
<1>4. /\ Now \in Nat /\ Now * Period <= Raw /\ Raw < (Now + 1) * Period
  BY <1>2, <1>3, Quotient
<1>5. Now <= Word \div Period
  BY <1>2, <1>3, QuotientOrder
<1> QED
  BY <1>2, <1>4, <1>5 DEF Plus

(* A tick adds no more than Milli to the product, wraps included.          *)
LEMMA TickAdds ==
  ASSUME nticks \in 0 .. Word - 1, alt_tick
  PROVE  /\ nticks' \in 0 .. Word - 1
         /\ Raw' \in Nat /\ Raw' <= Raw + Milli
<1> USE Constants
<1>1. nticks' = IF nticks + 1 < Word THEN nticks + 1 ELSE 0
  BY DEF alt_tick, Plus
<1>2. Raw \in 0 .. Word - 1
  BY NowFacts
<1>3. CASE nticks + 1 < Word
  <2>1. Raw' = (nticks * Milli + Milli) % Word
    <3>1. nticks' = nticks + 1 /\ (nticks + 1) * Milli = nticks * Milli + Milli
      BY <1>1, <1>3
    <3> QED
      BY <3>1 DEF Raw
  <2>2. nticks * Milli \in Int /\ Milli \in Int
    OBVIOUS
  <2>3. Raw' = (Raw + Milli) % Word
    BY <2>1, <2>2, ModAdd DEF Raw
  <2>4. (Raw + Milli) % Word \in Nat /\ (Raw + Milli) % Word <= Raw + Milli
    <3> DEFINE a == Raw + Milli
    <3>1. a \in Nat
      BY <1>2
    <3> HIDE DEF a
    <3>2. a \div Word \in Nat /\ a = (a \div Word) * Word + (a % Word) /\ a % Word \in Nat
      BY <3>1, Quotient
    <3>3. (a \div Word) * Word >= 0
      BY <3>2
    <3>4. a % Word <= a
      BY <3>1, <3>2, <3>3
    <3> QED
      BY <3>2, <3>4 DEF a
  <2> QED
    BY <1>1, <1>3, <2>3, <2>4
<1>4. CASE nticks + 1 >= Word
  <2>1. nticks' = 0 /\ 0 * Milli = 0
    BY <1>1, <1>4
  <2>2. Raw' = 0 % Word
    BY <2>1 DEF Raw
  <2>3. 0 % Word = 0
    <3>1. 0 = 0 * Word + 0 /\ 0 \in 0 .. Word - 1
      OBVIOUS
    <3> QED
      BY <3>1, ModValue
  <2> QED
    BY <1>2, <2>1, <2>2, <2>3
<1> QED
  BY <1>3, <1>4

LEMMA InvInit == Init => IInv
  BY Constants DEF Init, ClockInit, IInv

LEMMA InvStep == IInv /\ [Next]_vars => IInv'
<1> SUFFICES ASSUME IInv, [Next]_vars PROVE IInv'
  OBVIOUS
<1> USE Constants
<1>0. nticks \in 0 .. Word - 1 /\ usb_delay \in Nat /\ waited \in Nat
  BY DEF IInv
<1>1. CASE StartSettle
  <2>1. /\ Raw \in 0 .. Word - 1 /\ Now \in Nat
        /\ Raw < (Now + 1) * Period /\ Plus(Now, Delay) = Now + Delay
    BY <1>0, NowFacts
  <2>2. usb_delay' = Now + Delay /\ waited' = 0 /\ nticks' = nticks
    BY <1>1, <2>1 DEF StartSettle, clockVars
  <2>3. Raw' = Raw
    BY <2>2 DEF Raw
  <2>4. usb_delay' - Delay + 1 = Now + 1 /\ waited' * Milli = 0
    BY <2>1, <2>2
  <2>5. (usb_delay' - Delay + 1) * Period + waited' * Milli = (Now + 1) * Period
    BY <2>1, <2>4
  <2>6. TimerInv'
    BY <2>1, <2>3, <2>5 DEF TimerInv
  <2> QED
    BY <1>0, <2>1, <2>2, <2>6 DEF IInv
<1>2. CASE EndSettle \/ Attach \/ UNCHANGED vars
  <2>1. /\ UNCHANGED <<nticks, usb_delay, waited>>
        /\ usb_task_state' \in {"ATTACHED", "RESET_DEVICE", usb_task_state}
    BY <1>2 DEF EndSettle, Attach, vars, taskVars, clockVars
  <2> QED
    BY <2>1 DEF IInv, TimerInv, Long, Raw
<1>3. CASE Tick
  <2>1. UNCHANGED <<usb_task_state, usb_delay>> /\ alt_tick
    BY <1>3 DEF Tick
  <2>2. nticks' \in 0 .. Word - 1 /\ Raw' \in Nat /\ Raw' <= Raw + Milli
    BY <1>0, <2>1, TickAdds
  <2>3. Raw \in Nat
    BY <1>0, NowFacts
  <2>4. CASE Long(waited)
    <3>1. waited' = waited
      BY <1>3, <2>4 DEF Tick
    <3>2. Long(waited)'
      BY <2>4, <3>1 DEF Long
    <3> QED
      BY <1>0, <2>1, <2>2, <3>1, <3>2 DEF IInv, TimerInv
  <2>5. CASE ~Long(waited)
    <3>1. waited' = waited + 1
      BY <1>3, <2>5 DEF Tick
    <3>2. waited' * Milli = waited * Milli + Milli
      BY <1>0, <3>1
    <3> DEFINE line == (usb_delay - Delay + 1) * Period
    <3>3. line \in Int /\ waited * Milli \in Int
      BY <1>0
    <3>4. usb_task_state' = "SETTLE" => Raw < line + waited * Milli
      BY <2>1, <2>5 DEF IInv, TimerInv
    <3> HIDE DEF line
    <3>5. usb_task_state' = "SETTLE" => Raw' < line + waited' * Milli
      BY <2>2, <2>3, <3>2, <3>3, <3>4
    <3>6. usb_task_state' = "SETTLE" => TimerInv'
      BY <2>1, <3>5 DEF TimerInv, line
    <3> QED
      BY <1>0, <2>1, <2>2, <3>1, <3>6 DEF IInv
  <2> QED
    BY <2>4, <2>5
<1> QED
  BY <1>1, <1>2, <1>3 DEF Next

LEMMA InvLong ==
  ASSUME IInv, EndSettle
  PROVE  Long(waited)
<1> USE Constants
<1>1. /\ nticks \in 0 .. Word - 1 /\ usb_delay \in Nat /\ waited \in Nat
      /\ TimerInv /\ Now > usb_delay
  BY DEF IInv, EndSettle
<1>2. Raw \in Nat /\ Now \in Nat /\ Now * Period <= Raw
  BY <1>1, NowFacts
<1>3. ASSUME Raw < (usb_delay - Delay + 1) * Period + waited * Milli
      PROVE  Long(waited)
  <2>1. Now * Period = (usb_delay + 1) * Period + (Now - (usb_delay + 1)) * Period
    BY <1>1, <1>2
  <2>2. (Now - (usb_delay + 1)) * Period >= 0
    BY <1>1, <1>2
  <2>3. (usb_delay - Delay + 1) * Period = (usb_delay + 1) * Period - Delay * Period
    BY <1>1
  <2> DEFINE up == (usb_delay + 1) * Period
             dp == Delay * Period
             wm == waited * Milli
  <2>4. up \in Int /\ dp \in Int /\ wm \in Int /\ Now * Period \in Int
    BY <1>1, <1>2
  <2>5. Now * Period >= up
    BY <1>1, <1>2, <2>1, <2>2
  <2>6. Raw < up - dp + wm
    BY <1>3, <2>3
  <2> HIDE DEF up, dp, wm
  <2>7. wm > dp
    BY <1>2, <2>4, <2>5, <2>6
  <2> QED
    BY <2>7 DEF Long, wm, dp
<1> QED
  BY <1>1, <1>3 DEF TimerInv

(* A device has more than the delay to settle, wherever in its period the  *)
(* tick counter and the product with 1000 are when it is plugged in        *)
(* (transfer.c:277 and 281): the wraps may hang the wait, as SettleEnds    *)
(* shows, and never shorten it.                                            *)
THEOREM NeverEarly == Spec => SettlesLong
<1>1. Spec => []IInv
  BY InvInit, InvStep, PTL DEF Spec
<1>2. IInv /\ [Next]_vars
        => [usb_task_state = "SETTLE" /\ usb_task_state' = "RESET_DEVICE"
              => Long(waited)]_vars
  <2> SUFFICES ASSUME IInv, Next,
                      usb_task_state = "SETTLE", usb_task_state' = "RESET_DEVICE"
               PROVE  Long(waited)
    OBVIOUS
  <2>1. EndSettle
    BY DEF Next, StartSettle, Attach, Tick
  <2> QED
    BY <2>1, InvLong
<1> QED
  BY <1>1, <1>2, PTL DEF Spec, SettlesLong
=============================================================================
