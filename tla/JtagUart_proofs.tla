-------------------------- MODULE JtagUart_proofs ---------------------------
(***************************************************************************)
(* Theorems about the system clock and the JTAG UART: the alarm is on time *)
(* for every width of the tick counter and every period; the stream of     *)
(* characters is whole for every size of the ring and of the FIFO.         *)
(***************************************************************************)
EXTENDS JtagUart, Modulo, SequenceTheorems, TLAPS

(* The inductive invariant: the alarm lies Period - age ticks ahead, and   *)
(* rollover says whether the tick counter wraps on the way.                *)
Ahead ==
    /\ nticks \in 0 .. Word - 1
    /\ age \in -1 .. Period - 1
    /\ time = Plus(nticks, Period - age)
    /\ rollover = (nticks + (Period - age) >= Word)

LEMMA AheadFacts == Ahead => ClockTypeOK /\ AlarmOnTime
<1> USE ClockAssumption DEF Ahead, Plus
<1>1. Ahead => ClockTypeOK
  BY DEF ClockTypeOK
<1>2. ASSUME Ahead PROVE AlarmOnTime
  <2>1. CASE nticks + (Period - age) < Word
    <3>1. ~(nticks + (Period - age) >= Word)
      BY <1>2, <2>1 DEF Ahead
    <3>2. ~rollover
      BY <1>2, <3>1, Zenon DEF Ahead
    <3>3. time = nticks + (Period - age)
      BY <1>2, <2>1
    <3>4. Due <=> time <= Plus(nticks, 1)
      BY <3>2 DEF Due
    <3> QED
      BY <1>2, <2>1, <3>3, <3>4 DEF AlarmOnTime
  <2>2. CASE nticks + (Period - age) >= Word
    <3>1. rollover
      BY <1>2, <2>2, Zenon DEF Ahead
    <3>2. time = nticks + (Period - age) - Word
      BY <1>2, <2>2
    <3>3. Due <=> time <= Plus(nticks, 1) /\ Plus(nticks, 1) = 0
      BY <3>1 DEF Due
    <3> QED
      BY <1>2, <2>2, <3>2, <3>3 DEF AlarmOnTime
  <2> QED
    BY <1>2, <2>1, <2>2
<1> QED
  BY <1>1, <1>2

LEMMA AheadInit == ClockInit => Ahead
  BY ClockAssumption DEF ClockInit, Ahead, Plus

LEMMA AheadStep == Ahead /\ [alt_tick]_clockVars => Ahead'
<1> SUFFICES ASSUME Ahead, [alt_tick]_clockVars
             PROVE  Ahead'
  OBVIOUS
<1> USE ClockAssumption
<1>0. Due <=> age + 1 = Period
  BY AheadFacts DEF AlarmOnTime
<1>1. CASE alt_tick /\ Due
  <2>1. /\ nticks' = Plus(nticks, 1) /\ age' = 0
        /\ time' = Plus(time, Period) /\ rollover' = (time' < nticks')
    BY <1>1 DEF alt_tick
  <2>2. age = Period - 1 /\ time = Plus(nticks, 1)
    BY <1>0, <1>1 DEF Ahead
  <2>3. nticks' \in 0 .. Word - 1
    BY <2>1 DEF Ahead, Plus
  <2> QED
    BY <2>1, <2>2, <2>3 DEF Ahead, Plus
<1>2. CASE alt_tick /\ ~Due
  <2>1. /\ nticks' = Plus(nticks, 1) /\ age' = age + 1 /\ time' = time
        /\ rollover' = (rollover /\ nticks' # 0)
    BY <1>2 DEF alt_tick
  <2>2. age' \in -1 .. Period - 1
    BY <1>0, <1>2, <2>1 DEF Ahead
  <2>3. nticks' \in 0 .. Word - 1
    BY <2>1 DEF Ahead, Plus
  <2>4. time' = Plus(nticks', Period - age')
    BY <2>1, <2>2, <2>3 DEF Ahead, Plus
  <2>5. (nticks + (Period - age) >= Word /\ nticks' # 0)
          = (nticks' + (Period - age') >= Word)
    BY <2>1, <2>2, <2>3 DEF Ahead, Plus
  <2>6. rollover' = (nticks' + (Period - age') >= Word)
    BY <2>1, <2>5, Zenon DEF Ahead
  <2> QED
    BY <2>2, <2>3, <2>4, <2>6 DEF Ahead
<1>3. CASE UNCHANGED clockVars
  BY <1>3 DEF Ahead, clockVars
<1> QED
  BY <1>1, <1>2, <1>3

(* The system clock calls its alarm on time, for every width of the tick   *)
(* counter, every period and every moment of registration                  *)
(* (alt_tick.c:107-137, alt_alarm_start.c:84-96).                          *)
THEOREM ClockOnTime == ClockSpec => []AlarmOnTime
<1>1. ClockSpec => []Ahead
  BY AheadInit, AheadStep, PTL DEF ClockSpec
<1> QED
  BY <1>1, AheadFacts, PTL

LEMMA ClockSteps == [Next]_vars => [alt_tick]_clockVars
  BY DEF Next, vars, clockVars, Program, WriteCall, CopyLoad, CopyMove, Kick,
         Wait, Check, Isr, Tick, Host, HostReads, HostPolls

(* So does the clock inside the driver, whatever the program, the          *)
(* interrupt routine and the host do between its ticks.                    *)
THEOREM DriverOnTime == Spec => []AlarmOnTime
<1>1. Init => ClockInit
  BY DEF Init
<1>2. Spec => ClockSpec
  BY <1>1, ClockSteps, PTL DEF Spec, ClockSpec
<1> QED
  BY <1>2, ClockOnTime

-----------------------------------------------------------------------------
(* The arithmetic of the ring and of the stream.                           *)
Gap(i, o)  == (i - o) % BUF_LEN         \* the characters between out and in
Cell(o, j) == (o + j - 1) % BUF_LEN     \* the place of the j-th of them
Nth(r, i)  == (r + i) % Chars           \* the character i places after r

LEMMA GapValue ==
  ASSUME NEW i \in Index, NEW o \in Index
  PROVE  Gap(i, o) = IF i >= o THEN i - o ELSE i - o + BUF_LEN
<1> USE UartAssumption DEF Index
<1>0. \A a, q \in Int, r \in 0 .. BUF_LEN - 1 : a = q * BUF_LEN + r => a % BUF_LEN = r
  BY ModValue
<1>1. CASE i >= o
  <2>1. i - o = 0 * BUF_LEN + (i - o) /\ i - o \in 0 .. BUF_LEN - 1
    BY <1>1
  <2>2. (i - o) % BUF_LEN = i - o
    BY <1>0, <2>1
  <2> QED
    BY <1>1, <2>2 DEF Gap
<1>2. CASE i < o
  <2>1. i - o = (-1) * BUF_LEN + (i - o + BUF_LEN) /\ i - o + BUF_LEN \in 0 .. BUF_LEN - 1
    BY <1>2
  <2>2. (i - o) % BUF_LEN = i - o + BUF_LEN
    BY <1>0, <2>1
  <2> QED
    BY <1>2, <2>2 DEF Gap
<1> QED
  BY <1>1, <1>2

LEMMA RingValue ==
  ASSUME NEW a \in 0 .. 2 * BUF_LEN - 1
  PROVE  /\ a < BUF_LEN => a % BUF_LEN = a
         /\ a >= BUF_LEN => a % BUF_LEN = a - BUF_LEN
<1> USE UartAssumption
<1>0. \A q \in Int, r \in 0 .. BUF_LEN - 1 : a = q * BUF_LEN + r => a % BUF_LEN = r
  BY ModValue
<1>1. a = 0 * BUF_LEN + a /\ a = 1 * BUF_LEN + (a - BUF_LEN)
  OBVIOUS
<1>2. a < BUF_LEN => a \in 0 .. BUF_LEN - 1
  OBVIOUS
<1>3. a >= BUF_LEN => a - BUF_LEN \in 0 .. BUF_LEN - 1
  OBVIOUS
<1>4. 0 \in Int /\ 1 \in Int
  OBVIOUS
<1> QED
  BY <1>0, <1>1, <1>2, <1>3, <1>4, Zenon

LEMMA CellValue ==
  ASSUME NEW o \in Index, NEW j \in 1 .. BUF_LEN
  PROVE  Cell(o, j) = IF o + j - 1 < BUF_LEN THEN o + j - 1 ELSE o + j - 1 - BUF_LEN
<1> USE UartAssumption DEF Index
<1>1. o + j - 1 \in 0 .. 2 * BUF_LEN - 1
  OBVIOUS
<1>2. \A a \in 0 .. 2 * BUF_LEN - 1 : /\ a < BUF_LEN => a % BUF_LEN = a
                                      /\ a >= BUF_LEN => a % BUF_LEN = a - BUF_LEN
  BY RingValue, Zenon
<1>3. PICK a \in 0 .. 2 * BUF_LEN - 1 : a = o + j - 1
  BY <1>1
<1>4. Cell(o, j) = a % BUF_LEN
  BY <1>3 DEF Cell
<1> QED
  BY <1>2, <1>3, <1>4

LEMMA NthFacts ==
  ASSUME NEW r \in Int, NEW i \in Int, NEW j \in Int
  PROVE  /\ Nth(r, i) \in Char
         /\ Nth(Nth(r, i), j) = Nth(r, i + j)
<1> USE UartAssumption
<1>1. Nth(r, i) \in Char
  BY ModSplit DEF Nth, Char
<1>2. \A a, b \in Int, m \in Nat \ {0} : ((a % m) + b) % m = (a + b) % m
  BY ModAdd, Zenon
<1>3. Chars \in Nat \ {0} /\ r + i \in Int /\ (r + i) + j = r + (i + j)
  OBVIOUS
<1>4. (((r + i) % Chars) + j) % Chars = ((r + i) + j) % Chars
  BY <1>2, <1>3, Zenon
<1>5. (((r + i) % Chars) + j) % Chars = (r + (i + j)) % Chars
  BY <1>3, <1>4, Zenon
<1> QED
  BY <1>1, <1>5, Zenon DEF Nth

(* What write computes fits behind in and leaves one slot free.            *)
LEMMA RunFits ==
  ASSUME NEW i \in Index, NEW o \in Index
  PROVE  Run(i, o) \in Nat /\ i + Run(i, o) <= BUF_LEN /\ Gap(i, o) + Run(i, o) <= BUF_LEN - 1
  BY GapValue, UartAssumption DEF Index, Run

LEMMA Advance ==
  ASSUME NEW o \in Index, NEW k \in 0 .. BUF_LEN - 1
  PROVE  (o + k) % BUF_LEN = IF o + k < BUF_LEN THEN o + k ELSE o + k - BUF_LEN
<1>1. PICK a \in 0 .. 2 * BUF_LEN - 1 : a = o + k
  BY UartAssumption DEF Index
<1>2. /\ a < BUF_LEN => a % BUF_LEN = a
      /\ a >= BUF_LEN => a % BUF_LEN = a - BUF_LEN
  BY RingValue, Zenon
<1>3. (o + k) % BUF_LEN = a % BUF_LEN
  BY <1>1
<1> QED
  BY <1>1, <1>2, <1>3, UartAssumption DEF Index

LEMMA RingTypes ==
  ASSUME NEW i \in Index, NEW o \in Index
  PROVE  /\ Gap(i, o) \in 0 .. BUF_LEN - 1
         /\ \A j \in 1 .. BUF_LEN : Cell(o, j) \in Index
<1>1. Gap(i, o) = IF i >= o THEN i - o ELSE i - o + BUF_LEN
  BY GapValue
<1>2. ASSUME NEW j \in 1 .. BUF_LEN
      PROVE  Cell(o, j) \in Index
  <2>1. Cell(o, j) = IF o + j - 1 < BUF_LEN THEN o + j - 1 ELSE o + j - 1 - BUF_LEN
    BY CellValue
  <2> QED
    BY <2>1, UartAssumption DEF Index
<1> QED
  BY <1>1, <1>2, UartAssumption DEF Index

LEMMA RingFacts ==
  ASSUME NEW buf \in [Index -> Char], NEW i \in Index, NEW o \in Index
  PROVE  /\ Ring(buf, o, i) \in Seq(Char)
         /\ Len(Ring(buf, o, i)) = Gap(i, o)
         /\ \A j \in 1 .. Gap(i, o) : Ring(buf, o, i)[j] = buf[Cell(o, j)]
<1> USE UartAssumption
<1>1. Gap(i, o) \in 0 .. BUF_LEN - 1
  BY RingTypes
<1>2. \A j \in 1 .. Gap(i, o) : Cell(o, j) \in Index
  <2> TAKE j \in 1 .. Gap(i, o)
  <2>1. j \in 1 .. BUF_LEN
    BY <1>1
  <2> QED
    BY <2>1, RingTypes
<1>3. Ring(buf, o, i) = [j \in 1 .. Gap(i, o) |-> buf[Cell(o, j)]]
  BY Zenon DEF Ring, Gap, Cell
<1> QED
  BY <1>1, <1>2, <1>3

(* One pass of the interrupt routine moves the k oldest characters of the  *)
(* ring behind those of the FIFO.                                          *)
Moved(k) ==
    /\ k \in 0 .. Gap(tx_in, tx_out) /\ Len(txFifo) + k <= FIFO_DEPTH
    /\ txFifo' \in Seq(Char) /\ Len(txFifo') = Len(txFifo) + k
    /\ \A i \in 1 .. Len(txFifo) : txFifo'[i] = txFifo[i]
    /\ \A j \in 1 .. k : txFifo'[Len(txFifo) + j] = tx_buf[Cell(tx_out, j)]
    /\ tx_out' = IF tx_out + k < BUF_LEN THEN tx_out + k ELSE tx_out + k - BUF_LEN
    /\ irq_enable' \subseteq irq_enable
    /\ k < Gap(tx_in, tx_out) => irq_enable' = irq_enable

LEMMA IsrFacts == TypeOK /\ Isr => \E k \in Nat : Moved(k)
<1> SUFFICES ASSUME TypeOK, Isr
             PROVE  \E k \in Nat : Moved(k)
  OBVIOUS
<1> USE UartAssumption
<1>0. /\ tx_in \in Index /\ tx_out \in Index /\ tx_buf \in [Index -> Char]
      /\ txFifo \in Seq(Char) /\ Len(txFifo) \in Nat /\ Len(txFifo) < FIFO_DEPTH
  BY DEF TypeOK, Isr
<1> DEFINE ring == Ring(tx_buf, tx_out, tx_in)
           g == Gap(tx_in, tx_out)
           space == FIFO_DEPTH - Len(txFifo)
           k == Least(space, Len(ring))
<1>1. /\ ring \in Seq(Char) /\ Len(ring) = g
      /\ \A j \in 1 .. g : ring[j] = tx_buf[Cell(tx_out, j)]
  BY <1>0, RingFacts
<1>2. g \in 0 .. BUF_LEN - 1
  BY <1>0, RingTypes
<1>3. /\ txFifo' = txFifo \o SubSeq(ring, 1, k)
      /\ tx_out' = (tx_out + k) % BUF_LEN
      /\ irq_enable' \subseteq irq_enable
      /\ ~(k < space) => irq_enable' = irq_enable
  BY DEF Isr
<1> HIDE DEF ring, g
<1>4. /\ k \in 0 .. g /\ k \in 0 .. BUF_LEN - 1 /\ Len(txFifo) + k <= FIFO_DEPTH
      /\ k < g => ~(k < space)
  BY <1>0, <1>1, <1>2 DEF Least
<1> HIDE DEF k
<1>5. /\ SubSeq(ring, 1, k) \in Seq(Char) /\ Len(SubSeq(ring, 1, k)) = k
      /\ \A j \in 1 .. k : SubSeq(ring, 1, k)[j] = ring[j]
  BY <1>1, <1>2, <1>4
<1>6. /\ txFifo' \in Seq(Char) /\ Len(txFifo') = Len(txFifo) + k
      /\ \A i \in 1 .. Len(txFifo) : txFifo'[i] = txFifo[i]
      /\ \A j \in 1 .. k : txFifo'[Len(txFifo) + j] = SubSeq(ring, 1, k)[j]
  BY <1>0, <1>3, <1>4, <1>5
<1>7. tx_out' = IF tx_out + k < BUF_LEN THEN tx_out + k ELSE tx_out + k - BUF_LEN
  BY <1>0, <1>3, <1>4, Advance
<1>8. \A j \in 1 .. k : txFifo'[Len(txFifo) + j] = tx_buf[Cell(tx_out, j)]
  BY <1>1, <1>2, <1>4, <1>5, <1>6
<1>9. Moved(k)
  BY <1>3, <1>4, <1>6, <1>7, <1>8 DEF Moved, g
<1> QED
  BY <1>4, <1>9

-----------------------------------------------------------------------------
(* The inductive invariant of the driver: the alarm's, the types, and what *)
(* a copy in progress has still to respect.                                *)
Fits ==
    pc = "move" =>
        n <= count /\ tx_in + n <= BUF_LEN /\ Gap(tx_in, tx_out) + n <= BUF_LEN - 1

(* Where every character of the stream lies.                               *)
Lies ==
    /\ \A i \in 1 .. Len(txFifo) : txFifo[i] = Nth(received, i - 1)
    /\ \A j \in 1 .. Gap(tx_in, tx_out) :
          tx_buf[Cell(tx_out, j)] = Nth(received, Len(txFifo) + j - 1)
    /\ printed = Nth(received, Len(txFifo) + Gap(tx_in, tx_out))

Whole == Ahead /\ TypeOK /\ Fits /\ Lies

LEMMA WholeInit == Init => Whole
<1> SUFFICES ASSUME Init PROVE Whole
  OBVIOUS
<1> USE UartAssumption
<1>1. Ahead /\ ClockTypeOK
  BY AheadInit, AheadFacts DEF Init
<1>2. TypeOK
  BY <1>1 DEF Init, TypeOK, Index, Char
<1>3. 0 \in Index /\ tx_in = 0 /\ tx_out = 0 /\ txFifo = <<>> /\ received = 0 /\ printed = 0
  BY DEF Init, Index
<1>4. Gap(0, 0) = 0
  BY <1>3, GapValue
<1>5. Nth(0, 0) = 0
  <2>1. 0 = 0 * Chars + 0 /\ 0 \in 0 .. Chars - 1 /\ Chars \in Nat \ {0}
    OBVIOUS
  <2>2. 0 % Chars = 0
    BY <2>1, ModValue
  <2> QED
    BY <2>2 DEF Nth
<1>6. Lies
  BY <1>3, <1>4, <1>5 DEF Lies
<1>7. Fits
  BY DEF Fits, Init
<1> QED
  BY <1>1, <1>2, <1>6, <1>7 DEF Whole

(* The steps that leave the stream alone.                                  *)
LEMMA StillLies ==
    Lies /\ UNCHANGED <<ringVars, txFifo, received, printed>> => Lies'
  BY DEF Lies, ringVars, Gap, Cell, Nth

LEMMA CopyLoadStep == Whole /\ CopyLoad => TypeOK' /\ Fits' /\ Lies'
<1> SUFFICES ASSUME Whole, CopyLoad
             PROVE  TypeOK' /\ Fits' /\ Lies'
  OBVIOUS
<1> USE UartAssumption DEF Whole
<1>1. UNCHANGED <<clockVars, ringVars, irq_enable, host_inactive, hwVars, count, printed>>
  BY DEF CopyLoad
<1>2. tx_in \in Index /\ tx_out \in Index /\ count \in 0 .. MaxCount /\ n \in 0 .. MaxCount
  BY DEF TypeOK
<1>3. /\ Run(tx_in, tx_out) \in Nat /\ tx_in + Run(tx_in, tx_out) <= BUF_LEN
      /\ Gap(tx_in, tx_out) + Run(tx_in, tx_out) <= BUF_LEN - 1
      /\ Gap(tx_in, tx_out) \in 0 .. BUF_LEN - 1
  BY <1>2, RunFits, RingTypes
<1>4. /\ out' \in Index /\ n' \in 0 .. MaxCount /\ pc' \in {"kick", "move"}
      /\ pc' = "move" => n' <= count /\ n' <= Run(tx_in, tx_out)
  BY <1>2, <1>3 DEF CopyLoad, Least, TypeOK
<1>5. TypeOK'
  BY <1>1, <1>4 DEF TypeOK, ClockTypeOK, clockVars, ringVars, hwVars
<1>6. tx_in \in Nat /\ tx_in' = tx_in /\ tx_out' = tx_out /\ count' = count
  BY <1>1, <1>2 DEF ringVars, Index
<1>7. Gap(tx_in, tx_out)' = Gap(tx_in, tx_out)
  BY <1>6 DEF Gap
<1>8. Fits'
  <2>1. \A r, m, g \in Int : m <= r /\ tx_in + r <= BUF_LEN /\ g + r <= BUF_LEN - 1
           => tx_in + m <= BUF_LEN /\ g + m <= BUF_LEN - 1
    BY <1>6
  <2>2. pc' = "move" => /\ n' <= count /\ tx_in + n' <= BUF_LEN
                        /\ Gap(tx_in, tx_out) + n' <= BUF_LEN - 1
    <3>1. /\ Run(tx_in, tx_out) \in Int /\ Gap(tx_in, tx_out) \in Int /\ n' \in Int
          /\ pc' = "move" => n' <= count /\ n' <= Run(tx_in, tx_out)
      BY <1>3, <1>4
    <3> QED
      BY <1>3, <2>1, <3>1
  <2> QED
    BY <1>6, <1>7, <2>2 DEF Fits
<1>9. Lies'
  BY <1>1, StillLies DEF ringVars, hwVars
<1> QED
  BY <1>5, <1>8, <1>9

LEMMA IsrStep == Whole /\ Isr => TypeOK' /\ Fits' /\ Lies'
<1> SUFFICES ASSUME Whole, Isr
             PROVE  TypeOK' /\ Fits' /\ Lies'
  OBVIOUS
<1> USE UartAssumption DEF Whole
<1>1. UNCHANGED <<clockVars, tx_buf, tx_in, host_inactive, ac, received, callVars>>
  BY DEF Isr
<1>2. PICK k \in Nat : Moved(k)
  BY IsrFacts
<1>3. /\ tx_in \in Index /\ tx_out \in Index /\ received \in Int
      /\ txFifo \in Seq(Char) /\ Len(txFifo) \in Nat
  BY DEF TypeOK, Char
<1> DEFINE g == Gap(tx_in, tx_out)
           l == Len(txFifo)
<1>4. g \in 0 .. BUF_LEN - 1 /\ g = IF tx_in >= tx_out THEN tx_in - tx_out
                                                   ELSE tx_in - tx_out + BUF_LEN
  BY <1>3, RingTypes, GapValue
<1>5. k \in 0 .. g /\ tx_out' \in Index
  BY <1>2, <1>3, <1>4 DEF Moved, Index
<1>6. Gap(tx_in, tx_out') = IF tx_in >= tx_out' THEN tx_in - tx_out'
                                              ELSE tx_in - tx_out' + BUF_LEN
  BY <1>3, <1>5, GapValue
<1>7. Gap(tx_in, tx_out)' = g - k
  <2>1. Gap(tx_in, tx_out)' = Gap(tx_in, tx_out')
    BY <1>1 DEF Gap
  <2>2. tx_out' = IF tx_out + k < BUF_LEN THEN tx_out + k ELSE tx_out + k - BUF_LEN
    BY <1>2 DEF Moved
  <2>3. \A a, b \in Index, d \in Nat :
          LET c == IF b + d < BUF_LEN THEN b + d ELSE b + d - BUF_LEN
              h == IF a >= b THEN a - b ELSE a - b + BUF_LEN
          IN  d <= h => (IF a >= c THEN a - c ELSE a - c + BUF_LEN) = h - d
    BY DEF Index
  <2> HIDE DEF g
  <2>4. k \in Nat /\ k <= g
    BY <1>4, <1>5
  <2>5. g = IF tx_in >= tx_out THEN tx_in - tx_out ELSE tx_in - tx_out + BUF_LEN
    BY <1>4
  <2> QED
    BY <1>3, <1>6, <2>1, <2>2, <2>3, <2>4, <2>5
<1>8. TypeOK'
  BY <1>1, <1>2, <1>5 DEF TypeOK, ClockTypeOK, clockVars, callVars, Moved
<1>9. Fits'
  <2>1. pc' = pc /\ n' = n /\ count' = count /\ tx_in' = tx_in /\ n \in Nat
    BY <1>1 DEF callVars, TypeOK
  <2> QED
    BY <1>4, <1>5, <1>7, <2>1 DEF Fits
<1>10. \A j \in 1 .. g - k : Cell(tx_out', j) = Cell(tx_out, k + j)
  <2> TAKE j \in 1 .. g - k
  <2>1. j \in 1 .. BUF_LEN /\ k + j \in 1 .. BUF_LEN
    BY <1>4, <1>5
  <2>2. Cell(tx_out', j) = IF tx_out' + j - 1 < BUF_LEN THEN tx_out' + j - 1
                                                       ELSE tx_out' + j - 1 - BUF_LEN
    BY <1>5, <2>1, CellValue
  <2>3. Cell(tx_out, k + j) = IF tx_out + (k + j) - 1 < BUF_LEN
                              THEN tx_out + (k + j) - 1
                              ELSE tx_out + (k + j) - 1 - BUF_LEN
    BY <1>3, <2>1, CellValue
  <2> QED
    BY <1>2, <1>3, <1>4, <2>1, <2>2, <2>3 DEF Moved, Index
<1>11. /\ \A i \in 1 .. l : txFifo[i] = Nth(received, i - 1)
       /\ \A j \in 1 .. g : tx_buf[Cell(tx_out, j)] = Nth(received, l + j - 1)
       /\ printed = Nth(received, l + g)
  BY DEF Lies
<1>12. /\ Len(txFifo') = l + k
       /\ \A i \in 1 .. l : txFifo'[i] = txFifo[i]
       /\ \A j \in 1 .. k : txFifo'[l + j] = tx_buf[Cell(tx_out, j)]
  BY <1>2 DEF Moved
<1> HIDE DEF g, l
<1>13. ASSUME NEW i \in 1 .. l + k
       PROVE  txFifo'[i] = Nth(received, i - 1)
  <2>1. CASE i <= l
    BY <1>11, <1>12, <2>1
  <2>2. CASE i > l
    <3>1. PICK j \in 1 .. k : i = l + j
      <4>1. i - l \in 1 .. k /\ i = l + (i - l)
        BY <2>2, <1>3 DEF l
      <4> QED
        BY <4>1
    <3>2. j \in 1 .. g
      BY <1>4, <1>5 DEF g
    <3>3. txFifo'[l + j] = Nth(received, l + j - 1)
      BY <1>11, <1>12, <3>2
    <3>4. l + j - 1 = i - 1
      BY <1>3, <3>1 DEF l
    <3> QED
      BY <3>1, <3>3, <3>4
  <2> QED
    BY <2>1, <2>2, <1>3 DEF l
<1>14. ASSUME NEW j \in 1 .. g - k
       PROVE  tx_buf[Cell(tx_out', j)] = Nth(received, l + k + j - 1)
  <2>1. k + j \in 1 .. g /\ l + (k + j) - 1 = l + k + j - 1
    BY <1>3, <1>4, <1>5 DEF g, l
  <2>2. tx_buf[Cell(tx_out, k + j)] = Nth(received, l + (k + j) - 1)
    BY <1>11, <2>1
  <2> QED
    BY <1>10, <2>1, <2>2
<1>15. (l + k) + (g - k) = l + g
  BY <1>3, <1>4, <1>5 DEF g, l
<1>16. received' = received /\ printed' = printed /\ tx_buf' = tx_buf
  BY <1>1 DEF callVars
<1>17. Lies'
  <2>1. \A i \in 1 .. Len(txFifo') : txFifo'[i] = Nth(received', i - 1)
    BY <1>12, <1>13, <1>16
  <2>2. \A j \in 1 .. Gap(tx_in, tx_out)' :
            tx_buf'[Cell(tx_out', j)] = Nth(received', Len(txFifo') + j - 1)
    BY <1>7, <1>12, <1>14, <1>16 DEF g
  <2>3. printed' = Nth(received', Len(txFifo') + Gap(tx_in, tx_out)')
    BY <1>7, <1>11, <1>12, <1>15, <1>16
  <2>4. /\ \A i \in Int : Nth(received, i)' = Nth(received', i)
        /\ \A j \in Int : Cell(tx_out, j)' = Cell(tx_out', j)
    BY DEF Nth, Cell
  <2> QED
    BY <2>1, <2>2, <2>3, <2>4 DEF Lies, Nth, Cell
<1> QED
  BY <1>8, <1>9, <1>17

LEMMA CopyMoveStep == Whole /\ CopyMove => TypeOK' /\ Fits' /\ Lies'
<1> SUFFICES ASSUME Whole, CopyMove
             PROVE  TypeOK' /\ Fits' /\ Lies'
  OBVIOUS
<1> USE UartAssumption DEF Whole
<1>1. /\ pc = "move" /\ pc' = "copy"
      /\ tx_buf' = [i \in Index |-> IF i \in tx_in .. tx_in + n - 1
                                    THEN (printed + i - tx_in) % Chars ELSE tx_buf[i]]
      /\ tx_in' = (tx_in + n) % BUF_LEN
      /\ count' = count - n /\ printed' = (printed + n) % Chars
      /\ UNCHANGED <<clockVars, tx_out, irq_enable, host_inactive, hwVars, out, n>>
  BY DEF CopyMove
<1>2. /\ tx_in \in Index /\ tx_out \in Index /\ received \in Int /\ printed \in Int
      /\ Len(txFifo) \in Nat /\ n \in 0 .. MaxCount /\ count \in 0 .. MaxCount
  BY DEF TypeOK, Char
<1> DEFINE g == Gap(tx_in, tx_out)
           l == Len(txFifo)
<1>3. g \in 0 .. BUF_LEN - 1 /\ g = IF tx_in >= tx_out THEN tx_in - tx_out
                                                   ELSE tx_in - tx_out + BUF_LEN
  BY <1>2, RingTypes, GapValue
<1>4. n <= count /\ tx_in + n <= BUF_LEN /\ g + n <= BUF_LEN - 1
  BY <1>1 DEF Fits
<1>5. /\ n \in 0 .. BUF_LEN - 1
      /\ tx_in' = IF tx_in + n < BUF_LEN THEN tx_in + n ELSE tx_in + n - BUF_LEN
      /\ tx_in' \in Index
  <2>1. n \in 0 .. BUF_LEN - 1
    BY <1>2, <1>3, <1>4
  <2>2. (tx_in + n) % BUF_LEN = IF tx_in + n < BUF_LEN THEN tx_in + n
                                                       ELSE tx_in + n - BUF_LEN
    BY <1>2, <2>1, Advance
  <2> QED
    BY <1>1, <1>2, <2>1, <2>2 DEF Index
<1>6. Gap(tx_in, tx_out)' = g + n
  <2>1. Gap(tx_in, tx_out)' = Gap(tx_in', tx_out)
    BY <1>1 DEF Gap
  <2>2. Gap(tx_in', tx_out) = IF tx_in' >= tx_out THEN tx_in' - tx_out
                                                  ELSE tx_in' - tx_out + BUF_LEN
    BY <1>2, <1>5, GapValue
  <2>3. tx_in \in 0 .. BUF_LEN - 1 /\ tx_out \in 0 .. BUF_LEN - 1 /\ n \in Nat
    BY <1>2 DEF Index
  <2>4. g + n <= BUF_LEN - 1
    BY <1>4
  <2> HIDE DEF g
  <2>5. CASE tx_in + n < BUF_LEN
    <3>1. tx_in' = tx_in + n
      BY <1>5, <2>5
    <3> QED
      BY <1>3, <2>1, <2>2, <2>3, <2>4, <2>5, <3>1
  <2>6. CASE tx_in + n >= BUF_LEN
    <3>1. tx_in' = tx_in + n - BUF_LEN
      BY <1>5, <2>3, <2>6
    <3> QED
      BY <1>3, <2>1, <2>2, <2>3, <2>4, <2>6, <3>1
  <2> QED
    BY <2>3, <2>5, <2>6
<1>7. \A i \in Int : (printed + i - tx_in) % Chars = Nth(printed, i - tx_in)
  <2>1. \A i \in Int : printed + i - tx_in = printed + (i - tx_in)
    BY <1>2 DEF Index
  <2> QED
    BY <2>1, Zenon DEF Nth
<1>8. \A i \in Int, r \in Int : Nth(r, i) \in Char
  BY NthFacts
<1>9. tx_buf' = [i \in Index |-> IF i \in tx_in .. tx_in + n - 1
                                THEN Nth(printed, i - tx_in) ELSE tx_buf[i]]
  <2>1. Index \subseteq Int
    BY DEF Index
  <2> QED
    BY <1>1, <1>7, <2>1
<1>10. TypeOK'
  <2>1. tx_buf' \in [Index -> Char]
    <3>1. \A i \in Index : i - tx_in \in Int /\ tx_buf[i] \in Char
      BY <1>2 DEF TypeOK, Index
    <3> QED
      BY <1>2, <1>8, <1>9, <3>1
  <2>2. printed' \in Char
    <3>1. printed' = Nth(printed, n) /\ n \in Int
      BY <1>1, <1>2 DEF Nth
    <3> QED
      BY <1>2, <1>8, <3>1
  <2>3. count' \in 0 .. MaxCount
    BY <1>1, <1>2, <1>4
  <2> QED
    BY <1>1, <1>5, <2>1, <2>2, <2>3 DEF TypeOK, ClockTypeOK, clockVars, hwVars
<1>11. Fits'
  BY <1>1 DEF Fits
<1>12. printed = Nth(received, l + g)
  BY DEF Lies
<1>13. \A i \in Int : Nth(printed, i) = Nth(received, l + g + i)
  <2>1. received \in Int /\ l + g \in Int
    BY <1>2, <1>3
  <2>2. \A r, a, b \in Int : Nth(Nth(r, a), b) = Nth(r, a + b)
    BY NthFacts, Zenon
  <2> HIDE DEF g, l
  <2> QED
    BY <1>12, <2>1, <2>2, Zenon
<1>14. ASSUME NEW j \in 1 .. g + n
       PROVE  tx_buf'[Cell(tx_out, j)] = Nth(received, l + j - 1)
  <2>1. j \in 1 .. BUF_LEN
    BY <1>2, <1>3, <1>4
  <2>2. /\ Cell(tx_out, j) \in Index
        /\ Cell(tx_out, j) = IF tx_out + j - 1 < BUF_LEN THEN tx_out + j - 1
                                                         ELSE tx_out + j - 1 - BUF_LEN
    BY <1>2, <2>1, CellValue, RingTypes
  <2>3. CASE j <= g
    <3>1. Cell(tx_out, j) \notin tx_in .. tx_in + n - 1
      BY <1>2, <1>3, <1>4, <2>2, <2>3 DEF Index
    <3>2. j \in 1 .. g
      BY <1>2, <1>3, <2>3
    <3> HIDE DEF g, l
    <3>3. tx_buf[Cell(tx_out, j)] = Nth(received, l + j - 1)
      BY <3>2 DEF Lies, g, l
    <3> QED
      BY <1>9, <2>2, <3>1, <3>3
  <2>4. CASE j > g
    <3>1. /\ Cell(tx_out, j) \in tx_in .. tx_in + n - 1
          /\ Cell(tx_out, j) - tx_in = j - 1 - g
      BY <1>2, <1>3, <1>4, <2>2, <2>4 DEF Index
    <3>2. tx_buf'[Cell(tx_out, j)] = Nth(printed, j - 1 - g)
      BY <1>9, <2>2, <3>1
    <3>3. l + g + (j - 1 - g) = l + j - 1 /\ j - 1 - g \in Int
      BY <1>2, <1>3
    <3> QED
      BY <1>13, <3>2, <3>3
  <2> QED
    BY <1>2, <1>3, <2>3, <2>4
<1>15. Lies'
  <2>1. received' = received /\ txFifo' = txFifo /\ tx_out' = tx_out
    BY <1>1 DEF hwVars
  <2>2. printed' = Nth(received, l + (g + n))
    <3>1. printed' = Nth(printed, n) /\ n \in Int /\ l + g + n = l + (g + n)
      BY <1>1, <1>2, <1>3 DEF Nth
    <3> QED
      BY <1>13, <3>1
  <2> HIDE DEF g, l
  <2>3. /\ Gap(tx_in, tx_out)' = g + n /\ Len(txFifo)' = l
        /\ \A i \in Int : Nth(received, i)' = Nth(received, i)
        /\ \A j \in Int : Cell(tx_out, j)' = Cell(tx_out, j)
    BY <1>6, <2>1 DEF g, l, Nth, Cell
  <2>4. \A i \in 1 .. l : txFifo[i] = Nth(received, i - 1)
    BY DEF Lies, l
  <2> QED
    BY <1>14, <2>1, <2>2, <2>3, <2>4 DEF Lies, Nth, Cell
<1> QED
  BY <1>10, <1>11, <1>15

LEMMA HostReadsStep == Whole /\ HostReads => TypeOK' /\ Fits' /\ Lies'
<1> SUFFICES ASSUME Whole, HostReads
             PROVE  TypeOK' /\ Fits' /\ Lies'
  OBVIOUS
<1> USE UartAssumption DEF Whole
<1>1. /\ txFifo # <<>> /\ txFifo' = Tail(txFifo) /\ received' = (received + 1) % Chars
      /\ ac' = TRUE
      /\ UNCHANGED <<clockVars, ringVars, irq_enable, host_inactive, callVars>>
  BY DEF HostReads
<1>2. received \in Int /\ txFifo \in Seq(Char) /\ tx_in \in Index /\ tx_out \in Index
  BY DEF TypeOK, Char
<1> DEFINE l == Len(txFifo)
           g == Gap(tx_in, tx_out)
<1>3. /\ txFifo' \in Seq(Char) /\ l \in Nat \ {0} /\ Len(txFifo') = l - 1
      /\ \A i \in 1 .. l - 1 : txFifo'[i] = txFifo[i + 1]
  BY <1>1, <1>2
<1>4. received' = Nth(received, 1)
  BY <1>1 DEF Nth
<1>5. received' \in Char /\ \A i \in Int : Nth(received', i) = Nth(received, 1 + i)
  BY <1>2, <1>4, NthFacts
<1>6. TypeOK'
  <2>1. Len(txFifo') <= FIFO_DEPTH
    BY <1>3 DEF TypeOK
  <2>2. txFifo' \in Seq(Char)
    BY <1>3
  <2>3. ac' \in BOOLEAN
    BY <1>1
  <2> QED
    BY <1>1, <1>5, <2>1, <2>2, <2>3
    DEF TypeOK, ClockTypeOK, clockVars, ringVars, callVars
<1>7. /\ tx_in' = tx_in /\ tx_out' = tx_out /\ tx_buf' = tx_buf
      /\ printed' = printed /\ pc' = pc /\ n' = n /\ count' = count
  BY <1>1 DEF ringVars, callVars
<1>8. Fits'
  BY <1>7 DEF Fits, Gap
<1>9. g \in Nat
  BY <1>2, RingTypes, SMT
<1>10. Lies'
  <2> HIDE DEF l, g
  <2>1. /\ \A i \in 1 .. l : txFifo[i] = Nth(received, i - 1)
        /\ \A j \in 1 .. g : tx_buf[Cell(tx_out, j)] = Nth(received, l + j - 1)
        /\ printed = Nth(received, l + g)
    BY DEF Lies, l, g
  <2>2. /\ Gap(tx_in, tx_out)' = g /\ Len(txFifo)' = l - 1
        /\ \A i \in Int : Nth(received, i)' = Nth(received', i)
        /\ \A j \in Int : Cell(tx_out, j)' = Cell(tx_out, j)
    BY <1>3, <1>7 DEF g, l, Nth, Cell, Gap
  <2>3. \A i \in 1 .. l - 1 : txFifo'[i] = Nth(received', i - 1)
    <3> TAKE i \in 1 .. l - 1
    <3>1. i + 1 \in 1 .. l /\ (i + 1) - 1 = 1 + (i - 1) /\ i - 1 \in Int
      BY <1>3 DEF l
    <3>2. txFifo[i + 1] = Nth(received, (i + 1) - 1)
      BY <2>1, <3>1
    <3> QED
      BY <1>3, <1>5, <3>1, <3>2 DEF l
  <2>4. \A j \in 1 .. g : tx_buf'[Cell(tx_out, j)] = Nth(received', (l - 1) + j - 1)
    <3> TAKE j \in 1 .. g
    <3>1. l + j - 1 = 1 + ((l - 1) + j - 1) /\ (l - 1) + j - 1 \in Int
      BY <1>3, <1>9 DEF l
    <3> QED
      BY <1>5, <1>7, <2>1, <3>1
  <2>5. printed' = Nth(received', (l - 1) + g)
    <3>1. l + g = 1 + ((l - 1) + g) /\ (l - 1) + g \in Int
      BY <1>3, <1>9 DEF l
    <3> QED
      BY <1>5, <1>7, <2>1, <3>1
  <2> QED
    BY <2>2, <2>3, <2>4, <2>5 DEF Lies, Nth, Cell
<1> QED
  BY <1>6, <1>8, <1>10

LEMMA TickStep == Whole /\ Tick => Whole'
<1> SUFFICES ASSUME Whole, Tick PROVE Whole'
  OBVIOUS
<1> USE UartAssumption
<1>1. Ahead' /\ ClockTypeOK'
  <2>1. Ahead'
    BY AheadStep DEF Whole, Tick
  <2> QED
    BY <2>1, AheadFacts, PTL
<1>2. UNCHANGED <<ringVars, irq_enable, txFifo, received, callVars>>
  BY DEF Tick
<1>3. ac' \in BOOLEAN /\ host_inactive' \in 0 .. INT_MAX - 2
  <2>1. ac \in BOOLEAN /\ host_inactive \in 0 .. INT_MAX - 2
    BY DEF Whole, TypeOK
  <2>2. CASE Timeout
    <3>1. ac' \in {ac, FALSE} /\ (host_inactive' = 0 \/ host_inactive' = Least(host_inactive + 1, INT_MAX - 2))
      BY <2>2 DEF Timeout
    <3>2. 0 \in 0 .. INT_MAX - 2 /\ Least(host_inactive + 1, INT_MAX - 2) \in 0 .. INT_MAX - 2
      BY <2>1 DEF Least
    <3> QED
      BY <2>1, <3>1, <3>2
  <2>3. CASE UNCHANGED <<ac, host_inactive>>
    BY <2>1, <2>3
  <2> QED
    BY <2>2, <2>3 DEF Tick
<1>4. TypeOK'
  BY <1>1, <1>2, <1>3 DEF Whole, TypeOK, ringVars, callVars
<1>5. Fits'
  BY <1>2 DEF Whole, Fits, Gap, ringVars, callVars
<1>6. Lies'
  BY <1>2, StillLies DEF Whole, callVars
<1> QED
  BY <1>1, <1>4, <1>5, <1>6 DEF Whole

LEMMA ClockRests == Ahead /\ UNCHANGED clockVars => Ahead'
  BY AheadStep

LEMMA WholeStep == Whole /\ [Next]_vars => Whole'
<1> SUFFICES ASSUME Whole, [Next]_vars PROVE Whole'
  OBVIOUS
<1> USE UartAssumption
<1>1. CASE WriteCall
  <2>1. /\ pc' = "copy" /\ count' \in 1 .. MaxCount
        /\ UNCHANGED <<clockVars, ringVars, irq_enable, host_inactive, hwVars, out, n, printed>>
    BY <1>1 DEF WriteCall
  <2>2. Ahead'
    BY <2>1, ClockRests DEF Whole
  <2>3. TypeOK'
    BY <2>1 DEF Whole, TypeOK, ClockTypeOK, clockVars, ringVars, hwVars
  <2>4. Lies' /\ Fits'
    BY <2>1, StillLies DEF Whole, hwVars, Fits
  <2> QED
    BY <2>2, <2>3, <2>4 DEF Whole
<1>2. CASE CopyLoad
  BY <1>2, CopyLoadStep, ClockRests DEF Whole, CopyLoad
<1>3. CASE CopyMove
  BY <1>3, CopyMoveStep, ClockRests DEF Whole, CopyMove
<1>4. CASE Kick
  <2>1. /\ pc' \in {"wait", "main"} /\ irq_enable' = irq_enable \cup {"WE"}
        /\ out' \in {out, 0} /\ n' \in {n, 0} /\ count' \in {count, 0}
        /\ UNCHANGED <<clockVars, ringVars, host_inactive, hwVars, printed>>
    BY <1>4 DEF Kick, Return
  <2>2. Ahead'
    BY <2>1, ClockRests DEF Whole
  <2>3. TypeOK'
    <3>1. out' \in Index /\ n' \in 0 .. MaxCount /\ count' \in 0 .. MaxCount
      BY <2>1 DEF Whole, TypeOK, Index
    <3>2. pc' \in {"main", "copy", "move", "kick", "wait", "check"}
      BY <2>1
    <3>3. irq_enable' \subseteq {"RE", "WE"}
      BY <2>1 DEF Whole, TypeOK
    <3> QED
      BY <2>1, <3>1, <3>2, <3>3
      DEF Whole, TypeOK, ClockTypeOK, clockVars, ringVars, hwVars
  <2>4. Lies' /\ Fits'
    BY <2>1, StillLies DEF Whole, hwVars, Fits
  <2> QED
    BY <2>2, <2>3, <2>4 DEF Whole
<1>5. CASE Wait \/ Check
  <2>1. /\ pc' \in {"check", "copy", "main"}
        /\ out' \in {out, 0} /\ n' \in {n, 0} /\ count' \in {count, 0}
        /\ UNCHANGED <<clockVars, ringVars, irq_enable, host_inactive, hwVars, printed>>
    BY <1>5 DEF Wait, Check, Return
  <2>2. Ahead'
    BY <2>1, ClockRests DEF Whole
  <2>3. TypeOK'
    <3>1. out' \in Index /\ n' \in 0 .. MaxCount /\ count' \in 0 .. MaxCount
      BY <2>1 DEF Whole, TypeOK, Index
    <3>2. pc' \in {"main", "copy", "move", "kick", "wait", "check"}
      BY <2>1
    <3> QED
      BY <2>1, <3>1, <3>2 DEF Whole, TypeOK, ClockTypeOK, clockVars, ringVars, hwVars
  <2>4. Lies' /\ Fits'
    BY <2>1, StillLies DEF Whole, hwVars, Fits
  <2> QED
    BY <2>2, <2>3, <2>4 DEF Whole
<1>6. CASE Isr
  BY <1>6, IsrStep, ClockRests DEF Whole, Isr
<1>7. CASE Tick
  BY <1>7, TickStep
<1>8. CASE HostReads
  BY <1>8, HostReadsStep, ClockRests DEF Whole, HostReads
<1>9. CASE HostPolls \/ UNCHANGED vars
  <2>1. /\ ac' \in {ac, TRUE}
        /\ UNCHANGED <<clockVars, ringVars, irq_enable, host_inactive, txFifo, received, callVars>>
    BY <1>9 DEF HostPolls, vars, hwVars
  <2>2. Ahead'
    BY <2>1, ClockRests DEF Whole
  <2>3. TypeOK'
    <3>1. ac' \in BOOLEAN
      BY <2>1 DEF Whole, TypeOK
    <3> QED
      BY <2>1, <3>1 DEF Whole, TypeOK, ClockTypeOK, clockVars, ringVars, callVars
  <2>4. Lies' /\ Fits'
    BY <2>1, StillLies DEF Whole, callVars, Fits, Gap, ringVars
  <2> QED
    BY <2>2, <2>3, <2>4 DEF Whole
<1> QED
  BY <1>1, <1>2, <1>3, <1>4, <1>5, <1>6, <1>7, <1>8, <1>9 DEF Next, Program, Host

LEMMA LiesInLine == Whole => StreamWhole
<1> SUFFICES ASSUME Whole PROVE StreamWhole
  OBVIOUS
<1>1. /\ tx_in \in Index /\ tx_out \in Index /\ tx_buf \in [Index -> Char]
      /\ txFifo \in Seq(Char) /\ received \in Int
  BY DEF Whole, TypeOK, Char
<1> DEFINE ring == Ring(tx_buf, tx_out, tx_in)
           g == Gap(tx_in, tx_out)
           l == Len(txFifo)
           s == txFifo \o ring
<1>2. /\ ring \in Seq(Char) /\ Len(ring) = g /\ g \in Nat /\ l \in Nat
      /\ \A j \in 1 .. g : ring[j] = tx_buf[Cell(tx_out, j)]
  BY <1>1, RingFacts
<1>3. /\ \A i \in 1 .. l : txFifo[i] = Nth(received, i - 1)
      /\ \A j \in 1 .. g : tx_buf[Cell(tx_out, j)] = Nth(received, l + j - 1)
      /\ printed = Nth(received, l + g)
  BY DEF Whole, Lies
<1> HIDE DEF ring, g
<1>4. /\ Len(s) = l + g
      /\ \A i \in 1 .. l : s[i] = txFifo[i]
      /\ \A i \in l + 1 .. l + g : s[i] = ring[i - l]
  BY <1>1, <1>2
<1> HIDE DEF s, l
<1>5. ASSUME NEW i \in 1 .. l + g
      PROVE  s[i] = Nth(received, i - 1)
  <2>1. CASE i <= l
    BY <1>2, <1>3, <1>4, <2>1
  <2>2. CASE i > l
    <3>1. i - l \in 1 .. g /\ i \in l + 1 .. l + g /\ l + (i - l) - 1 = i - 1
      BY <1>2, <2>2
    <3>2. ring[i - l] = Nth(received, l + (i - l) - 1)
      BY <1>2, <1>3, <3>1
    <3> QED
      BY <1>4, <3>1, <3>2
  <2> QED
    BY <1>2, <2>1, <2>2
<1>6. \A i \in 1 .. Len(s) : (received + i - 1) % Chars = Nth(received, i - 1)
  <2>1. \A i \in 1 .. Len(s) : received + i - 1 = received + (i - 1)
    BY <1>1
  <2> QED
    BY <2>1, Zenon DEF Nth
<1>7. (received + Len(s)) % Chars = printed
  BY <1>3, <1>4, Zenon DEF Nth
<1> QED
  BY <1>4, <1>5, <1>6, <1>7 DEF StreamWhole, Consecutive, s, ring

(* The driver keeps its types: no index leaves the ring, no count turns    *)
(* negative, the count of silent seconds stays within its cap.             *)
THEOREM TypeCorrect == Spec => []TypeOK
<1>1. Spec => []Whole
  BY WholeInit, WholeStep, PTL DEF Spec
<1>2. Whole => TypeOK
  BY DEF Whole
<1> QED
  BY <1>1, <1>2, PTL

(* Nothing printed is lost, repeated or reordered, for every size of the   *)
(* ring and the FIFO, wherever the interrupt routine cuts into a copy      *)
(* (_write.c:102-130, _init.c:167-181).                                    *)
THEOREM StreamKept == Spec => []StreamWhole
<1>1. Spec => []Whole
  BY WholeInit, WholeStep, PTL DEF Spec
<1> QED
  BY <1>1, LiesInLine, PTL

LEMMA RingServedInit == Init => RingServed
  BY DEF Init, RingServed

LEMMA RingServedStep == Whole /\ RingServed /\ [Next]_vars => RingServed'
<1> SUFFICES ASSUME Whole, RingServed, [Next]_vars PROVE RingServed'
  OBVIOUS
<1> USE DEF RingServed
<1>1. CASE WriteCall \/ CopyLoad \/ CopyMove
  BY <1>1 DEF WriteCall, CopyLoad, CopyMove
<1>2. CASE Kick
  BY <1>2 DEF Kick
<1>3. CASE Wait \/ Check
  <2>1. UNCHANGED <<tx_in, tx_out, irq_enable>> /\ pc \in {"wait", "check"}
    BY <1>3 DEF Wait, Check, ringVars
  <2> QED
    BY <2>1
<1>4. CASE Isr
  <2>1. UNCHANGED <<pc, tx_in>>
    BY <1>4 DEF Isr, callVars
  <2>2. tx_in \in Index /\ tx_out \in Index
    BY DEF Whole, TypeOK
  <2>3. PICK k \in Nat : Moved(k)
    BY <1>4, IsrFacts DEF Whole
  <2>4. CASE k < Gap(tx_in, tx_out)
    <3>1. irq_enable' = irq_enable
      BY <2>3, <2>4 DEF Moved
    <3>2. "WE" \in irq_enable
      BY <1>4 DEF Isr
    <3> QED
      BY <3>1, <3>2
  <2>5. CASE k = Gap(tx_in, tx_out)
    <3>1. Gap(tx_in, tx_out) = IF tx_in >= tx_out THEN tx_in - tx_out
                                                  ELSE tx_in - tx_out + BUF_LEN
      BY <2>2, GapValue
    <3>2. tx_out' = IF tx_out + k < BUF_LEN THEN tx_out + k ELSE tx_out + k - BUF_LEN
      BY <2>3 DEF Moved
    <3>3. tx_out' = tx_in
      BY <2>2, <2>5, <3>1, <3>2, UartAssumption DEF Index
    <3> QED
      BY <2>1, <3>3
  <2>6. k \in 0 .. Gap(tx_in, tx_out) /\ Gap(tx_in, tx_out) \in Nat
    BY <2>2, <2>3, RingTypes DEF Moved
  <2> QED
    BY <2>4, <2>5, <2>6
<1>5. CASE Tick \/ Host \/ UNCHANGED vars
  BY <1>5 DEF Tick, Host, HostReads, HostPolls, vars, ringVars, callVars
<1> QED
  BY <1>1, <1>2, <1>3, <1>4, <1>5 DEF Next, Program

(* No character stays behind in the ring without an interrupt to take it   *)
(* out, for every size of the ring and the FIFO and every interleaving of  *)
(* write with the interrupt routine (_write.c:139-142, _init.c:183-190).   *)
THEOREM AlwaysServed == Spec => []RingServed
<1>1. Whole /\ RingServed /\ [Next]_vars => (Whole /\ RingServed)'
  BY WholeStep, RingServedStep
<1>2. Init => Whole /\ RingServed
  BY WholeInit, RingServedInit
<1>3. Spec => [](Whole /\ RingServed)
  BY <1>1, <1>2, PTL DEF Spec
<1> QED
  BY <1>3, PTL

-----------------------------------------------------------------------------
(* The refinement of the pipe.  What is inside lies in line, and how much  *)
(* it is follows from the two ends of the stream: the interrupt routine,   *)
(* which moves neither, changes nothing.                                   *)
Inside == txFifo \o Ring(tx_buf, tx_out, tx_in)
Amount == Len(txFifo) + Gap(tx_in, tx_out)
Line(r, m) == [i \in 1 .. m |-> Nth(r, i - 1)]
Size == BUF_LEN - 1 + FIFO_DEPTH

LEMMA NthValue ==
  ASSUME NEW r \in Char, NEW a \in 0 .. Chars - 1
  PROVE  Nth(r, a) = IF r + a < Chars THEN r + a ELSE r + a - Chars
<1> USE UartAssumption DEF Char
<1>0. \A q \in Int, b \in 0 .. Chars - 1 : r + a = q * Chars + b => (r + a) % Chars = b
  BY ModValue
<1>1. CASE r + a < Chars
  <2>1. r + a = 0 * Chars + (r + a) /\ r + a \in 0 .. Chars - 1
    BY <1>1
  <2> QED
    BY <1>0, <1>1, <2>1 DEF Nth
<1>2. CASE r + a >= Chars
  <2>1. r + a = 1 * Chars + (r + a - Chars) /\ r + a - Chars \in 0 .. Chars - 1
    BY <1>2
  <2> QED
    BY <1>0, <1>2, <2>1 DEF Nth
<1> QED
  BY <1>1, <1>2

LEMMA NthInjective ==
  ASSUME NEW r \in Char, NEW a \in 0 .. Chars - 1, NEW b \in 0 .. Chars - 1,
         Nth(r, a) = Nth(r, b)
  PROVE  a = b
<1>1. Nth(r, a) = IF r + a < Chars THEN r + a ELSE r + a - Chars
  BY NthValue
<1>2. Nth(r, b) = IF r + b < Chars THEN r + b ELSE r + b - Chars
  BY NthValue
<1>3. (IF r + a < Chars THEN r + a ELSE r + a - Chars)
        = (IF r + b < Chars THEN r + b ELSE r + b - Chars)
  BY <1>1, <1>2, Zenon
<1>4. r \in 0 .. Chars - 1 /\ Chars \in Nat
  BY UartAssumption DEF Char
<1> QED
  BY <1>3, <1>4

InLine ==
    /\ received \in Char /\ Amount \in 0 .. Size /\ Amount \in 0 .. Chars - 1
    /\ Inside = Line(received, Amount) /\ printed = Nth(received, Amount)

LEMMA InLineFacts == Whole => InLine
<1> SUFFICES ASSUME Whole PROVE InLine
  OBVIOUS
<1>1. /\ tx_in \in Index /\ tx_out \in Index /\ tx_buf \in [Index -> Char]
      /\ txFifo \in Seq(Char) /\ Len(txFifo) \in 0 .. FIFO_DEPTH /\ received \in Char
  BY UartAssumption DEF Whole, TypeOK
<1>2. /\ Ring(tx_buf, tx_out, tx_in) \in Seq(Char)
      /\ Len(Ring(tx_buf, tx_out, tx_in)) = Gap(tx_in, tx_out)
      /\ Gap(tx_in, tx_out) \in 0 .. BUF_LEN - 1
  BY <1>1, RingFacts, RingTypes
<1>3. Amount \in 0 .. Size /\ Amount \in 0 .. Chars - 1
  BY <1>1, <1>2, UartAssumption DEF Amount, Size
<1>4. Inside \in Seq(Char) /\ Len(Inside) = Amount
  BY <1>1, <1>2 DEF Inside, Amount
<1>5. /\ \A i \in 1 .. Amount : Inside[i] = (received + i - 1) % Chars
      /\ (received + Amount) % Chars = printed
  BY <1>4, LiesInLine DEF StreamWhole, Consecutive, Inside
<1>6. \A i \in 1 .. Amount : Inside[i] = Nth(received, i - 1)
  <2>1. \A i \in 1 .. Amount : received + i - 1 = received + (i - 1)
    BY <1>1, <1>3, UartAssumption DEF Char
  <2> QED
    BY <1>5, <2>1, Zenon DEF Nth
<1>7. Inside = [i \in 1 .. Amount |-> Inside[i]]
  BY <1>4
<1> QED
  BY <1>1, <1>3, <1>5, <1>6, <1>7 DEF InLine, Line, Nth

LEMMA LinePut ==
  ASSUME NEW r \in Char, NEW m \in Nat, NEW k \in Nat
  PROVE  Line(r, m) \o [i \in 1 .. k |-> (Nth(r, m) + i - 1) % Chars] = Line(r, m + k)
<1>1. r \in Int /\ m \in Int /\ \A i \in Int : Nth(r, i) \in Char
  BY UartAssumption, NthFacts DEF Char
<1>2. \A i \in 1 .. k : (Nth(r, m) + i - 1) % Chars = Nth(r, m + (i - 1))
  <2> TAKE i \in 1 .. k
  <2>1. Nth(r, m) + i - 1 = Nth(r, m) + (i - 1) /\ i - 1 \in Int
    BY <1>1, UartAssumption DEF Char
  <2>2. \A a, b, c \in Int : Nth(Nth(a, b), c) = Nth(a, b + c)
    BY NthFacts, Zenon
  <2>3. Nth(Nth(r, m), i - 1) = Nth(r, m + (i - 1))
    BY <1>1, <2>1, <2>2, Zenon
  <2> QED
    BY <2>1, <2>3, Zenon DEF Nth
<1> DEFINE back == [i \in 1 .. k |-> (Nth(r, m) + i - 1) % Chars]
           s    == Line(r, m) \o back
<1>3. back = [i \in 1 .. k |-> Nth(r, m + (i - 1))]
  BY <1>2
<1>4. back \in Seq(Char) /\ Len(back) = k
  BY <1>1, <1>3
<1>5. Line(r, m) \in Seq(Char) /\ Len(Line(r, m)) = m
  BY <1>1 DEF Line
<1> HIDE DEF back
<1>6. /\ s \in Seq(Char) /\ Len(s) = m + k
      /\ \A i \in 1 .. m : s[i] = Line(r, m)[i]
      /\ \A i \in m + 1 .. m + k : s[i] = back[i - m]
  BY <1>4, <1>5
<1> HIDE DEF s
<1>7. \A i \in 1 .. m + k : s[i] = Nth(r, i - 1)
  <2> TAKE i \in 1 .. m + k
  <2>1. CASE i <= m
    BY <1>6, <2>1 DEF Line
  <2>2. CASE i > m
    <3>1. i - m \in 1 .. k /\ i \in m + 1 .. m + k /\ m + ((i - m) - 1) = i - 1
      BY <2>2
    <3> QED
      BY <1>3, <1>6, <3>1
  <2> QED
    BY <2>1, <2>2
<1>8. s = [i \in 1 .. m + k |-> s[i]]
  BY <1>6
<1> QED
  BY <1>7, <1>8 DEF s, back, Line

LEMMA LineGet ==
  ASSUME NEW r \in Char, NEW m \in Nat \ {0}
  PROVE  /\ Line(r, m) # <<>> /\ Head(Line(r, m)) = r
         /\ Tail(Line(r, m)) = Line(Nth(r, 1), m - 1)
<1>1. r \in Int /\ \A i \in Int : Nth(r, i) \in Char /\ Nth(Nth(r, 1), i) = Nth(r, 1 + i)
  BY UartAssumption, NthFacts DEF Char
<1>2. Line(r, m) \in Seq(Char) /\ Len(Line(r, m)) = m
  BY <1>1 DEF Line
<1>3. Nth(r, 0) = r
  BY NthValue, UartAssumption DEF Char
<1>4. Head(Line(r, m)) = Line(r, m)[1] /\ Line(r, m)[1] = Nth(r, 0)
  BY <1>2 DEF Line
<1>5. Tail(Line(r, m)) = [i \in 1 .. m - 1 |-> Line(r, m)[i + 1]]
  <2> DEFINE s == Line(r, m)
  <2> HIDE DEF s
  <2>1. s \in Seq(Char) /\ Len(s) = m /\ s # <<>>
    BY <1>2 DEF s
  <2> DEFINE t == Tail(s)
  <2>2. /\ t \in Seq(Char) /\ Len(t) = m - 1
        /\ \A i \in 1 .. m - 1 : t[i] = s[i + 1]
    BY <2>1
  <2> HIDE DEF t
  <2>3. t = [i \in 1 .. m - 1 |-> t[i]]
    BY <2>2
  <2> QED
    BY <2>2, <2>3 DEF s, t
<1>6. \A i \in 1 .. m - 1 : Line(r, m)[i + 1] = Nth(Nth(r, 1), i - 1)
  <2> TAKE i \in 1 .. m - 1
  <2>1. i + 1 \in 1 .. m /\ (i + 1) - 1 = 1 + (i - 1) /\ i - 1 \in Int
    OBVIOUS
  <2>2. Line(r, m)[i + 1] = Nth(r, (i + 1) - 1)
    BY <2>1 DEF Line
  <2> QED
    BY <1>1, <2>1, <2>2
<1> QED
  BY <1>2, <1>3, <1>4, <1>5, <1>6 DEF Line

LEMMA PipeInit == Init => P!Init
<1> SUFFICES ASSUME Init PROVE P!Init
  OBVIOUS
<1>1. Whole /\ received = 0 /\ printed = 0 /\ count = 0 /\ txFifo = <<>>
  BY WholeInit DEF Init
<1>2. tx_in = 0 /\ tx_out = 0 /\ 0 \in Index
  BY UartAssumption DEF Init, Index
<1>3. Amount = 0
  BY <1>1, <1>2, GapValue DEF Amount
<1>4. Inside = <<>>
  BY <1>1, <1>3, InLineFacts DEF InLine, Line
<1> QED
  BY <1>1, <1>4 DEF P!Init, Inside

(* Who touches neither end touches nothing.                                *)
LEMMA SameEnds ==
  ASSUME Whole, Whole', UNCHANGED <<printed, received>>
  PROVE  Inside' = Inside
<1>1. InLine /\ InLine'
  BY InLineFacts, PTL
<1>2. Nth(received, Amount) = Nth(received, Amount')
  BY <1>1 DEF InLine, Nth
<1>3. Amount' = Amount
  <2>1. /\ received \in Char
        /\ Amount \in 0 .. Chars - 1 /\ Amount' \in 0 .. Chars - 1
    BY <1>1 DEF InLine
  <2> QED
    BY <1>2, <2>1, NthInjective
<1> QED
  BY <1>1, <1>3 DEF InLine, Line, Nth

(* A portion of the copy goes in at the back; the room that write computes *)
(* is there.                                                               *)
LEMMA MovePuts ==
  ASSUME Whole, Whole', CopyMove, n > 0
  PROVE  P!Put
<1>1. /\ UNCHANGED received
      /\ count' = count - n /\ printed' = (printed + n) % Chars
  BY DEF CopyMove, hwVars
<1>2. /\ n \in 1 .. count /\ received \in Char
      /\ n \in Nat /\ Gap(tx_in, tx_out) + n <= BUF_LEN - 1
  BY DEF Whole, TypeOK, Fits, CopyMove
<1>3. InLine /\ InLine'
  BY InLineFacts, PTL
<1> DEFINE m == Amount
<1>4. m + n \in 0 .. Size /\ m + n \in 0 .. Chars - 1 /\ m \in Nat
  <2>1. /\ tx_in \in Index /\ tx_out \in Index /\ txFifo \in Seq(Char)
        /\ Len(txFifo) <= FIFO_DEPTH
    BY DEF Whole, TypeOK
  <2>2. Gap(tx_in, tx_out) \in Nat /\ Len(txFifo) \in Nat
    BY <2>1, RingTypes, UartAssumption
  <2> QED
    BY <1>2, <2>1, <2>2, UartAssumption DEF Amount, Size
<1>5. Amount' = m + n
  <2>1. printed' = Nth(Nth(received, m), n)
    BY <1>1, <1>3 DEF InLine, Nth
  <2>2. received \in Int /\ m \in Int /\ n \in Int
    BY <1>2, <1>4, UartAssumption DEF Char
  <2>3. printed' = Nth(received, m + n)
    BY <2>1, <2>2, NthFacts
  <2>4. printed' = Nth(received, Amount') /\ Amount' \in 0 .. Chars - 1
    BY <1>1, <1>3 DEF InLine, Nth
  <2>5. m + n \in 0 .. Chars - 1 /\ Nth(received, Amount') = Nth(received, m + n)
    BY <1>4, <2>3, <2>4
  <2> HIDE DEF m
  <2> QED
    BY <1>2, <2>4, <2>5, NthInjective
<1>6. Inside' = Inside \o [i \in 1 .. n |-> (printed + i - 1) % Chars]
  <2>1. Inside = Line(received, m) /\ printed = Nth(received, m)
    BY <1>3 DEF InLine
  <2>2. Inside' = Line(received, m + n)
    BY <1>1, <1>3, <1>5 DEF InLine, Line, Nth
  <2> HIDE DEF m
  <2> QED
    BY <1>2, <1>4, <2>1, <2>2, LinePut
<1>7. Len(Inside) = m
  BY <1>3, <1>4 DEF InLine, Line
<1>8. Len(Inside) + n <= BUF_LEN - 1 + FIFO_DEPTH
  BY <1>4, <1>7 DEF Size
<1> QED
  BY <1>1, <1>2, <1>6, <1>8 DEF P!Put, Inside

(* The host takes the front.                                               *)
LEMMA ReadsGet ==
  ASSUME Whole, Whole', HostReads
  PROVE  P!Get
<1>1. UNCHANGED <<printed, count>> /\ received' = Nth(received, 1)
  BY DEF HostReads, callVars, Nth
<1>2. InLine /\ InLine'
  BY InLineFacts, PTL
<1> DEFINE m == Amount
           d == Amount'
<1>3. /\ received \in Char /\ received \in Int
      /\ m \in 0 .. Chars - 1 /\ d \in 0 .. Chars - 1 /\ d + 1 \in 0 .. Chars - 1
  <2>1. received \in Char /\ m \in 0 .. Chars - 1 /\ d \in 0 .. Chars - 1
    BY <1>2 DEF InLine
  <2>2. d \in 0 .. Size
    BY <1>2 DEF InLine, Size
  <2> HIDE DEF m, d
  <2> QED
    BY <2>1, <2>2, UartAssumption DEF Char, Size
<1>4. m = d + 1
  <2>1. printed = Nth(received, m) /\ printed = Nth(Nth(received, 1), d)
    BY <1>1, <1>2 DEF InLine, Nth
  <2> HIDE DEF m, d
  <2>2. Nth(Nth(received, 1), d) = Nth(received, d + 1)
    <3>1. d \in Int /\ 1 \in Int /\ 1 + d = d + 1
      BY <1>3
    <3>2. Nth(Nth(received, 1), d) = Nth(received, 1 + d)
      BY <1>3, <3>1, NthFacts
    <3> QED
      BY <3>1, <3>2
  <2>3. Nth(received, m) = Nth(received, d + 1)
    BY <2>1, <2>2
  <2> QED
    BY <1>3, <2>3, NthInjective
<1>5. Inside = Line(received, m) /\ Inside' = Line(Nth(received, 1), m - 1)
  <2>1. d = m - 1
    <3> HIDE DEF m, d
    <3> QED
      BY <1>3, <1>4
  <2> QED
    BY <1>1, <1>2, <2>1 DEF InLine, Line, Nth
<1>6. m \in Nat \ {0}
  <2> HIDE DEF m, d
  <2> QED
    BY <1>3, <1>4
<1>7. Inside # <<>> /\ Head(Inside) = received /\ Inside' = Tail(Inside)
  <2> HIDE DEF m
  <2> QED
    BY <1>3, <1>5, <1>6, LineGet
<1> QED
  BY <1>1, <1>7 DEF P!Get, Inside, Nth

(* Between calls there is nothing left to copy, and no portion is empty.   *)
Callers == (pc = "main" => count = 0) /\ (pc = "move" => n > 0)

LEMMA CallersInit == Init => Callers
  BY DEF Init, Callers

LEMMA CallersStep == Whole /\ Callers /\ [Next]_vars => Callers'
<1> SUFFICES ASSUME Whole, Callers, [Next]_vars PROVE Callers'
  OBVIOUS
<1> USE DEF Callers
<1>1. CASE CopyLoad
  <2>1. Run(tx_in, tx_out) \in Nat /\ count \in Nat
    BY RunFits DEF Whole, TypeOK
  <2>2. /\ n' \in Nat
        /\ pc' = "move" => n' # 0
        /\ pc' # "main"
    BY <1>1, <2>1 DEF CopyLoad, Least, Whole, TypeOK
  <2> QED
    BY <2>2
<1>2. CASE WriteCall \/ CopyMove \/ Kick \/ Wait \/ Check
  BY <1>2 DEF WriteCall, CopyMove, Kick, Wait, Check, Return
<1>3. CASE Isr \/ Tick \/ Host \/ UNCHANGED vars
  BY <1>3 DEF Isr, Tick, Host, HostReads, HostPolls, vars, callVars
<1> QED
  BY <1>1, <1>2, <1>3 DEF Next, Program

LEMMA PipeStep ==
  ASSUME Whole, Whole', Callers, [Next]_vars
  PROVE  [P!Next]_(P!vars)
<1>1. CASE CopyMove
  BY <1>1, MovePuts DEF Callers, CopyMove, P!Next
<1>2. CASE HostReads
  BY <1>2, ReadsGet DEF P!Next
<1>3. CASE ~CopyMove /\ ~HostReads
  <2>1. UNCHANGED <<printed, received>>
    BY <1>3 DEF Next, Program, Host, WriteCall, CopyLoad, Kick, Wait, Check, Return,
                Isr, Tick, HostPolls, vars, callVars, hwVars
  <2>2. Inside' = Inside
    BY <2>1, SameEnds
  <2>3. \/ count' = count
        \/ count = 0 /\ count' \in 1 .. MaxCount
        \/ count > 0 /\ count' = 0
    <3>1. count \in Nat
      BY DEF Whole, TypeOK
    <3>2. CASE WriteCall
      BY <3>2 DEF WriteCall, Callers
    <3>3. CASE Kick \/ Check
      BY <3>1, <3>3 DEF Kick, Check, Return
    <3>4. CASE ~WriteCall /\ ~Kick /\ ~Check
      BY <1>3, <3>4 DEF Next, Program, Host, CopyLoad, Wait, Isr, Tick, HostPolls,
                        vars, callVars
    <3> QED
      BY <3>2, <3>3, <3>4
  <2> QED
    BY <2>1, <2>2, <2>3 DEF P!Next, P!Call, P!GiveUp, P!vars, Inside
<1> QED
  BY <1>1, <1>2, <1>3

(* The driver implements a pipe of one character less than the ring and    *)
(* the FIFO together hold, for every size of both and every length of a    *)
(* call (_write.c:98-199, _init.c:169-196).                                *)
THEOREM ImplementsPipe == Spec => PrintsAsPipe
<1>1. Whole /\ Callers /\ [Next]_vars => (Whole /\ Callers)'
  BY WholeStep, CallersStep
<1>2. Init => Whole /\ Callers
  BY WholeInit, CallersInit
<1>3. Whole /\ Whole' /\ Callers /\ [Next]_vars => [P!Next]_(P!vars)
  BY PipeStep
<1> QED
  BY <1>1, <1>2, <1>3, PipeInit, PTL DEF Spec, PrintsAsPipe, P!Spec
=============================================================================
