------------------------------ MODULE JtagUart ------------------------------
(***************************************************************************)
(* The transmit side of the driver behind every printf of the firmware:    *)
(* the interrupt-driven JTAG UART of the board support package             *)
(* (altera_avalon_jtag_uart_init.c, _write.c).  A ring of characters lies  *)
(* between the program and the interrupt routine, a hardware FIFO between  *)
(* that and the host.  Without an operating system the semaphores are      *)
(* empty macros and a blocked call spins.  The firmware reads nothing from *)
(* stdin and never closes stdout, so the receive side and close are left   *)
(* out.                                                                    *)
(*                                                                         *)
(* Hardware and host are external.  Characters are numbered by their       *)
(* position in the stream, modulo Chars.                                   *)
(***************************************************************************)
EXTENDS HalClock, Sequences

CONSTANTS
    BUF_LEN,            \* 2048
    FIFO_DEPTH,         \* 64
    timeout,            \* 10: seconds after which the host is taken for absent
    INT_MAX,
    MaxCount,           \* bound: characters of one call
    Chars               \* bound: streams are numbered modulo Chars

ASSUME UartAssumption ==
    /\ BUF_LEN \in Nat \ {0, 1} /\ FIFO_DEPTH \in Nat \ {0}
    /\ timeout \in Nat \ {0} /\ INT_MAX \in Nat /\ timeout <= INT_MAX - 2
    /\ MaxCount \in Nat \ {0}
    /\ Chars \in Nat /\ Chars > BUF_LEN + FIFO_DEPTH

VARIABLES
    tx_buf, tx_in, tx_out,      \* the ring between write and the interrupt routine
    irq_enable, host_inactive,
    txFifo, ac,                 \* hardware: the FIFO; the bit "host was active"
    received,                   \* host: the next character it will read
    pc, out, n, count,          \* locals of write; count: characters to go
    printed                     \* the next character the program will print

ringVars  == <<tx_buf, tx_in, tx_out>>
hwVars    == <<txFifo, ac, received>>
callVars  == <<pc, out, n, count, printed>>
vars == <<clockVars, ringVars, irq_enable, host_inactive, hwVars, callVars>>

Index  == 0 .. BUF_LEN - 1
Char   == 0 .. Chars - 1

Init ==
    /\ ClockInit
    /\ tx_buf = [i \in Index |-> 0] /\ tx_in = 0 /\ tx_out = 0
    /\ irq_enable = {"RE"} /\ host_inactive = 0
    /\ txFifo = <<>> /\ ac = FALSE /\ received = 0
    /\ pc = "main" /\ out = 0 /\ n = 0 /\ count = 0 /\ printed = 0

(* The characters of a ring, oldest first.                                 *)
Ring(buf, from, to) ==
    [i \in 1 .. (to - from) % BUF_LEN |-> buf[(from + i - 1) % BUF_LEN]]

Least(a, b) == IF a <= b THEN a ELSE b

-----------------------------------------------------------------------------
(* altera_avalon_jtag_uart_write                                           *)
WriteCall ==
    /\ pc = "main" /\ pc' = "copy"
    /\ count' \in 1 .. MaxCount
    /\ UNCHANGED <<clockVars, ringVars, irq_enable, host_inactive, hwVars,
                   out, n, printed>>

RunFull(i, o) == IF i < o THEN o - i ELSE BUF_LEN - i  \* fault: fills the last slot

(* How many characters fit behind in without wrapping around.              *)
Run(i, o) ==
    IF i < o THEN o - 1 - i ELSE IF o > 0 THEN BUF_LEN - i ELSE BUF_LEN - 1 - i

CopyLoad ==
    /\ pc = "copy"
    /\ \/ /\ count > 0
          /\ out' = tx_out /\ n' = Least(count, Run(tx_in, tx_out))
          /\ pc' = IF n' = 0 THEN "kick" ELSE "move"
       \/ /\ count = 0 /\ pc' = "kick"
          /\ UNCHANGED <<out, n>>
    /\ UNCHANGED <<clockVars, ringVars, irq_enable, host_inactive, hwVars,
                   count, printed>>

CopyMove ==
    /\ pc = "move" /\ pc' = "copy"
    /\ tx_buf' = [i \in Index |-> IF i \in tx_in .. tx_in + n - 1
                                  THEN (printed + i - tx_in) % Chars ELSE tx_buf[i]]
    /\ tx_in' = (tx_in + n) % BUF_LEN
    /\ count' = count - n /\ printed' = (printed + n) % Chars
    /\ UNCHANGED <<clockVars, tx_out, irq_enable,
                   host_inactive, hwVars, out, n>>

(* The call returns; its locals are gone.                                  *)
Return == pc' = "main" /\ out' = 0 /\ n' = 0 /\ count' = 0

KickLate ==     \* fault: the interrupt is enabled only when the call must wait
    /\ pc = "kick"
    /\ irq_enable' = IF count > 0 THEN irq_enable \cup {"WE"} ELSE irq_enable
    /\ IF count > 0 THEN pc' = "wait" /\ UNCHANGED <<out, n, count>> ELSE Return
    /\ UNCHANGED <<clockVars, ringVars, host_inactive, hwVars, printed>>

Kick ==
    /\ pc = "kick"
    /\ irq_enable' = irq_enable \cup {"WE"}
    /\ IF count > 0 THEN pc' = "wait" /\ UNCHANGED <<out, n, count>> ELSE Return
    /\ UNCHANGED <<clockVars, ringVars, host_inactive, hwVars, printed>>

WaitForever ==      \* fault: the wait does not look for the host
    /\ pc = "wait" /\ pc' = "check"
    /\ out # tx_out
    /\ UNCHANGED <<clockVars, ringVars, irq_enable, host_inactive, hwVars,
                   out, n, count, printed>>

Wait ==
    /\ pc = "wait" /\ pc' = "check"
    /\ out # tx_out \/ host_inactive >= timeout
    /\ UNCHANGED <<clockVars, ringVars, irq_enable, host_inactive, hwVars,
                   out, n, count, printed>>

Check ==
    /\ pc = "check"
    /\ IF host_inactive > 0 THEN Return
       ELSE pc' = "copy" /\ UNCHANGED <<out, n, count>>
    /\ UNCHANGED <<clockVars, ringVars, irq_enable, host_inactive, hwVars, printed>>

Program == CopyLoad \/ CopyMove \/ Kick \/ Wait \/ Check

-----------------------------------------------------------------------------
(* The interrupt routine, one pass of its loop.                             *)
Isr ==
    /\ "WE" \in irq_enable /\ Len(txFifo) < FIFO_DEPTH
    /\ LET space == FIFO_DEPTH - Len(txFifo)
           ring  == Ring(tx_buf, tx_out, tx_in)
           k     == Least(space, Len(ring))
       IN /\ txFifo' = txFifo \o SubSeq(ring, 1, k)
          /\ tx_out' = (tx_out + k) % BUF_LEN
          /\ irq_enable' = IF k < space THEN irq_enable \ {"WE"} ELSE irq_enable
    /\ UNCHANGED <<clockVars, tx_buf, tx_in, host_inactive,
                   ac, received, callVars>>

TimeoutNoCap ==     \* fault: the count of silent seconds has no cap
    \/ ac /\ ac' = FALSE /\ host_inactive' = 0
    \/ ~ac /\ host_inactive' = host_inactive + 1 /\ UNCHANGED ac

(* altera_avalon_jtag_uart_timeout: was the host there in this second?     *)
Timeout ==
    \/ ac /\ ac' = FALSE /\ host_inactive' = 0
    \/ ~ac /\ host_inactive' = Least(host_inactive + 1, INT_MAX - 2) /\ UNCHANGED ac

(* The timer's interrupt.                                                  *)
Tick ==
    /\ alt_tick
    /\ IF Due THEN Timeout ELSE UNCHANGED <<ac, host_inactive>>
    /\ UNCHANGED <<ringVars, irq_enable, txFifo, received, callVars>>

-----------------------------------------------------------------------------
(* The host may read, or only show that it is there.                       *)
HostReads ==
    /\ txFifo # <<>>
    /\ txFifo' = Tail(txFifo) /\ received' = (received + 1) % Chars
    /\ ac' = TRUE
    /\ UNCHANGED <<clockVars, ringVars, irq_enable, host_inactive, callVars>>

HostPolls ==
    /\ ac' = TRUE
    /\ UNCHANGED <<clockVars, ringVars, irq_enable, host_inactive, txFifo,
                   received, callVars>>

Host == HostReads \/ HostPolls

Next == Program \/ WriteCall \/ Isr \/ Tick \/ Host

Spec == Init /\ [][Next]_vars

(* The processor runs, interrupts are taken and time passes.  The host     *)
(* owes nothing.                                                           *)
FairSpec ==
    Spec /\ WF_vars(Program) /\ WF_vars(Isr) /\ WF_vars(Tick)

-----------------------------------------------------------------------------
TypeOK ==
    /\ ClockTypeOK
    /\ tx_buf \in [Index -> Char] /\ tx_in \in Index /\ tx_out \in Index
    /\ irq_enable \subseteq {"RE", "WE"} /\ host_inactive \in 0 .. INT_MAX - 2
    /\ txFifo \in Seq(Char) /\ Len(txFifo) <= FIFO_DEPTH /\ ac \in BOOLEAN
    /\ received \in Char /\ printed \in Char
    /\ pc \in {"main", "copy", "move", "kick", "wait", "check"}
    /\ out \in Index /\ n \in 0 .. MaxCount /\ count \in 0 .. MaxCount

(* The characters of s are those from position first up to last.           *)
Consecutive(s, first, last) ==
    /\ \A i \in 1 .. Len(s) : s[i] = (first + i - 1) % Chars
    /\ (first + Len(s)) % Chars = last

(* No character is lost, repeated or reordered, and write reports truly    *)
(* how many it has taken when it gives up: FIFO and ring together hold     *)
(* exactly what the program has printed and the host has not read,         *)
(* whatever the interrupt routine does between two steps of a copy         *)
(* (_write.c:102-130 against _init.c:167-181).                             *)
StreamWhole ==
    Consecutive(txFifo \o Ring(tx_buf, tx_out, tx_in), received, printed)

P == INSTANCE Pipe WITH
       inside   <- txFifo \o Ring(tx_buf, tx_out, tx_in),
       todo     <- count,
       Capacity <- BUF_LEN - 1 + FIFO_DEPTH,
       Longest  <- MaxCount

(* To the program and the host the driver is a pipe: what write takes from *)
(* its caller goes in at the end, in the portions in which there is room,  *)
(* and nothing but the host takes anything out, at the other end; the      *)
(* interrupt routine is not seen at all (_write.c:98-199 against           *)
(* _init.c:169-196).                                                       *)
PrintsAsPipe == P!Spec

(* What a call leaves in the ring has its interrupt: none is turned off    *)
(* with characters behind it, although the interrupt routine empties the   *)
(* ring and turns it off between two steps of the call that fills it       *)
(* (_write.c:139-142 against _init.c:183-190).                             *)
RingServed ==
    pc \in {"main", "wait", "check"} /\ tx_in # tx_out => "WE" \in irq_enable

(* A printf returns: if the host goes away the driver notices, and if it   *)
(* keeps reading there is room some time (_write.c:182-189).  A host that  *)
(* shows itself but reads nothing blocks the firmware for ever.            *)
WriteReturns ==
    <>[][~Host]_vars \/ []<><<HostReads>>_vars
      => (pc = "copy" ~> pc = "main")

(* A character that printf has taken reaches a host that keeps reading,    *)
(* without the help of another printf: the interrupt that empties the ring *)
(* is on, or the program is about to turn it on (_write.c:139-142 against  *)
(* _init.c:183-190).                                                       *)
RingDrains ==
    []<>(txFifo = <<>>) =>
        \A c \in Char : printed = c /\ received # c ~> received = c
=============================================================================
