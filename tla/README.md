# Verification of the two-player FPGA game

The repository is a game for a DE10-Lite board. SystemVerilog modules move two
characters, detect who has jumped on whom, count lives and draw the picture;
C firmware on a Nios II soft core drives a MAX3421E USB host controller, reads
a keyboard and writes one byte of pressed keys into a register the hardware
reads. This directory holds TLA+ models of both halves, the TLC runs that check
them, and TLAPS proofs about both.

## 1. Inventory

| Part | State | Operations | Talks to |
|---|---|---|---|
| `ball0`, `ball1` (characters) | position and motion, four 10-bit registers each | frame clock (move, or respawn on `die`), reset | keycode in, positions out, `die` from the detector, phase from the controller |
| `collision_detection` | none (combinational) | who stands on whom | positions in, two wires out |
| `game_fsm` (controller) | phase, two 3-bit lives registers | frame clock, reset | stomp wires in; lives and phase out |
| `lab62` (top level) | none | wiring, reset and start keys | everything |
| `color_mapper` | scoreboard area flags, facing of each character | pixel clock | reads all of the above |
| `vga_controller` | pixel clock, two counters, sync and blank registers | pixel clock | its vertical sync is the frame clock of the game |
| USB enumeration (`USB_Task`, `MAX_busprobe`, `MaxIntHandler`, main loop) | `usb_task_state`, device table, settle timer, `hid_device`, flags of main | one iteration of the main loop | chip registers over SPI; interrupt pin, polled |
| USB transfers (`XferDispatchPkt`, `XferInTransfer`) | data toggles, NAK and retry counts, deadline | one transfer | chip; called by enumeration and by polling |
| HID driver | `hid_ep`, `hid_device` | probe keyboard, probe mouse, poll | transfers, device table |
| Key encoding (main.c) | keycode register | one boot report | HID driver in, game out |
| System clock (`alt_tick.c`, `alt_alarm_start.c`, timer driver) | 32-bit tick counter, one alarm | timer interrupt | settle wait, transfer deadline, JTAG UART |
| JTAG UART driver | ring, interrupt enables, seconds without host | `write`, interrupt routine, alarm | every `printf` of the firmware |
| HEX digits, LEDs, sprite ROMs | - | tables and debug output | - |
| `usb_kb`, rest of `*_bsp`, `lab6*_soc`, `db`, `simulation` | - | earlier version, vendor-generated | - |

What is hard here:

* **One clock, old values.** All game registers load on the rising edge of
  VGA_VS and read each other's previous values. The state register follows the
  lives registers one frame late; the wall test precedes the move it limits by
  one frame; a respawn keeps the old motion.
* **Unsigned arithmetic.** Speeds are two's complement in unsigned registers,
  lives wrap at 3 bits, X coordinates pass through signed wires.
* **Polling against hardware.** Chip and cable change between any two register
  accesses of the firmware; one interrupt source is enabled, others are handled
  only in passing; the handler increments the state machine's variable.
* **Partial failure.** Enumeration is a dozen transfers that can each fail after
  part of its effect.
* **A bus that loses packets.** A lost packet and a lost acknowledgement look
  alike to the sender; only one toggle bit tells a repeated report from a new
  one, and it is saved at one place of a loop with five exits.
* **A clock made of a picture.** The game's clock is the display's own vertical
  pulse, and reset may fall on any pixel.
* **Interrupts.** `printf` fills a ring that the interrupt routine empties; each
  turns the interrupt on or off by what it last saw of the other.
* **Counters that wrap.** Ticks, alarm time and milliseconds are 32-bit values
  that wrap at different moments.

What makes each part correct: a character stays on the screen and falls no
faster than its height allows; a match has one loser, controller and characters
agree on every stomp and the banner names the right player; enumeration ends,
transfers only on a quiet bus and through valid endpoint records, and a device
is polled as what it was probed; reports reach the game once and in order and
descriptors arrive whole; the game's frames are regular and never tear the
picture; an alarm is on time; what is printed comes out once, in order, and
without stopping the firmware for good when nobody reads.

## 2. Modules

| Module | Models | Correspondence |
|---|---|---|
| `Ball` | `ball0.sv`, `ball1.sv` | one variable per register; `Frame(keycode, die, playing)` is the `always_ff` block, its helpers are the last surviving non-blocking assignment to each register; `ResetBall` the reset branch. `Jetpack` and `X_Step` tell the two characters apart. |
| `Collision` | `collision.sv` | two operators; `Signed` is the 10-bit signed wire |
| `GameFsm` | `Game_controller.sv` | `Frame` and `ResetFsm`; `Minus1` wraps at the register's width |
| `Match` | nothing: the specification | a stomp costs a life, the first without lives has lost, then only a reset changes anything |
| `Game` | `lab62.sv` | two instances of `Ball`, one of each other; `Frame` is one VGA_VS edge, with the wires crossed as in lines 167-176; `left` is the banner's choice (`Color_Mapper.sv:90`) |
| `MAX3421E` | the chip and the cable (external) | interrupt bits, reset bit, mode bits, what is plugged in, the address it answers to |
| `UsbHost` | `main.c`, `MAX3421E.c`, `transfer.c`, `HID.c` | `pc` walks through an iteration of the loop; each action is one visit to the chip and what follows. `MAX_busprobe`, `USB_init` and the states of `USB_Task` keep their names |
| `Keys` | `main.c:175-227` | the loop over six key codes; the register is the set of its 1 bits |
| `Transfer` | `transfer.c:77-227`, `HID.c:203-222`, `main.c:163-227` | one action per token on the bus with what the firmware makes of its result: `Retry` and `Failed` are the loop of `XferDispatchPkt`, `Setup`, `In`, `Status` the successful ends in `XferCtrlReq`, `XferInTransfer`, `XferCtrlData`/`XferCtrlND`; keyboard, chip and bus external |
| `Mailbox` | nothing: the specification | the keyboard posts a report, the game takes it, once |
| `HalClock` | `alt_tick.c`, `alt_alarm_start.c` | counter, alarm time and rollover flag keep their names |
| `JtagUart` | `altera_avalon_jtag_uart_write.c`, `_init.c` | extends `HalClock`; `write` in five steps (load the pointers, copy, enable the interrupt, wait, look for the host), one pass of the interrupt routine, the alarm's callback; FIFO and host external |
| `Pipe` | nothing: the specification | calls put characters in at one end of a bounded pipe, the reader takes them out at the other |
| `Settle` | `transfer.c:275-284` | extends `HalClock`; the 200 ms wait in the firmware's arithmetic |
| `VgaController` | `VGA_controller.sv` | `Pixel` is one edge of the pixel clock, `VgaReset` the reset branches |
| `Screen` | `Color_Mapper.sv`, `lab62.sv:167-201` | extends `VgaController`; `Picture(x, y)` is the nested choice of `RGB_Display` |
| `Modulo` | - | lemmas on remainders |
| `*_proofs` | - | theorems and proofs |
| `GameInputs`, `MC_*` | - | instances for TLC |

Operators whose comment begins with "fault" are variants of the definition
below them, used to see that each property notices a plausible mistake. They
are no part of the model.

How the models fit together. `Transfer` ends where `Game` begins: the register
`keycode` is what `Game.Frame` reads, and `OneDirection` is why the key sets of
the game's instances need no frame with both directions of a character. `Screen`
ends where `Game` begins on the other side: its `Rise` is the edge on which
`Game.Frame` happens, and for `Screen` the game is only registers that change
there. `UsbHost` treats a transfer as one outcome; `Transfer` opens it up for one
device, in the order of `UsbHost`'s states. The settle timer of `UsbHost` has
no milliseconds: it expires some time, or it is "never" exceeded. `Settle`
has them, and shows what `UsbHost` takes from it: the timer does not end before
its time (`SettlesLong`), it ends whenever the milliseconds can exceed its
deadline at all (`SettleEndsElse`), and there are deadlines they cannot exceed
(`settle_wrap`). A bus event may move ATTACHED to SETTLE without a new deadline;
then an old one counts, which a wrap may have put ahead again (`Wrap`).

Abstractions.
* *Game.* Keys are the set of functions a character sees pressed, not bits of a
  byte. The keycode register is written by the processor at any time, so a frame
  may find any combination; the instances leave out those that act like another
  one (`GameInputs`).
* *UsbHost.* Descriptors, packet sizes and the contents of reports are left out.
  A transfer can succeed only when a device with that address is plugged in at
  the speed the host is set to, the bus is not in reset and frame markers run; it
  can always fail, with or without effect on the device. HRSL is taken to show
  the line as it is when read, and not the host's own reset signal: this is what
  line 149 of `MAX3421E.c` relies on. A step may hold several accesses where
  their order against the chip's moves makes no difference; where it does, as
  between clearing the bus event and issuing the reset (`transfer.c:286-287`),
  each is a step of its own (`TaskClear`, `TaskReset`). There is one assumption
  about time, `ResetIsOver`: when the settle timer expires, a bus reset begun
  before the attachment is over. The chip resets for 50 ms, the firmware waits
  for more than 200 ms (`SettlesLong`). Without it a reset that ends between
  lines 286 and 287 would leave its bus event for the next one, and `QuietBus`
  would fail.
* *Transfer.* Addresses, sizes and payloads of descriptors are left out; a packet
  is its number, a report its six key codes. Chip and keyboard keep the rules of
  the bus on data toggles. The chip answers every token, so the 5 s deadline of
  `XferDispatchPkt` is not reached. What differs between the four descriptor
  requests is their length, so one of them stands for all; it is read as the
  configuration descriptor is by the HID probes, where an error ends the
  enumeration. `USB_Task` reads others on the way (`transfer.c:308-322`) and
  ignores whether that succeeds; those reads are left out.
* *JtagUart.* A character is its number in the stream modulo `Chars`, which is
  more than ring and FIFO can hold. Calls are blocking, as those of `printf`
  are. The FIFO asks for attention whenever it has room; the hardware's threshold
  only makes it ask later.
* *Screen.* One step is one pixel; the flags that the colour mapper registers at
  50 MHz have caught up by its second half. Images are not modelled, only which
  word of which image is shown.

## 3. Runs

| Run | Question | Instance |
|---|---|---|
| `ball0` | can keys, stomps, phases and resets, in any order, take the hovering character off the screen, make its fall overflow, or lift it without rising? | 5-bit registers, field 24 x 11, speed 1 |
| `ball1` | can the jetpack make a fall overflow? (the rest of `ball0` is proved for both) | the same, speed 2 |
| `game` | has a finished match one loser, and does the banner name the other; do controller and characters agree on a stomp; can the stomped one strike back; does the detector, in signed 10-bit arithmetic, know who is in reach; does the game implement `Match`; does a decided match end? | 4-bit registers, field 10 x 4, reach 2, 2 lives of at most 3; the jetpack stays off |
| `usb` | enumeration: valid endpoints, quiet bus, polled as probed, LED and flags agree; is the device that answers a poll the one that was configured; does every attachment end, unless its settle deadline cannot be exceeded? | 3 entries besides 0 of which 2 are given out, 4 disturbances |
| `xfer` | are reports lost, doubled or stuck; is a descriptor whole; can the register say both directions; does polling implement `Mailbox`? | 3 reports, a descriptor of 2 packets, 2 NAKs, 3 tries, 4 faults |
| `uart` | is a character lost, doubled or stuck; does `write` return, and leave nothing in the ring without its interrupt; does the driver implement `Pipe`; is the alarm on time across the wrap? | ring of 3, FIFO of 1, calls of up to 3, clock of 4 ticks |
| `screen` | is the game's clock regular and outside the picture; is anything torn, are exactly the visible columns of a sprite drawn, which words of the banner are read? | 14 x 12 pixels of which 10 x 8 are visible, sprites 2 x 2, banner 2 x 2 |
| `settle` | does the wait after an attachment last long enough; does it end if its deadline can be exceeded? | clock of 32 ticks, 7 milliseconds to 4 ticks, a delay of 2 |
| `usb_sof`, `usb_detach`, `settle_wrap`, `vsync` | disagreements between comments and code, section 5 | 2 disturbances; a clock of 32 ticks; the screen above |

Bounds. The game's instances shrink the screen, the registers and the speeds
together and keep their relations (`BallAssumption`, `GameAssumption`): a jump
still reaches another character's head, a fall still takes several frames of
growing speed, the wall margin is no larger than it must be for the faster
character, the signed half of the X register still lies inside the field, and
with two lives a match has a first stomp and a last one. In `game` player 1 only walks and jumps: the jetpack is `ball1`'s subject, and
without it the match is small enough for a liveness check; the theorems have it.

`USB_NUMDEVICES = 3` gives out two addresses, so one entry left over by a failed
attempt and running out of addresses both happen; `MaxEvents` bounds how often
the cable changes or the reset raises a connection interrupt. Four of them are
enough for a device to be exchanged during its reset and once more before the
late end of that reset.

In `xfer`, four faults lose the acknowledgement of a report, two of its repeats
and a packet of the next one, or end a poll, pull the keyboard out and spoil the
next enumeration. Two packets make a descriptor with a first and a last packet;
the two limits differ, so that mixing up their counters shows. In `uart` the ring
holds two characters and a call may bring three: it must wait in the middle, with
either part of the ring wrapped; two seconds without a host make it give up, and
the clock wraps every four seconds. In `screen` every timing relation of
`VgaAssumption` is strict, as it is in the code; places include one under the
scoreboard, one under the banner, one at the edges and one that the right edge
cuts in two. In `settle_wrap` the tick
counter has 32 values and the milliseconds wrap after 8, both powers of two as in
the code, and the delay is a quarter of that. In `settle` the rates of ticks and
milliseconds have no common factor, so every rounding happens, and the product
wraps every few ticks; `waited` counts no further than the delay.

All bounds of the passing runs but `MaxEvents` are also parameters of the
theorems below.

Deadlock is checked in every run.

Fairness. `game` assumes that some frame edge keeps coming: the display
scans as long as the board is clocked. No particular key is assumed. `usb`
assumes that the processor runs, that the chip finishes a bus reset, and that a
settle deadline the milliseconds can exceed is exceeded, which is what `settle`
checks of the code; a deadline behind the wrap ("never") keeps the device in
SETTLE, and `AttachmentEnds` excepts that state. Nothing is assumed of devices,
cables or frame markers. `xfer`
assumes that the processor runs and that a keyboard whose keys have changed
reports it; nothing is assumed of packets, of which up to `MaxFaults` are lost
at any time. `uart` assumes that the processor runs, interrupts are taken and
the timer ticks; the host owes nothing, and what depends on it (`WriteReturns`,
`RingDrains`) says so in its premise. `settle` and `settle_wrap` assume that time passes and
that the loop looks often enough to see every value of the clock (strong
fairness of `EndSettle`). In `settle_wrap` that is the best case for the code. In
`settle` it is an assumption: a deadline in the last millisecond but one leaves the
loop one millisecond in 71.6 minutes, while an iteration in SETTLE is a few accesses
to the chip.

## 4. Proofs

Proved by TLAPS for all parameter values that satisfy the named assumptions.

* `Ball_proofs`. `Safety`: `TypeOK /\ OnScreen` is inductive as it stands,
  because `OnScreen` already speaks of the motion stored for the next frame;
  `BallAssumption` says that two frames of motion fit between the wall margin
  and the wall. `BoundedFall`: the speed of a fall is tied to the height by the
  sum of the first natural numbers; `FallStep` is the arithmetic step, `Landed`
  and `Slow` the cases of the floor. `HeightGained` follows for each step.
* `Game_proofs`. `TypeCorrect` and `BallsOnScreen` lift the lemmas of each
  character through `INSTANCE`. For `FinishedMatch` the invariant says where
  each character can be in relation to the lives registers in the frame after a
  stomp: the stomped one is on the floor, and on the floor nobody is on top.
  `BannerRight` follows from it. `Defenceless` and `StompsAgree` are action
  properties from the same invariant. `ImplementsMatch` maps the registers to a
  phase and two visible lives (a register that wrapped shows 0) and shows that
  every step is a step of `Match` or stutters. `DetectorExact` follows from
  `BallsOnScreen` alone: on the screen, and as long as a hit's reach is shorter
  than the rest of the register (`GameAssumption`), the signed comparison is that
  of the distance, but across the seam at half the register's range.
* `UsbHost_proofs`, from `UsbAssumption` (at least one address to give out). None
  of the five safety invariants is inductive, and each needs to know what the
  other points of the loop can see. `FlagInv` lists the states in which
  each point of the loop can be while `runningdebugflag` is set: RUNNING, or
  what one probe, one increment by the handler and one call of `USB_Task` make
  of it; `LedHonest` follows. `BusInv` says whose reset a pending bus event
  belongs to: in WAIT_RESET_COMPLETE neither the chip nor the handler's copy
  holds one while the reset lasts, which is what keeps the handler's increment
  from starting transfers too early (`TransfersOnQuietBus`). Lines 286 and 287
  of `transfer.c` are two steps, so it also says that no reset is under way from
  the end of the settle wait to the next one: no event can come between them.
  This is where the assumption on time enters (`ResetIsOver`); for a wait that
  began with a bus event it follows without it, since a pending event means that
  the reset is over. `TableInv` says that
  addresses are given out without gaps and that the one in use is the newest;
  that is why slot 1, the last slot and `hid_device.addr` all work
  (`NoForeignEndpoint`, `PolledRight`). `DeviceInv` says that in RUNNING a
  device that answers has the address and the class in the records: RUNNING is
  entered by the configuration of the device at that address, and another one
  does not answer before the next reset (`PollsItsDevice`).
  `Inductive` combines them, one step per action.
* `Transfer_proofs`, from `TransferAssumption`. `LastCodeWins` says what the loop
  over six codes computes; `NeverBothWays` follows for the register. The invariant
  comes in two parts. `Base` holds however many packets a report takes: `DescData`
  says that the device is at the packet of the descriptor that comes next, or one
  behind it with the toggle that shows this; `Reported` that nothing but reports
  is decoded. `TypeCorrect` and `WholeDescriptor` read off it. `IntToggles`
  relates the toggles of chip, record and keyboard at every point of a poll, and
  needs `SingleReport`: a report fits into one packet, which holds because
  `kbdPoll` asks for 8 bytes and a boot keyboard's packets have 8. A report in two
  packets could be cut between them, and the toggle of the first is not saved
  (`XferInTransfer` saves it at the end). `ImplementsMailbox` maps the report in
  flight to the slot of the mailbox exactly while the toggle says it is new: a
  repeat after a lost acknowledgement is a stutter.
* `JtagUart_proofs`. `Ahead` says how far the alarm lies ahead and that the
  rollover flag tells whether the counter wraps on the way; `ClockOnTime` is
  proved for the clock alone and carried over to the driver, whose other steps
  leave the clock alone (`DriverOnTime`). For `StreamKept` the invariant `Whole`
  adds where each character of the stream lies (`Lies`) and that a copy in
  progress still fits, although the interrupt routine has moved `tx_out` since
  the space was computed (`Fits`). It also gives `TypeCorrect`. `AlwaysServed`
  adds that one pass of the interrupt routine either empties the ring or leaves
  its interrupt alone. `ImplementsPipe`: what ring and FIFO hold is a stretch of
  the stream (`InLine`), and how long it is follows from the numbers at its two
  ends (`NthInjective`), so a step that moves neither end changes nothing for the
  pipe, whatever it does to ring and FIFO. `Modulo` supplies the arithmetic: a
  remainder by a variable is beyond the solver.
* `Settle_proofs`, from `SettleAssumption` (the deadline fits its register).
  `TimerInv` bounds the product that wraps by what it was when the timer was set
  and the ticks since: a tick adds at most `Milli` to it (`TickAdds`), a wrap only
  takes away. `NeverEarly` is then a division.
* `Screen_proofs`. `VgaInv` ties the history (`rises`, `since`) to the position of
  the beam and both pulse registers to the previous position; the period of the
  ticks is then arithmetic (`RegularTicks`). `TicksBelow`, `PulseBeside` and
  `NothingTorn` follow, `BannerReads` from the geometry alone. For
  `SpriteComplete` the invariant says that all pixels of the sprite behind the beam
  have been drawn, but for the first one after a reset (`Scanned`); where the next
  tick falls none is left before it. That every word of the ROM belongs to one of
  these pixels, in its own column, although the addresses overflow, is
  `EveryWordSomewhere`; `ColumnOfWord` is the converse, from which it follows
  that nothing of a column beyond the edge is drawn (`ShownOnly`).

Only model-checked: `DecidedEnds`, `AttachmentEnds`, `SettleEndsElse`, `KeysArrive`,
`WriteReturns` and `RingDrains`. They are liveness properties under fairness, out of
the prover's reach; the safety each of them rests on is proved (`AlwaysServed` is
that of `RingDrains`). Only proved: `HSyncUnseen` (`PulseBeside`).

## 5. Disagreements between the code and its comments

* `transfer.c:298` waits for the first frame marker with `|` where `&` was
  meant; the condition is always true (`usb_sof`).
* `MAX3421E.c:234`: the event that marks the end of the enumeration's bus reset
  has no interrupt of its own and is found pending at the next connection
  change. On a detach it moves the state from INITIALIZE to 0x02, which has no
  case: the device table is not cleared, and the next device gets the next
  address (`usb_detach`). The re-initialisation in `main.c:278-281` repairs
  this after RUNNING, not after an error. The same event on an attachment moves
  ATTACHED to SETTLE and skips the start of the 200 ms timer (line 277): the
  device is reset as soon as the deadline of the one before is over, which it is.
* `transfer.c:277-281`: the milliseconds are computed by a 32-bit product and
  wrap every 71.6 minutes; a wait begun in the last 200 ms before that asks for a
  value that never comes, and the device is not enumerated until it is plugged in
  again (`settle_wrap`).
* `VGA_controller.sv:98` puts the vertical pulse at lines 490 and 491; since the
  comparison looks one line ahead it is at 489 and 490 (`vsync`). Harmless.

Further observations, where no comment says otherwise; the properties state what
does hold:

* Where the X coordinate passes half the range of its register, 512, the
  detector's signed wires change sign: a character at 511 and one at 512 are out
  of each other's reach (exception in `ReachExact`).
* A second hit in the frame in which a match is lost wraps the loser's lives
  register to 7; if it is the right player's, the banner congratulates the loser
  (exception in `BannerTrue`).
* The banner's area is one line and one column larger than its image
  (`BannerInRom` says which words outside it are read).
* The bottom line of a sprite's image is drawn on top, as the address of the top
  line overflows (`SpriteWhole` says that no line is missing for all that).
* A character can stand further right than its sprite fits: `ball1` reaches 630 in
  play, where the test of line 137 stops it at 621 but takes effect a frame late, and
  outside PLAYING the wall sets both to 639 (`ball0.sv:83-87`, `ball1.sv:83-87`).
  The right part of the sprite is then cut off; `SpriteWhole` says that the
  columns on the screen are whole and nothing of the others comes in elsewhere.
* Reset gives the game one tick with the first pixel and one before the frame is
  over (exceptions in `TickPeriod`, `TickUnseen`, `SteadyPicture`).
* Any `printf` stops the game's input while a debugger is attached that shows
  itself but reads nothing (premise of `WriteReturns`).

## 6. Not modelled

* HEX digits, LEDs other than 9 and debug printing: output only.
* The images in the sprite ROMs, the picture of each digit, and which of its two
  images a character shows: data, and a latch of one bit that follows the keys.
* The receive side of the JTAG UART and its `close`: the firmware reads nothing
  from it and never ends.
* SPI access to the chip (`MAXreg_rd` and the like): one register access is
  indivisible.
* The 5 s deadline of a packet (`transfer.c:153`), which only a chip that does not
  answer lets pass; the contents of descriptors.
* `software/usb_kb`, the earlier copy of the firmware: the same functions once
  more.
* The rest of the generated platform. Most lines of the repository are the
  vendor's support package (two copies), its simulation models and image tables;
  only a few of its routines have state that the game or the firmware depends on,
  and these are in `HalClock` and `JtagUart`. This is why the mapped lines are a
  small share of the whole, although nearly all of the game's logic and of the
  firmware's control is modelled.
