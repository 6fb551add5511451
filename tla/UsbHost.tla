------------------------------- MODULE UsbHost -------------------------------
(***************************************************************************)
(* The USB host firmware: the main loop (main.c), the interrupt handler    *)
(* and bus probe (MAX3421E.c), the enumeration state machine (transfer.c)  *)
(* and the HID probes it calls (HID.c).  pc says where in an iteration of  *)
(* the loop the processor is; chip and cable move between any two of its   *)
(* steps.  Each step is one visit to the chip and what follows from it.    *)
(***************************************************************************)
EXTENDS MAX3421E

CONSTANT USB_NUMDEVICES     \* 8; addresses 1 .. USB_NUMDEVICES - 1 are given out

ASSUME UsbAssumption ==
    /\ USB_NUMDEVICES \in Nat \ {0, 1}
    /\ MaxEvents \in Nat
    /\ Kinds \subseteq {"keyboard", "mouse", "other"}

VARIABLES
    usb_task_state,     \* a byte
    epinfo, devclass,   \* the columns of devtable
    tmp_addr,           \* the address given to the device being configured
    hid_addr,           \* hid_device.addr
    usb_delay,          \* the settle timer: "running", "expired" or "never", a
                        \* deadline that the milliseconds wrap before (Settle)
    runningdebugflag, errorflag, device, LED9,
    pc, HIRQ            \* HIRQ: the handler's copy of the register

tableVars == <<epinfo, devclass>>
mainVars  == <<runningdebugflag, errorflag, device, LED9>>
fwVars    == <<usb_task_state, tableVars, tmp_addr, hid_addr, usb_delay,
               mainVars, pc, HIRQ>>
vars      == <<chipVars, fwVars>>

DETACHED        == 0        \* USB.h
INITIALIZE      == 1
WAIT_FOR_DEVICE == 3
ILLEGAL         == 4
ATTACHED        == 16
SETTLE          == 17
RESET_DEVICE    == 18
WAIT_RESET_COMPLETE == 19
WAIT_SOF        == 20
GET_DEVICE_DESCRIPTOR_SIZE == 21
ADDRESSING      == 32
CONFIGURING     == 48
RUNNING         == 64
ERROR           == 255

Masked(state) == state - (state % 16)        \* state & USB_STATE_MASK

UNINIT == 0
ClassOf(k) == IF k = "keyboard" THEN 1 ELSE 2   \* HID_K, HID_M
NoDevice == 255                                  \* device = 0xFF

Slots == 0 .. USB_NUMDEVICES

AddressesAll == Slots \ {0}     \* fault: one address too many

Addresses == 1 .. USB_NUMDEVICES - 1

-----------------------------------------------------------------------------
(* At power-on main calls MAX3421E_init, then USB_init; the loop does the  *)
(* same when a running device has gone.                                    *)
Init ==
    /\ ChipInit
    /\ usb_task_state = INITIALIZE
    /\ epinfo = [s \in Slots |-> "NULL"] /\ devclass = [s \in Slots |-> UNINIT]
    /\ tmp_addr = 0 /\ hid_addr = 0 /\ usb_delay = "expired"
    /\ runningdebugflag = FALSE /\ errorflag = FALSE
    /\ device = NoDevice /\ LED9 = FALSE
    /\ pc = "init" /\ HIRQ = {}

USB_initBare ==     \* fault: the entry of the unaddressed device left out
    /\ epinfo' = [s \in Slots |-> "NULL"]
    /\ devclass' = [s \in Slots |-> UNINIT]

USB_init ==
    /\ epinfo' = [s \in Slots |-> IF s = 0 THEN "dev0ep" ELSE "NULL"]
    /\ devclass' = [s \in Slots |-> UNINIT]

MAX_busprobe ==
    \/ /\ JStatus \/ KStatus
       /\ usb_task_state # WAIT_RESET_COMPLETE
       /\ mode' = [low |-> IF JStatus THEN mode.low ELSE ~mode.low, sof |-> TRUE]
       /\ usb_task_state' = ATTACHED
    \/ /\ JStatus \/ KStatus
       /\ usb_task_state = WAIT_RESET_COMPLETE
       /\ UNCHANGED <<mode, usb_task_state>>
    \/ /\ line = "SE1"
       /\ usb_task_state' = ILLEGAL
       /\ UNCHANGED mode
    \/ /\ line = "SE0" /\ Masked(usb_task_state) # DETACHED
       /\ usb_task_state' = INITIALIZE      \* clear device data structures
       /\ UNCHANGED mode
    \/ /\ line = "SE0" /\ Masked(usb_task_state) = DETACHED
       /\ mode' = [low |-> FALSE, sof |-> TRUE]
       /\ usb_task_state' = WAIT_FOR_DEVICE

-----------------------------------------------------------------------------
(* MAX3421E_init, in three visits to the chip: reset, probe, acknowledge.  *)
InitReset ==
    /\ pc = "init" /\ pc' = "initProbe"
    /\ hirq' = {} /\ busrst' = FALSE
    /\ mode' = [low |-> FALSE, sof |-> FALSE]
    /\ UNCHANGED <<line, kind, devaddr, events, usb_task_state, tableVars,
                   tmp_addr, hid_addr, usb_delay, mainVars, HIRQ>>

InitProbe ==
    /\ pc = "initProbe" /\ pc' = "initAck"
    /\ MAX_busprobe
    /\ UNCHANGED <<hirq, busrst, line, kind, devaddr, events, tableVars,
                   tmp_addr, hid_addr, usb_delay, mainVars, HIRQ>>

InitAck ==
    /\ pc = "initAck" /\ pc' = "poll"
    /\ hirq' = hirq \ {"CONDET"}
    /\ USB_init
    /\ errorflag' = FALSE /\ LED9' = FALSE
    /\ UNCHANGED <<busrst, mode, line, kind, devaddr, events, usb_task_state,
                   tmp_addr, hid_addr, usb_delay, runningdebugflag, device, HIRQ>>

(* MAX3421E_Task and MaxIntHandler: read HIRQ, probe, acknowledge.         *)
Poll ==
    /\ pc = "poll"
    /\ \/ "CONDET" \in hirq /\ HIRQ' = hirq /\ pc' = "probe"
       \/ "CONDET" \notin hirq /\ pc' = "task" /\ UNCHANGED HIRQ
    /\ UNCHANGED <<chipVars, usb_task_state, tableVars, tmp_addr, hid_addr,
                   usb_delay, mainVars>>

Probe ==
    /\ pc = "probe" /\ pc' = "ack"
    /\ MAX_busprobe
    /\ UNCHANGED <<hirq, busrst, line, kind, devaddr, events, tableVars,
                   tmp_addr, hid_addr, usb_delay, mainVars, HIRQ>>

Ack ==
    /\ pc = "ack" /\ pc' = "task"
    /\ usb_task_state' = IF "BUSEVENT" \in HIRQ THEN (usb_task_state + 1) % 256
                                                ELSE usb_task_state
    /\ hirq' = hirq \ HIRQ
    /\ HIRQ' = {}
    /\ UNCHANGED <<busrst, mode, line, kind, devaddr, events, tableVars,
                   tmp_addr, hid_addr, usb_delay, mainVars>>
-----------------------------------------------------------------------------
(* USB_Task, one action per state that does something.                     *)
Task(from, to) ==
    /\ pc = "task" /\ pc' = "main"
    /\ usb_task_state = from /\ usb_task_state' = to

TaskInitialize ==
    /\ Task(INITIALIZE, WAIT_FOR_DEVICE)
    /\ USB_init
    /\ UNCHANGED <<chipVars, tmp_addr, hid_addr, usb_delay, mainVars, HIRQ>>

TaskAttached ==
    /\ Task(ATTACHED, SETTLE)
    /\ usb_delay' \in {"running", "never"}
    /\ UNCHANGED <<chipVars, tableVars, tmp_addr, hid_addr, mainVars, HIRQ>>

TaskSettle ==
    /\ Task(SETTLE, RESET_DEVICE)
    /\ usb_delay = "expired"
    /\ UNCHANGED <<chipVars, tableVars, tmp_addr, hid_addr, usb_delay, mainVars, HIRQ>>

(* Two registers: the old bus event is cleared, then the reset begins.     *)
TaskClearNothing ==     \* fault: the bus event stays
    /\ pc = "task" /\ pc' = "reset"
    /\ usb_task_state = RESET_DEVICE
    /\ UNCHANGED <<chipVars, usb_task_state, tableVars, tmp_addr, hid_addr,
                   usb_delay, mainVars, HIRQ>>

TaskClear ==
    /\ pc = "task" /\ pc' = "reset"
    /\ usb_task_state = RESET_DEVICE
    /\ hirq' = hirq \ {"BUSEVENT"}
    /\ UNCHANGED <<busrst, mode, line, kind, devaddr, events, usb_task_state,
                   tableVars, tmp_addr, hid_addr, usb_delay, mainVars, HIRQ>>

TaskReset ==
    /\ pc = "reset" /\ pc' = "main"
    /\ usb_task_state' = WAIT_RESET_COMPLETE
    /\ busrst' = TRUE /\ devaddr' = Unreset
    /\ UNCHANGED <<hirq, mode, line, kind, events, tableVars, tmp_addr, hid_addr,
                   usb_delay, mainVars, HIRQ>>

TaskResetComplete ==
    /\ Task(WAIT_RESET_COMPLETE, WAIT_SOF)
    /\ ~busrst
    /\ mode' = [mode EXCEPT !.sof = TRUE]
    /\ UNCHANGED <<hirq, busrst, line, kind, devaddr, events, tableVars, tmp_addr,
                   hid_addr, usb_delay, mainVars, HIRQ>>

(* The condition MAXreg_rd(rHIRQ) | bmFRAMEIRQ is never 0.                 *)
TaskSof ==
    /\ Task(WAIT_SOF, GET_DEVICE_DESCRIPTOR_SIZE)
    /\ UNCHANGED <<chipVars, tableVars, tmp_addr, hid_addr, usb_delay, mainVars, HIRQ>>

(* Only the first of the descriptor transfers decides.                     *)
TaskDescriptor ==
    /\ \/ Answers(0) /\ Task(GET_DEVICE_DESCRIPTOR_SIZE, ADDRESSING)
       \/ Task(GET_DEVICE_DESCRIPTOR_SIZE, ERROR)
    /\ UNCHANGED <<chipVars, tableVars, tmp_addr, hid_addr, usb_delay, mainVars, HIRQ>>

Free == {a \in Addresses : epinfo[a] = "NULL"}
FirstFree(a) == a \in Free /\ \A b \in Free : a <= b

(* The table entry is taken before the transfer and kept if it fails.  A   *)
(* failed one may have reached the device all the same.                    *)
TaskAddress ==
    /\ \E i \in Addresses :
         /\ FirstFree(i)
         /\ epinfo' = [epinfo EXCEPT ![i] = epinfo[0]]
         /\ \/ /\ Answers(0) /\ Task(ADDRESSING, CONFIGURING)
               /\ devaddr' = i /\ tmp_addr' = i
            \/ /\ Task(ADDRESSING, ERROR)
               /\ devaddr' = devaddr \/ (Answers(0) /\ devaddr' = i)
               /\ UNCHANGED tmp_addr
    /\ UNCHANGED <<hirq, busrst, mode, line, kind, events, devclass, hid_addr,
                   usb_delay, mainVars, HIRQ>>

TaskNoAddressStay ==    \* fault: no error when the addresses run out
    /\ Task(ADDRESSING, ADDRESSING)
    /\ Free = {}
    /\ UNCHANGED <<chipVars, tableVars, tmp_addr, hid_addr, usb_delay, mainVars, HIRQ>>

TaskNoAddress ==
    /\ Task(ADDRESSING, ERROR)
    /\ Free = {}
    /\ UNCHANGED <<chipVars, tableVars, tmp_addr, hid_addr, usb_delay, mainVars, HIRQ>>

(* HIDMProbe or HIDKProbe finds its interface and fills in the table; the  *)
(* two requests that follow may still fail.                                *)
TaskConfigure ==
    /\ Answers(tmp_addr) /\ kind # "other"
    /\ Task(CONFIGURING, RUNNING) \/ Task(CONFIGURING, ERROR)
    /\ epinfo' = [epinfo EXCEPT ![tmp_addr] = "hid_ep"]
    /\ devclass' = [devclass EXCEPT ![tmp_addr] = ClassOf(kind)]
    /\ hid_addr' = tmp_addr
    /\ UNCHANGED <<chipVars, tmp_addr, usb_delay, mainVars, HIRQ>>

TaskNoDriver ==
    /\ Task(CONFIGURING, ERROR)
    /\ UNCHANGED <<chipVars, tableVars, tmp_addr, hid_addr, usb_delay, mainVars, HIRQ>>

(* The states with no case, or whose case only waits.                      *)
Waiting ==
    \/ usb_task_state = SETTLE /\ usb_delay # "expired"
    \/ usb_task_state = WAIT_RESET_COMPLETE /\ busrst
    \/ usb_task_state \notin {INITIALIZE, ATTACHED, SETTLE, RESET_DEVICE,
            WAIT_RESET_COMPLETE, WAIT_SOF, GET_DEVICE_DESCRIPTOR_SIZE,
            ADDRESSING, CONFIGURING}

TaskWait ==
    /\ Waiting
    /\ Task(usb_task_state, usb_task_state)
    /\ UNCHANGED <<chipVars, tableVars, tmp_addr, hid_addr, usb_delay, mainVars, HIRQ>>

USB_Task ==
    \/ TaskInitialize \/ TaskAttached \/ TaskSettle \/ TaskClear
    \/ TaskReset \/ TaskResetComplete \/ TaskSof \/ TaskDescriptor \/ TaskAddress
    \/ TaskNoAddress \/ TaskConfigure \/ TaskNoDriver \/ TaskWait

-----------------------------------------------------------------------------
(* The rest of an iteration of main, after USB_Task.                       *)
Listed == {a \in Addresses : epinfo[a] # "NULL"}

LastFirst(a) == a \in Listed /\ \A b \in Listed : a <= b   \* fault: stops at the first

Last(a) == a \in Listed /\ \A b \in Listed : b <= a

(* First time in RUNNING: GetDriverandReport takes the class of the last   *)
(* device of the table.                                                    *)
MainReport ==
    /\ pc = "main" /\ pc' = "poll"
    /\ usb_task_state = RUNNING /\ ~runningdebugflag
    /\ runningdebugflag' = TRUE /\ LED9' = TRUE
    /\ \/ Listed = {} /\ device' = NoDevice
       \/ \E a \in Addresses : Last(a) /\ device' = devclass[a]
    /\ UNCHANGED <<chipVars, usb_task_state, tableVars, tmp_addr, hid_addr,
                   usb_delay, errorflag, HIRQ>>

(* kbdPoll or mousePoll; what the report holds is not modelled here.       *)
MainPoll ==
    /\ pc = "main" /\ pc' = "poll"
    /\ usb_task_state = RUNNING /\ runningdebugflag
    /\ UNCHANGED <<chipVars, usb_task_state, tableVars, tmp_addr, hid_addr,
                   usb_delay, mainVars, HIRQ>>

MainError ==
    /\ pc = "main" /\ pc' = "poll"
    /\ usb_task_state = ERROR
    /\ errorflag' = TRUE
    /\ LED9' = (LED9 /\ errorflag)
    /\ UNCHANGED <<chipVars, usb_task_state, tableVars, tmp_addr, hid_addr,
                   usb_delay, runningdebugflag, device, HIRQ>>

MainIdleKeep ==     \* fault: runningdebugflag is not cleared
    /\ pc = "main" /\ pc' = "poll"
    /\ usb_task_state \notin {RUNNING, ERROR}
    /\ errorflag' = FALSE /\ LED9' = FALSE
    /\ UNCHANGED <<chipVars, usb_task_state, tableVars, tmp_addr, hid_addr,
                   usb_delay, device, runningdebugflag, HIRQ>>

MainIdle ==
    /\ pc = "main"
    /\ usb_task_state \notin {RUNNING, ERROR}
    /\ runningdebugflag' = FALSE
    /\ \/ /\ runningdebugflag /\ pc' = "init"
          /\ UNCHANGED <<errorflag, LED9>>
       \/ /\ ~runningdebugflag /\ pc' = "poll"
          /\ errorflag' = FALSE /\ LED9' = FALSE
    /\ UNCHANGED <<chipVars, usb_task_state, tableVars, tmp_addr, hid_addr,
                   usb_delay, device, HIRQ>>

Main == MainReport \/ MainPoll \/ MainError \/ MainIdle

(* The milliseconds pass usb_delay, in a moment that the loop will see.    *)
(* Module Settle shows that this is no less than 200 ms after it was set.  *)
(* The chip resets the bus for 50 ms, so that a reset which was under way  *)
(* then is over: the one assumption on time in this module.                *)
ResetIsOver == ~busrst

SettleTimer ==
    /\ usb_delay = "running" /\ usb_delay' = "expired"
    /\ ResetIsOver
    /\ UNCHANGED <<chipVars, usb_task_state, tableVars, tmp_addr, hid_addr,
                   mainVars, pc, HIRQ>>

(* The milliseconds wrap.  The deadline of an earlier attachment, which    *)
(* stays when a bus event leads from ATTACHED into SETTLE, lies ahead      *)
(* again; in the other states that makes no difference.                    *)
Wrap ==
    /\ usb_task_state = ATTACHED
    /\ usb_delay = "expired" /\ usb_delay' = "running"
    /\ UNCHANGED <<chipVars, usb_task_state, tableVars, tmp_addr, hid_addr,
                   mainVars, pc, HIRQ>>

Firmware ==
    \/ InitReset \/ InitProbe \/ InitAck
    \/ Poll \/ Probe \/ Ack \/ USB_Task \/ Main

Next ==
    \/ Firmware
    \/ SettleTimer \/ Wrap
    \/ ChipNext /\ UNCHANGED fwVars

Spec == Init /\ [][Next]_vars

(* The processor runs, the chip ends a reset it has begun, and time passes: *)
(* a deadline that can be exceeded is exceeded some time (SettleEndsElse   *)
(* of module Settle).  Nothing is promised of one that cannot.             *)
FairSpec ==
    /\ Spec
    /\ WF_vars(Firmware)
    /\ WF_vars(SettleTimer)
    /\ WF_vars(ResetDone /\ UNCHANGED fwVars)

-----------------------------------------------------------------------------
TypeOK ==
    /\ ChipTypeOK
    /\ devaddr \in {Unreset, 0} \cup Addresses
    /\ usb_task_state \in 0 .. 255
    /\ epinfo \in [Slots -> {"NULL", "dev0ep", "hid_ep"}]
    /\ devclass \in [Slots -> {UNINIT, 1, 2}]
    /\ tmp_addr \in 0 .. USB_NUMDEVICES - 1 /\ hid_addr \in 0 .. USB_NUMDEVICES - 1
    /\ usb_delay \in {"running", "expired", "never"}
    /\ runningdebugflag \in BOOLEAN /\ errorflag \in BOOLEAN /\ LED9 \in BOOLEAN
    /\ device \in {UNINIT, 1, 2, NoDevice}
    /\ pc \in {"init", "initProbe", "initAck", "poll", "probe", "ack", "task",
              "reset", "main"}
    /\ HIRQ \subseteq Irqs

(* No transfer follows a null or a foreign endpoint pointer, whatever was  *)
(* plugged and whichever addresses earlier attempts have left taken:       *)
(* enumeration uses slot 0 and then the new slot (transfer.c:303, 339,     *)
(* 363), the report slot 1 (main.c:29 and 49) and the poll, which reads a  *)
(* second endpoint record, the slot of hid_device (HID.c:219).             *)
EndpointsValid ==
    /\ pc = "task" /\ usb_task_state = GET_DEVICE_DESCRIPTOR_SIZE =>
          epinfo[0] = "dev0ep"
    /\ pc = "task" /\ usb_task_state = CONFIGURING => epinfo[tmp_addr] # "NULL"
    /\ pc = "main" /\ usb_task_state = RUNNING =>
          IF runningdebugflag THEN epinfo[hid_addr] = "hid_ep"
                              ELSE epinfo[1] # "NULL"

(* The loop polls a device as what it was configured as: the class it      *)
(* keeps since GetDriverandReport (main.c:40-47) is still the one of       *)
(* hid_device, although another device may have come in the meantime.      *)
PolledAsProbed ==
    pc = "main" /\ usb_task_state = RUNNING /\ runningdebugflag =>
        device = devclass[hid_addr]

(* Who answers a poll is the device that was configured: a keyboard that   *)
(* was exchanged for a mouse, behind the back of the state machine or in   *)
(* one of the windows in which it does not look, never has its reports     *)
(* read as those of the other (MAX3421E.c:161 and 226, HID.c:219,          *)
(* main.c:140-165).                                                        *)
TalksToItsDevice ==
    usb_task_state = RUNNING /\ devaddr # Unreset =>
        /\ devaddr = hid_addr
        /\ devclass[hid_addr] = ClassOf(kind)
        /\ runningdebugflag => device = ClassOf(kind)

(* At the end of every iteration LED 9 and runningdebugflag say the same,  *)
(* and neither outlives RUNNING: no way out of that state escapes the      *)
(* clean-up of main.c:266-285.                                             *)
LedShowsRunning ==
    pc = "poll" => /\ LED9 = runningdebugflag
                   /\ runningdebugflag => usb_task_state = RUNNING

(* Nothing is transferred while the bus is in reset or without its frame   *)
(* markers, although the interrupt handler advances the state machine on   *)
(* its own (MAX3421E.c:234-237, transfer.c:286 and 290-296).               *)
QuietBus ==
    \/ pc = "task" /\ usb_task_state \in
          {GET_DEVICE_DESCRIPTOR_SIZE, ADDRESSING, CONFIGURING}
    \/ pc = "main" /\ usb_task_state = RUNNING
    => ~busrst /\ mode.sof

(* An attached device is either taken into operation, rejected, or found   *)
(* to be gone; the state machine does not stay between (transfer.c:246),   *)
(* except in SETTLE with a deadline that the milliseconds wrap before      *)
(* (transfer.c:281).                                                       *)
AttachmentEnds ==
    usb_task_state = ATTACHED
      ~> \/ usb_task_state \in {RUNNING, ERROR} \/ Masked(usb_task_state) = DETACHED
         \/ usb_task_state = SETTLE /\ usb_delay = "never"

-----------------------------------------------------------------------------
(* What the comments of the code say and the code does not do.             *)

(* "when first SOF received we can continue" (transfer.c:298): enumeration *)
(* leaves WAIT_SOF once a frame marker has been seen.                      *)
SofAwaited ==
    [][usb_task_state = WAIT_SOF /\ usb_task_state' = GET_DEVICE_DESCRIPTOR_SIZE
         => "FRAME" \in hirq]_vars

(* "clear device data structures" (MAX3421E.c:177): when a device comes to *)
(* an empty bus, the addresses of those before it have been given back.    *)
DetachClears ==
    [][pc = "probe" /\ Masked(usb_task_state) = DETACHED
          /\ usb_task_state' = ATTACHED
         => \A a \in Addresses : epinfo[a] = "NULL"]_vars
=============================================================================
