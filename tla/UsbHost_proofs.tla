--------------------------- MODULE UsbHost_proofs ----------------------------
(***************************************************************************)
(* What holds of the USB host for every number of addresses, every kind of *)
(* device and any number of disturbances of the bus.                       *)
(***************************************************************************)
EXTENDS UsbHost, TLAPS

USE DEF DETACHED, INITIALIZE, WAIT_FOR_DEVICE, ILLEGAL, ATTACHED, SETTLE,
        RESET_DEVICE, WAIT_RESET_COMPLETE, WAIT_SOF, GET_DEVICE_DESCRIPTOR_SIZE,
        ADDRESSING, CONFIGURING, RUNNING, ERROR

-----------------------------------------------------------------------------
(* Where the state machine can be at each point of the loop, above all     *)
(* while runningdebugflag is still set: RUNNING, or what a connection      *)
(* change and one call of USB_Task make of it.                             *)
Starting == pc \in {"init", "initProbe", "initAck"}
Gone     == {INITIALIZE, 2, WAIT_FOR_DEVICE, ILLEGAL, 5, SETTLE, RESET_DEVICE}
Probed   == {ATTACHED, ILLEGAL, INITIALIZE, WAIT_FOR_DEVICE}

FlagInv ==
    /\ pc \in {"init", "initProbe"} => usb_task_state \in Gone
    /\ pc = "initAck" => usb_task_state \in Probed
    /\ pc = "ack" => usb_task_state \in Probed \cup {WAIT_RESET_COMPLETE}
    /\ pc = "reset" => usb_task_state = RESET_DEVICE /\ ~runningdebugflag
    /\ Starting => ~runningdebugflag
    /\ ~Starting => LED9 = runningdebugflag
    /\ runningdebugflag =>
          /\ pc \in {"poll", "probe"} => usb_task_state = RUNNING
          /\ pc = "ack" => usb_task_state \in Probed
          /\ pc = "task" => usb_task_state \in Probed \cup {RUNNING, 2, 5, SETTLE}
          /\ pc = "main" => usb_task_state \in Gone \cup {RUNNING}

(* A bus event, in the chip or in the handler's copy, means that no reset  *)
(* is under way: each reset begins with none.  A reset that was under way  *)
(* when a device was found is over when the device has settled.            *)
Busy     == {WAIT_SOF, GET_DEVICE_DESCRIPTOR_SIZE, ADDRESSING, CONFIGURING, RUNNING}
Underway == Busy \cup {ATTACHED, SETTLE, RESET_DEVICE, WAIT_RESET_COMPLETE}

BusInv ==
    /\ "BUSEVENT" \in hirq \cup HIRQ => ~busrst
    /\ pc \notin {"probe", "ack"} => HIRQ = {}
    /\ pc = "reset" => "BUSEVENT" \notin hirq
    /\ usb_task_state = SETTLE /\ usb_delay = "expired" => ~busrst
    /\ usb_task_state \in Busy \cup {RESET_DEVICE} => ~busrst
    /\ pc # "initProbe" /\ usb_task_state \in Underway => mode.sof

(* Addresses are given out without gaps, and the newest is the one in use. *)
Newest(x) == x \in Addresses /\ \A a \in Addresses : epinfo[a] # "NULL" => a <= x

TableInv ==
    /\ \A a, b \in Addresses : epinfo[a] # "NULL" /\ b <= a => epinfo[b] # "NULL"
    /\ ~Starting => epinfo[0] = "dev0ep"
    /\ usb_task_state = CONFIGURING => Newest(tmp_addr) /\ epinfo[tmp_addr] # "NULL"
    /\ usb_task_state = RUNNING =>
          /\ Newest(hid_addr) /\ epinfo[hid_addr] = "hid_ep"
          /\ runningdebugflag => device = devclass[hid_addr]

(* What answers in RUNNING is what was configured.                         *)
DeviceInv ==
    usb_task_state = RUNNING /\ devaddr # Unreset =>
        devaddr = hid_addr /\ devclass[hid_addr] = ClassOf(kind)

IInv == TypeOK /\ FlagInv /\ BusInv /\ TableInv /\ DeviceInv

-----------------------------------------------------------------------------
(* The probe sets MODE as a whole.                                         *)
LEMMA ProbeMode ==
  ASSUME ChipTypeOK, MAX_busprobe
  PROVE  mode' \in [low : BOOLEAN, sof : BOOLEAN]
<1> USE DEF ChipTypeOK, MAX_busprobe
<1>1. CASE UNCHANGED mode
  BY <1>1
<1>2. CASE mode' = [low |-> FALSE, sof |-> TRUE]
  BY <1>2
<1>3. CASE mode' = [low |-> IF JStatus THEN mode.low ELSE ~mode.low, sof |-> TRUE]
  <2>1. (IF JStatus THEN mode.low ELSE ~mode.low) \in BOOLEAN
    BY Zenon
  <2> QED BY <1>3, <2>1, Zenon
<1> QED BY <1>1, <1>2, <1>3

(* The chip's registers and the cable keep their types.                    *)
LEMMA ChipTypeOKStep ==
  ASSUME ChipTypeOK, [Next]_vars PROVE ChipTypeOK'
<1> USE UsbAssumption DEF ChipTypeOK, Irqs, Lines, Speeds
<1>1. CASE InitReset
  BY <1>1 DEF InitReset, chipVars, tableVars, mainVars
<1>2. CASE InitProbe
  BY <1>2, ProbeMode DEF InitProbe, chipVars, tableVars, mainVars
<1>3. CASE InitAck
  BY <1>3 DEF InitAck, USB_init, chipVars, tableVars, mainVars
<1>4. CASE Poll
  BY <1>4 DEF Poll, chipVars, tableVars, mainVars
<1>5. CASE Probe
  BY <1>5, ProbeMode DEF Probe, chipVars, tableVars, mainVars
<1>6. CASE Ack
  BY <1>6 DEF Ack, chipVars, tableVars, mainVars
<1>7. CASE TaskInitialize
  BY <1>7 DEF TaskInitialize, USB_init, Task, chipVars, tableVars, mainVars
<1>8. CASE TaskAttached
  BY <1>8 DEF TaskAttached, Task, chipVars, tableVars, mainVars
<1>9. CASE TaskSettle
  BY <1>9 DEF TaskSettle, Task, chipVars, tableVars, mainVars
<1>10. CASE TaskClear \/ TaskReset
  BY <1>10 DEF TaskClear, TaskReset, chipVars, tableVars, mainVars
<1>11. CASE TaskResetComplete
  BY <1>11 DEF TaskResetComplete, Task, chipVars, tableVars, mainVars
<1>12. CASE TaskSof
  BY <1>12 DEF TaskSof, Task, chipVars, tableVars, mainVars
<1>13. CASE TaskDescriptor
  BY <1>13 DEF TaskDescriptor, Task, chipVars, tableVars, mainVars
<1>14. CASE TaskAddress
  BY <1>14 DEF TaskAddress, FirstFree, Free, Task, chipVars, tableVars,
       mainVars
<1>15. CASE TaskNoAddress
  BY <1>15 DEF TaskNoAddress, Free, Task, chipVars, tableVars, mainVars
<1>16. CASE TaskConfigure
  BY <1>16 DEF TaskConfigure, Task, chipVars, tableVars, mainVars
<1>17. CASE TaskNoDriver
  BY <1>17 DEF TaskNoDriver, Task, chipVars, tableVars, mainVars
<1>18. CASE TaskWait
  BY <1>18 DEF TaskWait, Waiting, Task, chipVars, tableVars, mainVars
<1>19. CASE MainReport
  BY <1>19 DEF MainReport, chipVars, tableVars, mainVars
<1>20. CASE MainPoll
  BY <1>20 DEF MainPoll, chipVars, tableVars, mainVars
<1>21. CASE MainError
  BY <1>21 DEF MainError, chipVars, tableVars, mainVars
<1>22. CASE MainIdle
  BY <1>22 DEF MainIdle, chipVars, tableVars, mainVars
<1>23. CASE SettleTimer \/ Wrap
  BY <1>23 DEF SettleTimer, Wrap, chipVars, tableVars, mainVars
<1>24. CASE Plug /\ UNCHANGED fwVars
  BY <1>24 DEF Plug, fwVars, tableVars, mainVars
<1>25. CASE ResetNoise /\ UNCHANGED fwVars
  BY <1>25 DEF ResetNoise, fwVars, tableVars, mainVars
<1>26. CASE ResetDone /\ UNCHANGED fwVars
  BY <1>26 DEF ResetDone, fwVars, tableVars, mainVars
<1>27. CASE StartOfFrame /\ UNCHANGED fwVars
  BY <1>27 DEF StartOfFrame, fwVars, tableVars, mainVars
<1>28. CASE UNCHANGED vars
  BY <1>28 DEF vars, chipVars, fwVars, tableVars, mainVars
<1> QED BY <1>1, <1>2, <1>3, <1>4, <1>5, <1>6, <1>7, <1>8, <1>9, <1>10, <1>11,
     <1>12, <1>13, <1>14, <1>15, <1>16, <1>17, <1>18, <1>19, <1>20, <1>21,
     <1>22, <1>23, <1>24, <1>25, <1>26, <1>27, <1>28
     DEF Next, Firmware, USB_Task, Main, ChipNext

(* So do the variables of the firmware.                                    *)
LEMMA TypeOKStep ==
  ASSUME TypeOK, ChipTypeOK', [Next]_vars PROVE TypeOK'
<1> USE DEF TypeOK
<1>1. CASE InitReset
  BY <1>1 DEF InitReset, chipVars, tableVars, mainVars
<1>2. CASE InitProbe
  BY <1>2 DEF InitProbe, MAX_busprobe, JStatus, KStatus, chipVars, tableVars,
       mainVars
<1>3. CASE InitAck
  BY <1>3 DEF InitAck, USB_init, chipVars, tableVars, mainVars, Slots,
       Addresses, UNINIT, NoDevice
<1>4. CASE Poll
  <2> USE <1>4 DEF Poll, ChipTypeOK, chipVars, tableVars, mainVars
  <2>1. CASE "CONDET" \in hirq
    BY <2>1
  <2>2. CASE "CONDET" \notin hirq
    BY <2>2
  <2> QED BY <2>1, <2>2
<1>5. CASE Probe
  BY <1>5 DEF Probe, MAX_busprobe, JStatus, KStatus, chipVars, tableVars,
       mainVars
<1>6. CASE Ack
  BY <1>6 DEF Ack, chipVars, tableVars, mainVars, Irqs
<1>7. CASE TaskInitialize
  BY <1>7 DEF TaskInitialize, USB_init, Task, chipVars, tableVars, mainVars,
       Slots, Addresses, UNINIT, NoDevice
<1>8. CASE TaskAttached
  BY <1>8 DEF TaskAttached, Task, chipVars, tableVars, mainVars
<1>9. CASE TaskSettle
  BY <1>9 DEF TaskSettle, Task, chipVars, tableVars, mainVars
<1>10. CASE TaskClear \/ TaskReset
  <2>1. CASE TaskClear
    BY <2>1 DEF TaskClear, tableVars, mainVars
  <2>2. CASE TaskReset
    BY <2>2 DEF TaskReset, tableVars, mainVars
  <2> QED BY <1>10, <2>1, <2>2
<1>11. CASE TaskResetComplete
  BY <1>11 DEF TaskResetComplete, Task, chipVars, tableVars, mainVars
<1>12. CASE TaskSof
  BY <1>12 DEF TaskSof, Task, chipVars, tableVars, mainVars
<1>13. CASE TaskDescriptor
  BY <1>13 DEF TaskDescriptor, Task, chipVars, tableVars, mainVars
<1>14. CASE TaskAddress
  BY <1>14, UsbAssumption DEF TaskAddress, FirstFree, Free, Task, chipVars, tableVars,
       mainVars, Slots, Addresses, UNINIT, NoDevice
<1>15. CASE TaskNoAddress
  BY <1>15 DEF TaskNoAddress, Free, Task, chipVars, tableVars, mainVars
<1>16. CASE TaskConfigure
  BY <1>16, UsbAssumption DEF TaskConfigure, Task, chipVars, tableVars, mainVars, ClassOf,
       Slots, Addresses, UNINIT, NoDevice
<1>17. CASE TaskNoDriver
  BY <1>17 DEF TaskNoDriver, Task, chipVars, tableVars, mainVars
<1>18. CASE TaskWait
  BY <1>18 DEF TaskWait, Waiting, Task, chipVars, tableVars, mainVars
<1>19. CASE MainReport
  BY <1>19, UsbAssumption DEF MainReport, chipVars, tableVars, mainVars, Last, Listed,
       Slots, Addresses, UNINIT, NoDevice
<1>20. CASE MainPoll
  BY <1>20 DEF MainPoll, chipVars, tableVars, mainVars
<1>21. CASE MainError
  BY <1>21 DEF MainError, chipVars, tableVars, mainVars
<1>22. CASE MainIdle
  <2> USE <1>22 DEF MainIdle, ChipTypeOK, chipVars, tableVars, mainVars
  <2>1. CASE runningdebugflag
    BY <2>1
  <2>2. CASE ~runningdebugflag
    BY <2>2
  <2> QED BY <2>1, <2>2
<1>23. CASE SettleTimer \/ Wrap
  BY <1>23 DEF SettleTimer, Wrap, chipVars, tableVars, mainVars
<1>24. CASE Plug /\ UNCHANGED fwVars
  BY <1>24 DEF Plug, fwVars, tableVars, mainVars
<1>25. CASE ResetNoise /\ UNCHANGED fwVars
  BY <1>25 DEF ResetNoise, fwVars, tableVars, mainVars
<1>26. CASE ResetDone /\ UNCHANGED fwVars
  BY <1>26 DEF ResetDone, fwVars, tableVars, mainVars, Unreset
<1>27. CASE StartOfFrame /\ UNCHANGED fwVars
  BY <1>27 DEF StartOfFrame, fwVars, tableVars, mainVars
<1>28. CASE UNCHANGED vars
  BY <1>28 DEF vars, chipVars, fwVars, tableVars, mainVars
<1> QED BY <1>1, <1>2, <1>3, <1>4, <1>5, <1>6, <1>7, <1>8, <1>9, <1>10, <1>11,
     <1>12, <1>13, <1>14, <1>15, <1>16, <1>17, <1>18, <1>19, <1>20, <1>21,
     <1>22, <1>23, <1>24, <1>25, <1>26, <1>27, <1>28
     DEF Next, Firmware, USB_Task, Main, ChipNext

(* Every step keeps the state machine where FlagInv says it can be.        *)
LEMMA FlagInvStep ==
  ASSUME TypeOK, FlagInv, [Next]_vars PROVE FlagInv'
<1> USE UsbAssumption DEF TypeOK, ChipTypeOK, FlagInv, Starting, Gone, Probed
<1>1. CASE InitReset
  BY <1>1 DEF InitReset, chipVars, tableVars, mainVars
<1>2. CASE InitProbe
  BY <1>2 DEF InitProbe, MAX_busprobe, JStatus, KStatus, chipVars, tableVars,
       mainVars
<1>3. CASE InitAck
  BY <1>3 DEF InitAck, USB_init, chipVars, tableVars, mainVars
<1>4. CASE Poll
  BY <1>4 DEF Poll, chipVars, tableVars, mainVars
<1>5. CASE Probe
  BY <1>5 DEF Probe, MAX_busprobe, JStatus, KStatus, chipVars, tableVars,
       mainVars
<1>6. CASE Ack
  BY <1>6 DEF Ack, chipVars, tableVars, mainVars
<1>7. CASE TaskInitialize
  BY <1>7 DEF TaskInitialize, USB_init, Task, chipVars, tableVars, mainVars
<1>8. CASE TaskAttached
  BY <1>8 DEF TaskAttached, Task, chipVars, tableVars, mainVars
<1>9. CASE TaskSettle
  BY <1>9 DEF TaskSettle, Task, chipVars, tableVars, mainVars
<1>10. CASE TaskClear \/ TaskReset
  BY <1>10 DEF TaskClear, TaskReset, chipVars, tableVars, mainVars
<1>11. CASE TaskResetComplete
  BY <1>11 DEF TaskResetComplete, Task, chipVars, tableVars, mainVars
<1>12. CASE TaskSof
  BY <1>12 DEF TaskSof, Task, chipVars, tableVars, mainVars
<1>13. CASE TaskDescriptor
  BY <1>13 DEF TaskDescriptor, Task, chipVars, tableVars, mainVars
<1>14. CASE TaskAddress
  BY <1>14 DEF TaskAddress, FirstFree, Free, Task, chipVars, tableVars,
       mainVars
<1>15. CASE TaskNoAddress
  BY <1>15 DEF TaskNoAddress, Free, Task, chipVars, tableVars, mainVars
<1>16. CASE TaskConfigure
  BY <1>16 DEF TaskConfigure, Task, chipVars, tableVars, mainVars
<1>17. CASE TaskNoDriver
  BY <1>17 DEF TaskNoDriver, Task, chipVars, tableVars, mainVars
<1>18. CASE TaskWait
  BY <1>18 DEF TaskWait, Waiting, Task, chipVars, tableVars, mainVars
<1>19. CASE MainReport
  BY <1>19 DEF MainReport, chipVars, tableVars, mainVars
<1>20. CASE MainPoll
  BY <1>20 DEF MainPoll, chipVars, tableVars, mainVars
<1>21. CASE MainError
  BY <1>21 DEF MainError, chipVars, tableVars, mainVars
<1>22. CASE MainIdle
  BY <1>22 DEF MainIdle, chipVars, tableVars, mainVars
<1>23. CASE SettleTimer \/ Wrap
  BY <1>23 DEF SettleTimer, Wrap, chipVars, tableVars, mainVars
<1>24. CASE Plug /\ UNCHANGED fwVars
  BY <1>24 DEF Plug, fwVars, tableVars, mainVars
<1>25. CASE ResetNoise /\ UNCHANGED fwVars
  BY <1>25 DEF ResetNoise, fwVars, tableVars, mainVars
<1>26. CASE ResetDone /\ UNCHANGED fwVars
  BY <1>26 DEF ResetDone, fwVars, tableVars, mainVars
<1>27. CASE StartOfFrame /\ UNCHANGED fwVars
  BY <1>27 DEF StartOfFrame, fwVars, tableVars, mainVars
<1>28. CASE UNCHANGED vars
  BY <1>28 DEF vars, chipVars, fwVars, tableVars, mainVars
<1> QED BY <1>1, <1>2, <1>3, <1>4, <1>5, <1>6, <1>7, <1>8, <1>9, <1>10, <1>11,
     <1>12, <1>13, <1>14, <1>15, <1>16, <1>17, <1>18, <1>19, <1>20, <1>21,
     <1>22, <1>23, <1>24, <1>25, <1>26, <1>27, <1>28
     DEF Next, Firmware, USB_Task, Main, ChipNext

(* Every step keeps the bus quiet when it has to be: a bus event is cleared *)
(* before the reset that it might be taken for the end of.                 *)
LEMMA BusInvStep ==
  ASSUME TypeOK, FlagInv, BusInv, [Next]_vars PROVE BusInv'
<1> USE UsbAssumption DEF TypeOK, ChipTypeOK, FlagInv, Starting, Gone, Probed,
        BusInv, Busy, Underway, ResetIsOver
<1>1. CASE InitReset
  BY <1>1 DEF InitReset, chipVars, tableVars, mainVars
<1>2. CASE InitProbe
  BY <1>2 DEF InitProbe, MAX_busprobe, JStatus, KStatus, chipVars, tableVars,
       mainVars
<1>3. CASE InitAck
  BY <1>3 DEF InitAck, USB_init, chipVars, tableVars, mainVars
<1>4. CASE Poll
  BY <1>4 DEF Poll, chipVars, tableVars, mainVars
<1>5. CASE Probe
  BY <1>5 DEF Probe, MAX_busprobe, JStatus, KStatus, chipVars, tableVars,
       mainVars
<1>6. CASE Ack
  BY <1>6 DEF Ack, chipVars, tableVars, mainVars
<1>7. CASE TaskInitialize
  BY <1>7 DEF TaskInitialize, USB_init, Task, chipVars, tableVars, mainVars
<1>8. CASE TaskAttached
  BY <1>8 DEF TaskAttached, Task, chipVars, tableVars, mainVars
<1>9. CASE TaskSettle
  BY <1>9 DEF TaskSettle, Task, chipVars, tableVars, mainVars
<1>10. CASE TaskClear \/ TaskReset
  BY <1>10 DEF TaskClear, TaskReset, chipVars, tableVars, mainVars
<1>11. CASE TaskResetComplete
  BY <1>11 DEF TaskResetComplete, Task, chipVars, tableVars, mainVars
<1>12. CASE TaskSof
  BY <1>12 DEF TaskSof, Task, chipVars, tableVars, mainVars
<1>13. CASE TaskDescriptor
  BY <1>13 DEF TaskDescriptor, Task, chipVars, tableVars, mainVars
<1>14. CASE TaskAddress
  BY <1>14 DEF TaskAddress, FirstFree, Free, Task, chipVars, tableVars,
       mainVars
<1>15. CASE TaskNoAddress
  BY <1>15 DEF TaskNoAddress, Free, Task, chipVars, tableVars, mainVars
<1>16. CASE TaskConfigure
  BY <1>16 DEF TaskConfigure, Task, chipVars, tableVars, mainVars
<1>17. CASE TaskNoDriver
  BY <1>17 DEF TaskNoDriver, Task, chipVars, tableVars, mainVars
<1>18. CASE TaskWait
  BY <1>18 DEF TaskWait, Waiting, Task, chipVars, tableVars, mainVars
<1>19. CASE MainReport
  BY <1>19 DEF MainReport, chipVars, tableVars, mainVars
<1>20. CASE MainPoll
  BY <1>20 DEF MainPoll, chipVars, tableVars, mainVars
<1>21. CASE MainError
  BY <1>21 DEF MainError, chipVars, tableVars, mainVars
<1>22. CASE MainIdle
  BY <1>22 DEF MainIdle, chipVars, tableVars, mainVars
<1>23. CASE SettleTimer \/ Wrap
  BY <1>23 DEF SettleTimer, Wrap, chipVars, tableVars, mainVars
<1>24. CASE Plug /\ UNCHANGED fwVars
  BY <1>24 DEF Plug, fwVars, tableVars, mainVars
<1>25. CASE ResetNoise /\ UNCHANGED fwVars
  BY <1>25 DEF ResetNoise, fwVars, tableVars, mainVars
<1>26. CASE ResetDone /\ UNCHANGED fwVars
  BY <1>26 DEF ResetDone, fwVars, tableVars, mainVars
<1>27. CASE StartOfFrame /\ UNCHANGED fwVars
  BY <1>27 DEF StartOfFrame, fwVars, tableVars, mainVars
<1>28. CASE UNCHANGED vars
  BY <1>28 DEF vars, chipVars, fwVars, tableVars, mainVars
<1> QED BY <1>1, <1>2, <1>3, <1>4, <1>5, <1>6, <1>7, <1>8, <1>9, <1>10, <1>11,
     <1>12, <1>13, <1>14, <1>15, <1>16, <1>17, <1>18, <1>19, <1>20, <1>21,
     <1>22, <1>23, <1>24, <1>25, <1>26, <1>27, <1>28
     DEF Next, Firmware, USB_Task, Main, ChipNext

(* Every step keeps the table of addresses without gaps.                   *)
LEMMA TableInvStep ==
  ASSUME TypeOK, FlagInv, TableInv, [Next]_vars PROVE TableInv'
<1> USE UsbAssumption DEF TypeOK, ChipTypeOK, FlagInv, Starting, Gone, Probed,
        TableInv, Newest, Slots, Addresses
<1>1. CASE InitReset
  BY <1>1 DEF InitReset, chipVars, tableVars, mainVars
<1>2. CASE InitProbe
  BY <1>2 DEF InitProbe, MAX_busprobe, JStatus, KStatus, chipVars, tableVars,
       mainVars
<1>3. CASE InitAck
  BY <1>3 DEF InitAck, USB_init, chipVars, tableVars, mainVars
<1>4. CASE Poll
  BY <1>4 DEF Poll, chipVars, tableVars, mainVars
<1>5. CASE Probe
  BY <1>5 DEF Probe, MAX_busprobe, JStatus, KStatus, chipVars, tableVars,
       mainVars
<1>6. CASE Ack
  BY <1>6 DEF Ack, chipVars, tableVars, mainVars
<1>7. CASE TaskInitialize
  BY <1>7 DEF TaskInitialize, USB_init, Task, chipVars, tableVars, mainVars
<1>8. CASE TaskAttached
  BY <1>8 DEF TaskAttached, Task, chipVars, tableVars, mainVars
<1>9. CASE TaskSettle
  BY <1>9 DEF TaskSettle, Task, chipVars, tableVars, mainVars
<1>10. CASE TaskClear \/ TaskReset
  BY <1>10 DEF TaskClear, TaskReset, chipVars, tableVars, mainVars
<1>11. CASE TaskResetComplete
  BY <1>11 DEF TaskResetComplete, Task, chipVars, tableVars, mainVars
<1>12. CASE TaskSof
  BY <1>12 DEF TaskSof, Task, chipVars, tableVars, mainVars
<1>13. CASE TaskDescriptor
  BY <1>13 DEF TaskDescriptor, Task, chipVars, tableVars, mainVars
<1>14. CASE TaskAddress
  BY <1>14 DEF TaskAddress, FirstFree, Free, Task, chipVars, tableVars,
       mainVars
<1>15. CASE TaskNoAddress
  BY <1>15 DEF TaskNoAddress, Free, Task, chipVars, tableVars, mainVars
<1>16. CASE TaskConfigure
  BY <1>16 DEF TaskConfigure, Task, chipVars, tableVars, mainVars
<1>17. CASE TaskNoDriver
  BY <1>17 DEF TaskNoDriver, Task, chipVars, tableVars, mainVars
<1>18. CASE TaskWait
  BY <1>18 DEF TaskWait, Waiting, Task, chipVars, tableVars, mainVars
<1>19. CASE MainReport
  BY <1>19 DEF MainReport, chipVars, tableVars, mainVars, Last, Listed
<1>20. CASE MainPoll
  BY <1>20 DEF MainPoll, chipVars, tableVars, mainVars
<1>21. CASE MainError
  BY <1>21 DEF MainError, chipVars, tableVars, mainVars
<1>22. CASE MainIdle
  BY <1>22 DEF MainIdle, chipVars, tableVars, mainVars
<1>23. CASE SettleTimer \/ Wrap
  BY <1>23 DEF SettleTimer, Wrap, chipVars, tableVars, mainVars
<1>24. CASE Plug /\ UNCHANGED fwVars
  BY <1>24 DEF Plug, fwVars, tableVars, mainVars
<1>25. CASE ResetNoise /\ UNCHANGED fwVars
  BY <1>25 DEF ResetNoise, fwVars, tableVars, mainVars
<1>26. CASE ResetDone /\ UNCHANGED fwVars
  BY <1>26 DEF ResetDone, fwVars, tableVars, mainVars
<1>27. CASE StartOfFrame /\ UNCHANGED fwVars
  BY <1>27 DEF StartOfFrame, fwVars, tableVars, mainVars
<1>28. CASE UNCHANGED vars
  BY <1>28 DEF vars, chipVars, fwVars, tableVars, mainVars
<1> QED BY <1>1, <1>2, <1>3, <1>4, <1>5, <1>6, <1>7, <1>8, <1>9, <1>10, <1>11,
     <1>12, <1>13, <1>14, <1>15, <1>16, <1>17, <1>18, <1>19, <1>20, <1>21,
     <1>22, <1>23, <1>24, <1>25, <1>26, <1>27, <1>28
     DEF Next, Firmware, USB_Task, Main, ChipNext

(* Only TaskConfigure enters RUNNING, and only from a device that answers   *)
(* to the new address.                                                     *)
DeviceRests ==
    usb_task_state' = RUNNING =>
        usb_task_state = RUNNING /\ UNCHANGED <<devaddr, kind, hid_addr, devclass>>

LEMMA OthersRest ==
  ASSUME TypeOK, FlagInv, Firmware \/ SettleTimer \/ Wrap, ~TaskConfigure
  PROVE  DeviceRests
<1> USE DEF DeviceRests, TypeOK, FlagInv, Starting, Gone, Probed, chipVars, tableVars, mainVars
<1>1. CASE InitReset \/ InitProbe \/ InitAck
  BY <1>1 DEF InitReset, InitProbe, InitAck, MAX_busprobe
<1>2. CASE Poll \/ Probe
  BY <1>2 DEF Poll, Probe, MAX_busprobe
<1>3. CASE Ack
  BY <1>3 DEF Ack
<1>4. CASE TaskInitialize \/ TaskAttached \/ TaskSettle \/ TaskClear \/ TaskReset
  BY <1>4 DEF TaskInitialize, TaskAttached, TaskSettle, TaskClear, TaskReset, Task
<1>5. CASE TaskResetComplete \/ TaskSof \/ TaskDescriptor \/ TaskAddress
  BY <1>5 DEF TaskResetComplete, TaskSof, TaskDescriptor, TaskAddress, Task
<1>6. CASE TaskNoAddress \/ TaskNoDriver \/ TaskWait
  BY <1>6 DEF TaskNoAddress, TaskNoDriver, TaskWait, Task
<1>7. CASE Main \/ SettleTimer \/ Wrap
  BY <1>7 DEF Main, MainReport, MainPoll, MainError, MainIdle, SettleTimer, Wrap
<1> QED
  BY <1>1, <1>2, <1>3, <1>4, <1>5, <1>6, <1>7 DEF Firmware, USB_Task

(* A device that is plugged in later has seen no reset, and no reset ends  *)
(* while the host is RUNNING.                                              *)
LEMMA DeviceInvStep ==
  ASSUME TypeOK, FlagInv, BusInv, DeviceInv, [Next]_vars PROVE DeviceInv'
<1>1. CASE TaskConfigure
  <2>1. tmp_addr \in Slots
    BY UsbAssumption DEF TypeOK, Slots
  <2>2. devclass'[hid_addr'] = ClassOf(kind)
    BY <1>1, <2>1 DEF TaskConfigure, TypeOK
  <2> QED
    BY <1>1, <2>2 DEF TaskConfigure, Answers, DeviceInv, chipVars
<1>2. CASE (Firmware \/ SettleTimer \/ Wrap) /\ ~TaskConfigure
  BY <1>2, OthersRest DEF DeviceRests, DeviceInv
<1>3. CASE Plug /\ UNCHANGED fwVars
  BY <1>3 DEF Plug, DeviceInv
<1>4. CASE ResetDone /\ UNCHANGED fwVars
  BY <1>4 DEF ResetDone, DeviceInv, BusInv, Busy, fwVars
<1>5. CASE (ResetNoise \/ StartOfFrame) /\ UNCHANGED fwVars
  BY <1>5 DEF ResetNoise, StartOfFrame, DeviceInv, fwVars, tableVars
<1>6. CASE UNCHANGED vars
  BY <1>6 DEF vars, chipVars, fwVars, tableVars, DeviceInv
<1> QED
  BY <1>1, <1>2, <1>3, <1>4, <1>5, <1>6 DEF Next, ChipNext

(* The invariant holds when the board is switched on.                      *)
LEMMA InitInv == Init => IInv
<1> SUFFICES ASSUME Init PROVE IInv
  OBVIOUS
<1> USE UsbAssumption DEF Init, ChipInit
<1>1. TypeOK
  <2>1. mode \in [low : BOOLEAN, sof : BOOLEAN]
    OBVIOUS
  <2>2. ChipTypeOK
    <3>1. busrst \in BOOLEAN /\ hirq \subseteq Irqs /\ kind \in Kinds
      OBVIOUS
    <3>2. line \in Lines
      BY DEF Lines, Speeds
    <3>3. events \in 0 .. MaxEvents
      OBVIOUS
    <3> HIDE DEF Init, ChipInit
    <3> QED BY <2>1, <3>1, <3>2, <3>3 DEF ChipTypeOK
  <2>3. epinfo \in [Slots -> {"NULL", "dev0ep", "hid_ep"}]
    BY DEF Slots
  <2>4. devclass \in [Slots -> {UNINIT, 1, 2}]
    BY DEF Slots
  <2>5. /\ tmp_addr \in 0 .. USB_NUMDEVICES - 1
        /\ hid_addr \in 0 .. USB_NUMDEVICES - 1
        /\ usb_task_state \in 0 .. 255
    BY DEF INITIALIZE
  <2>6. /\ devaddr \in {Unreset, 0} \cup Addresses
        /\ device \in {UNINIT, 1, 2, NoDevice}
        /\ HIRQ \subseteq Irqs
    OBVIOUS
  <2>7. /\ runningdebugflag \in BOOLEAN /\ errorflag \in BOOLEAN /\ LED9 \in BOOLEAN
        /\ usb_delay = "expired"
        /\ pc = "init"
    OBVIOUS
  <2> QED BY <2>2, <2>3, <2>4, <2>5, <2>6, <2>7 DEF TypeOK
<1>2. FlagInv
  BY DEF FlagInv, Starting, Gone
<1>3. BusInv
  BY DEF BusInv, Busy, Underway
<1>4. TableInv
  BY DEF TableInv, Starting, Slots, Addresses
<1>5. DeviceInv
  BY DEF DeviceInv
<1> QED BY <1>1, <1>2, <1>3, <1>4, <1>5 DEF IInv

(* The invariant is inductive.                                             *)
LEMMA Inductive == Spec => []IInv
<1>1. IInv /\ [Next]_vars => IInv'
  <2> SUFFICES ASSUME IInv, [Next]_vars PROVE IInv'
    OBVIOUS
  <2>1. ChipTypeOK'
    BY ChipTypeOKStep DEF IInv, TypeOK
  <2>2. TypeOK'
    BY <2>1, TypeOKStep DEF IInv
  <2> QED BY <2>2, FlagInvStep, BusInvStep, TableInvStep, DeviceInvStep DEF IInv
<1> QED BY InitInv, <1>1, PTL DEF Spec

-----------------------------------------------------------------------------
(* Every variable of the host and the chip keeps its type. *)
THEOREM TypeCorrect == Spec => []TypeOK
<1>1. IInv => TypeOK
  BY DEF IInv
<1> QED BY Inductive, <1>1, PTL

(* LED 9 and runningdebugflag agree at the end of every iteration of main  *)
(* and do not outlive RUNNING.                                             *)
THEOREM LedHonest == Spec => []LedShowsRunning
<1>1. IInv => LedShowsRunning
  BY DEF IInv, FlagInv, Starting, LedShowsRunning
<1> QED BY Inductive, <1>1, PTL

(* No transfer is started during a bus reset or without frame markers,     *)
(* although the interrupt handler can advance the state machine past the   *)
(* state that waits for them.                                              *)
THEOREM TransfersOnQuietBus == Spec => []QuietBus
<1>1. IInv => QuietBus
  BY DEF IInv, BusInv, Busy, Underway, QuietBus
<1> QED BY Inductive, <1>1, PTL

(* No transfer follows a null or a foreign endpoint pointer, however many  *)
(* addresses failed attempts have left taken.                              *)
THEOREM NoForeignEndpoint == Spec => []EndpointsValid
<1>1. IInv => EndpointsValid
  <2> SUFFICES ASSUME IInv PROVE EndpointsValid
    OBVIOUS
  <2>1. pc = "task" => epinfo[0] = "dev0ep"
    BY DEF IInv, TableInv, Starting
  <2>2. usb_task_state = CONFIGURING => epinfo[tmp_addr] # "NULL"
    BY DEF IInv, TableInv
  <2>3. usb_task_state = RUNNING =>
          hid_addr \in Addresses /\ epinfo[hid_addr] = "hid_ep"
    BY DEF IInv, TableInv, Newest
  <2>4. usb_task_state = RUNNING => epinfo[1] # "NULL"
    <3> SUFFICES ASSUME usb_task_state = RUNNING PROVE epinfo[1] # "NULL"
      OBVIOUS
    <3>1. 1 \in Addresses /\ 1 <= hid_addr
      BY <2>3, UsbAssumption DEF Addresses
    <3> QED BY <2>3, <3>1 DEF IInv, TableInv
  <2> QED BY <2>1, <2>2, <2>3, <2>4 DEF EndpointsValid
<1> QED BY Inductive, <1>1, PTL

(* A device is polled as what it was probed: the class found last in the   *)
(* table is that of hid_device.                                            *)
THEOREM PolledRight == Spec => []PolledAsProbed
<1>1. IInv => PolledAsProbed
  BY DEF IInv, TableInv, PolledAsProbed
<1> QED BY Inductive, <1>1, PTL

(* The device that answers a poll is the one that was configured, and the  *)
(* class by which its reports are read is its own, whatever is plugged in  *)
(* and pulled out meanwhile and however often.                             *)
THEOREM PollsItsDevice == Spec => []TalksToItsDevice
<1>1. IInv => TalksToItsDevice
  BY DEF IInv, TableInv, DeviceInv, TalksToItsDevice
<1> QED BY Inductive, <1>1, PTL
=============================================================================
