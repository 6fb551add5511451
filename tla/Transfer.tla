------------------------------ MODULE Transfer ------------------------------
(***************************************************************************)
(* Transfers of the USB host firmware over a bus that loses packets:       *)
(* XferCtrlReq, XferDispatchPkt and XferInTransfer (transfer.c), called    *)
(* once for a descriptor and the configuration of a device, then by        *)
(* kbdPoll (HID.c) again and again.  An action is one token on the bus,    *)
(* its result in HRSL and what the firmware does about it.                 *)
(*                                                                         *)
(* Chip and keyboard are not part of the repository.  They keep the rules  *)
(* of the bus on data toggles: the chip acknowledges a data packet with    *)
(* the wrong toggle and drops it; the device, once acknowledged, changes   *)
(* its toggle and goes on to the next packet, and repeats it otherwise.    *)
(***************************************************************************)
EXTENDS Keys, Sequences

CONSTANTS
    Reports, NoReport,
    ReportShort,        \* a report is shorter than MaxPktSize
    ReportWanted,       \* packets of MaxPktSize that nbytes makes
    DescPackets,        \* packets of the descriptor
    DescWanted,
    USB_NAK_LIMIT, USB_RETRY_LIMIT,
    MaxFaults           \* bound: packets lost or damaged, disconnections

ASSUME TransferAssumption ==
    /\ Reports \subseteq Codes /\ NoReport \notin Reports
    /\ ReportShort \in BOOLEAN
    /\ {ReportWanted, DescPackets, USB_NAK_LIMIT, USB_RETRY_LIMIT} \subseteq Nat \ {0}
    /\ DescWanted = DescPackets /\ MaxFaults \in Nat

VARIABLES
    pc,                 \* where the firmware is; "setup", "in", "status": in XferDispatchPkt
    req,                \* which transfer: "desc", "conf" or "poll"
    nak_count, retry_count, rcode,
    data,               \* the packets read so far
    rcvToggle,          \* of devtable[addr].epinfo[ep]
    keycode,
    chip,               \* the chip's receive toggle
    present, tog,       \* the device: connected; its toggle per endpoint
    sent,               \* how much of the descriptor has been acknowledged
    held, report, outbox,       \* its keys, the newest report, whether it waits
    faults

hostVars == <<pc, req, nak_count, retry_count, rcode, data, rcvToggle, keycode, chip>>
devVars  == <<present, tog, sent, report, outbox>>
vars     == <<hostVars, devVars, held, faults>>

Endpoints == {"ctl", "int"}
Ep == IF req = "poll" THEN "int" ELSE "ctl"

Init ==
    /\ pc = "main" /\ req = "desc"
    /\ nak_count = 0 /\ retry_count = 0 /\ rcode = "OK"
    /\ data = <<>> /\ rcvToggle = [e \in Endpoints |-> 0] /\ keycode = {}
    /\ chip = 0
    /\ present = FALSE /\ tog = [e \in Endpoints |-> 0]
    /\ sent = DescPackets
    /\ held \in Reports /\ report = NoReport /\ outbox = "off"
    /\ faults = 0

Fault == faults < MaxFaults /\ faults' = faults + 1

-----------------------------------------------------------------------------
(* The device on its own.                                                  *)
ChangeKeys ==
    /\ held' \in Reports
    /\ UNCHANGED <<hostVars, devVars, faults>>

(* A keyboard reports what has changed; it may repeat itself.              *)
Report ==
    /\ outbox = "empty"
    /\ report' = held /\ outbox' = "full"
    /\ UNCHANGED <<hostVars, present, tog, sent, held, faults>>

Pull ==
    /\ present /\ present' = FALSE /\ Fault
    /\ tog' = [e \in Endpoints |-> 0] /\ sent' = DescPackets
    /\ report' = NoReport /\ outbox' = "off"
    /\ UNCHANGED <<hostVars, held>>

-----------------------------------------------------------------------------
(* One token on the bus.                                                   *)
HasPacket == IF Ep = "int" THEN outbox = "full" ELSE sent < DescPackets
Packet    == IF Ep = "int" THEN report ELSE <<sent + 1>>
Short     == Ep = "int" /\ ReportShort

Acknowledged ==
    /\ tog' = [tog EXCEPT ![Ep] = 1 - @]
    /\ sent' = IF Ep = "ctl" THEN sent + 1 ELSE sent
    /\ outbox' = IF Ep = "int" THEN "empty" ELSE outbox
    /\ UNCHANGED <<present, report, faults>>

AckLost == Fault /\ UNCHANGED devVars

ToDevice == Acknowledged \/ AckLost

(* A SETUP packet starts the data stage anew; a new configuration resets   *)
(* the interrupt endpoint.                                                 *)
SetupTaken ==
    /\ present
    /\ sent' = IF req = "desc" THEN 0 ELSE DescPackets
    /\ \/ /\ req = "desc"
          /\ tog' = [tog EXCEPT !["ctl"] = 1]
          /\ UNCHANGED <<report, outbox>>
       \/ /\ req = "conf"
          /\ tog' = [tog EXCEPT !["ctl"] = 1, !["int"] = 0]
          /\ report' = NoReport /\ outbox' = "empty"
    /\ UNCHANGED present

(* The results that bring no data.                                         *)
Result(hrsl) ==
    \/ /\ hrsl = "NAK"
       /\ pc = "in" /\ present /\ ~HasPacket
       /\ UNCHANGED <<devVars, faults>>
    \/ /\ hrsl = "NAK"
       /\ pc = "status" /\ present /\ Fault
       /\ UNCHANGED devVars
    \/ /\ hrsl = "TOGERR"
       /\ pc = "in" /\ present /\ HasPacket /\ tog[Ep] # chip
       /\ ToDevice
    \/ /\ hrsl = "TIMEOUT"
       /\ ~present
       /\ UNCHANGED <<devVars, faults>>
    \/ /\ hrsl \in {"TIMEOUT", "ERR"}       \* lost, damaged, refused
       /\ present /\ Fault
       /\ UNCHANGED devVars
    \/ /\ hrsl = "TIMEOUT"
       /\ pc = "setup" /\ SetupTaken /\ Fault

Results == {"NAK", "TOGERR", "TIMEOUT", "ERR"}

-----------------------------------------------------------------------------
(* The loop of XferDispatchPkt.                                            *)
Dispatching == pc \in {"setup", "in", "status"}

AgainOnce(hrsl) ==      \* fault: one nak too many
    \/ hrsl = "NAK" /\ nak_count < USB_NAK_LIMIT
    \/ hrsl = "TIMEOUT" /\ retry_count + 1 < USB_RETRY_LIMIT

Again(hrsl) ==
    \/ hrsl = "NAK" /\ nak_count + 1 < USB_NAK_LIMIT
    \/ hrsl = "TIMEOUT" /\ retry_count + 1 < USB_RETRY_LIMIT

Retry ==
    /\ Dispatching
    /\ \E hrsl \in Results :
         /\ Result(hrsl) /\ Again(hrsl)
         /\ nak_count' = nak_count + (IF hrsl = "NAK" THEN 1 ELSE 0)
         /\ retry_count' = retry_count + (IF hrsl = "TIMEOUT" THEN 1 ELSE 0)
    /\ UNCHANGED <<pc, req, rcode, data, rcvToggle, keycode, chip, held>>

Dispatched(hrsl) == nak_count' = 0 /\ retry_count' = 0 /\ rcode' = hrsl

(* An error ends the transfer.  The poll is tried again by main, a device  *)
(* that fails in enumeration is given up.                                  *)
Failed ==
    /\ Dispatching
    /\ \E hrsl \in Results : Result(hrsl) /\ ~Again(hrsl) /\ Dispatched(hrsl)
    /\ pc' = IF req = "poll" THEN "main" ELSE "error"
    /\ UNCHANGED <<req, data, rcvToggle, keycode, chip, held>>

(* XferCtrlReq, then XferCtrlData with the toggle of a data stage or       *)
(* XferCtrlND.                                                             *)
Setup ==
    /\ pc = "setup" /\ SetupTaken /\ UNCHANGED faults
    /\ Dispatched("OK")
    /\ \/ /\ req = "desc" /\ pc' = "in"
          /\ rcvToggle' = [rcvToggle EXCEPT !["ctl"] = 1] /\ chip' = 1
       \/ /\ req = "conf" /\ pc' = "status"
          /\ UNCHANGED <<rcvToggle, chip>>
    /\ UNCHANGED <<req, data, keycode, held>>

Wanted == IF Ep = "int" THEN ReportWanted ELSE DescWanted

CompleteEarly == Short \/ Len(data) + 1 >= Wanted - 1      \* fault: off by one

Complete == Short \/ Len(data) + 1 >= Wanted

AfterIn == IF req = "poll" THEN "decode" ELSE "status"

(* XferInTransfer.  The toggle is saved when the transfer is complete.     *)
InKeepToggle ==     \* fault: the toggle is not saved
    /\ pc = "in" /\ present /\ HasPacket /\ tog[Ep] = chip
    /\ ToDevice
    /\ Dispatched("OK")
    /\ data' = Append(data, Packet) /\ chip' = 1 - chip
    /\ pc' = IF Complete THEN AfterIn ELSE "in"
    /\ UNCHANGED <<req, keycode, held, rcvToggle>>

In ==
    /\ pc = "in" /\ present /\ HasPacket /\ tog[Ep] = chip
    /\ ToDevice
    /\ Dispatched("OK")
    /\ data' = Append(data, Packet) /\ chip' = 1 - chip
    /\ \/ Complete /\ pc' = AfterIn /\ rcvToggle' = [rcvToggle EXCEPT ![Ep] = 1 - chip]
       \/ ~Complete /\ pc' = "in" /\ UNCHANGED rcvToggle
    /\ UNCHANGED <<req, keycode, held>>

(* The status stage; HID_init between the descriptor and XferSetConf.      *)
StatusNoInit ==     \* fault: HID_init is forgotten
    /\ pc = "status" /\ present
    /\ Dispatched("OK")
    /\ \/ req = "desc" /\ req' = "conf" /\ pc' = "setup"
       \/ req = "conf" /\ req' = "poll" /\ pc' = "main"
    /\ UNCHANGED <<data, keycode, chip, devVars, held, faults, rcvToggle>>

Status ==
    /\ pc = "status" /\ present
    /\ Dispatched("OK")
    /\ \/ /\ req = "desc" /\ req' = "conf" /\ pc' = "setup"
          /\ rcvToggle' = [rcvToggle EXCEPT !["int"] = 0]
       \/ /\ req = "conf" /\ req' = "poll" /\ pc' = "main"
          /\ UNCHANGED rcvToggle
    /\ UNCHANGED <<data, keycode, chip, devVars, held, faults>>

-----------------------------------------------------------------------------
(* kbdPoll starts XferInTransfer, which writes the saved toggle to HCTL.   *)
PollAnyToggle ==    \* fault: HCTL is not written
    /\ pc = "main" /\ req = "poll" /\ pc' = "in"
    /\ data' = <<>>
    /\ UNCHANGED <<req, nak_count, retry_count, rcode, rcvToggle, keycode, chip,
                   devVars, held, faults>>

Poll ==
    /\ pc = "main" /\ req = "poll" /\ pc' = "in"
    /\ data' = <<>> /\ chip' = rcvToggle["int"]
    /\ UNCHANGED <<req, nak_count, retry_count, rcode, rcvToggle, keycode,
                   devVars, held, faults>>

SetKeycode ==
    /\ pc = "decode" /\ pc' = "main"
    /\ keycode' = KeyByte(data[1])
    /\ UNCHANGED <<req, nak_count, retry_count, rcode, data, rcvToggle, chip,
                   devVars, held, faults>>

(* A new attachment, in the steps of module UsbHost; the bus reset makes   *)
(* the device answer.                                                      *)
Attach ==
    /\ pc \in {"main", "error"} /\ ~present
    /\ present' = TRUE
    /\ pc' = "setup" /\ req' = "desc" /\ data' = <<>>
    /\ UNCHANGED <<nak_count, retry_count, rcode, rcvToggle, keycode, chip,
                   tog, sent, report, outbox, held, faults>>

Firmware == Retry \/ Failed \/ Setup \/ In \/ Status \/ Poll \/ SetKeycode

Next == Firmware \/ Attach \/ Report \/ ChangeKeys \/ Pull

Spec == Init /\ [][Next]_vars

(* The processor runs and the keyboard reports changes.  Nothing is said   *)
(* about packets: MaxFaults of them may be lost at any time.               *)
FairSpec ==
    /\ Spec
    /\ WF_vars(Firmware)
    /\ WF_vars(held # report /\ Report)

-----------------------------------------------------------------------------
TypeOK ==
    /\ pc \in {"main", "setup", "in", "status", "decode", "error"}
    /\ req \in {"desc", "conf", "poll"}
    /\ nak_count \in 0 .. USB_NAK_LIMIT - 1
    /\ retry_count \in 0 .. USB_RETRY_LIMIT - 1
    /\ rcode \in Results \cup {"OK"}
    /\ data \in Seq(Reports \cup {<<i>> : i \in 1 .. DescPackets})
    /\ rcvToggle \in [Endpoints -> {0, 1}] /\ chip \in {0, 1}
    /\ keycode \subseteq 0 .. 7
    /\ present \in BOOLEAN /\ tog \in [Endpoints -> {0, 1}]
    /\ sent \in 0 .. DescPackets
    /\ held \in Reports /\ report \in Reports \cup {NoReport}
    /\ outbox \in {"off", "empty", "full"}
    /\ faults \in 0 .. MaxFaults

(* A descriptor that was read without an error is the device's, packet by  *)
(* packet: none is missing, none twice, although acknowledgements and the  *)
(* packets themselves get lost in the middle of the loop of                *)
(* XferInTransfer (transfer.c:199-226).                                    *)
DescriptorWhole ==
    pc = "status" /\ req = "desc" => data = [i \in 1 .. DescPackets |-> <<i>>]

(* The register never tells a character to go both ways, whatever the      *)
(* players hold down: what ball0.sv:123-143 and ball1.sv:130-150 do with   *)
(* two direction bits depends on the order of their statements             *)
(* (main.c:180-218).                                                       *)
OneDirection == ~({5, 7} \subseteq keycode) /\ ~({2, 4} \subseteq keycode)

Polling == present /\ req = "poll"

(* A report with the toggle the firmware waits for has not been read yet.  *)
Slot  == IF Polling /\ outbox = "full" /\ tog["int"] = rcvToggle["int"]
         THEN report ELSE NoReport
Turn  == IF Polling THEN rcvToggle["int"] ELSE 0
Taken == IF pc = "decode" THEN KeyByte(data[1]) ELSE keycode

Inbox == INSTANCE Mailbox WITH
           Letters <- Reports, NoLetter <- NoReport, Read <- KeyByte,
           open <- Polling, slot <- Slot, turn <- Turn, inbox <- Taken

(* Polling implements the mailbox: every report that the keyboard hands    *)
(* over reaches the game once and in order, none is dropped by a poll that *)
(* fails and none is taken twice when an acknowledgement was lost, and a   *)
(* keyboard that comes back starts afresh (transfer.c:198 and 215-224,     *)
(* HID.c:203-206).                                                         *)
PollsAsMailbox == Inbox!Spec

(* As long as the players hold the same keys and the keyboard stays        *)
(* plugged in, the register comes to show these keys and goes on doing so  *)
(* (main.c:163-227): no lost packet leaves a key stuck.                    *)
KeysArrive ==
    \A codes \in Reports :
        <>[](Polling /\ held = codes) => <>[](keycode = KeyByte(codes))
=============================================================================
