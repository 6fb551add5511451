--------------------------- MODULE Transfer_proofs ---------------------------
(***************************************************************************)
(* Theorems about the encoding of the keys and about the transfers, for    *)
(* every length of a descriptor, all limits and any number of faults.      *)
(***************************************************************************)
EXTENDS Transfer, TLAPS

-----------------------------------------------------------------------------
(* The encoding.                                                           *)

(* code was pressed and no later code of the report is opp.                *)
Prevails(codes, n, code, opp) ==
    \E i \in 1 .. n : codes[i] = code /\ \A j \in i + 1 .. n : codes[j] # opp

(* What the register shows after n codes of each direction.                *)
Shows(codes, n, keycode_n) ==
    /\ keycode_n \subseteq 0 .. 7
    /\ 7 \in keycode_n <=> Prevails(codes, n, A, D)
    /\ 5 \in keycode_n <=> Prevails(codes, n, D, A)
    /\ 4 \in keycode_n <=> Prevails(codes, n, ZUO, YOU)
    /\ 2 \in keycode_n <=> Prevails(codes, n, YOU, ZUO)

LEMMA PressBits ==
    ASSUME NEW k, k \subseteq 0 .. 7, NEW c
    PROVE  /\ Press(k, c) \subseteq 0 .. 7
           /\ 7 \in Press(k, c) <=> c = A \/ (7 \in k /\ c # D)
           /\ 5 \in Press(k, c) <=> c = D \/ (5 \in k /\ c # A)
           /\ 4 \in Press(k, c) <=> c = ZUO \/ (4 \in k /\ c # YOU)
           /\ 2 \in Press(k, c) <=> c = YOU \/ (2 \in k /\ c # ZUO)
<1>1. CASE c \notin KeyCodes
  BY <1>1 DEF Press, KeyCodes, A, W, D, SPACE, ZUO, SHANG, YOU, POINT
<1>2. CASE c \in KeyCodes
  BY <1>2 DEF Press, KeyCodes, Bit, Opposite, A, W, D, SPACE, ZUO, SHANG, YOU, POINT
<1>3. QED  BY <1>1, <1>2

LEMMA PrevailsNext ==
    ASSUME NEW codes, NEW n \in Nat, NEW code, NEW opp, code # opp
    PROVE  Prevails(codes, n + 1, code, opp)
             <=> \/ codes[n + 1] = code
                 \/ Prevails(codes, n, code, opp) /\ codes[n + 1] # opp
  BY DEF Prevails

LEMMA ShowsNext ==
    ASSUME NEW codes, NEW n \in Nat, NEW k, Shows(codes, n, k)
    PROVE  Shows(codes, n + 1, Press(k, codes[n + 1]))
<1>1. A # D /\ D # A /\ ZUO # YOU /\ YOU # ZUO
  BY DEF A, D, ZUO, YOU
<1>2. k \subseteq 0 .. 7  BY DEF Shows
<1> DEFINE next == Press(k, codes[n + 1])
<1>3. /\ next \subseteq 0 .. 7
      /\ 7 \in next <=> codes[n + 1] = A \/ (7 \in k /\ codes[n + 1] # D)
      /\ 5 \in next <=> codes[n + 1] = D \/ (5 \in k /\ codes[n + 1] # A)
      /\ 4 \in next <=> codes[n + 1] = ZUO \/ (4 \in k /\ codes[n + 1] # YOU)
      /\ 2 \in next <=> codes[n + 1] = YOU \/ (2 \in k /\ codes[n + 1] # ZUO)
  BY <1>2, PressBits
<1> HIDE DEF next
<1>4. 7 \in next <=> Prevails(codes, n + 1, A, D)
  BY <1>1, <1>3, PrevailsNext DEF Shows
<1>5. 5 \in next <=> Prevails(codes, n + 1, D, A)
  BY <1>1, <1>3, PrevailsNext DEF Shows
<1>6. 4 \in next <=> Prevails(codes, n + 1, ZUO, YOU)
  BY <1>1, <1>3, PrevailsNext DEF Shows
<1>7. 2 \in next <=> Prevails(codes, n + 1, YOU, ZUO)
  BY <1>1, <1>3, PrevailsNext DEF Shows
<1>8. Shows(codes, n + 1, next)  BY <1>3, <1>4, <1>5, <1>6, <1>7 DEF Shows
<1>9. QED  BY <1>8 DEF next

(* The register decodes every report as the loop of main.c:175-227 means   *)
(* it: of two opposite directions the later code counts.                   *)
THEOREM LastCodeWins ==
    ASSUME NEW codes
    PROVE  Shows(codes, 6, KeyByte(codes))
<1> DEFINE k1 == Press({}, codes[1])   k2 == Press(k1, codes[2])
           k3 == Press(k2, codes[3])   k4 == Press(k3, codes[4])
           k5 == Press(k4, codes[5])   k6 == Press(k5, codes[6])
<1>0. Shows(codes, 0, {})  BY DEF Shows, Prevails
<1>a. 0 + 1 = 1 /\ 1 + 1 = 2 /\ 2 + 1 = 3 /\ 3 + 1 = 4 /\ 4 + 1 = 5 /\ 5 + 1 = 6
  OBVIOUS
<1>1. Shows(codes, 1, k1)  BY <1>0, <1>a, ShowsNext
<1>2. Shows(codes, 2, k2)  BY <1>1, <1>a, ShowsNext
<1>3. Shows(codes, 3, k3)  BY <1>2, <1>a, ShowsNext
<1>4. Shows(codes, 4, k4)  BY <1>3, <1>a, ShowsNext
<1>5. Shows(codes, 5, k5)  BY <1>4, <1>a, ShowsNext
<1>6. Shows(codes, 6, k6)  BY <1>5, <1>a, ShowsNext
<1>7. QED  BY <1>6 DEF KeyByte

LEMMA KeyByteOneDirection ==
    ASSUME NEW codes
    PROVE  /\ KeyByte(codes) \subseteq 0 .. 7
           /\ ~({5, 7} \subseteq KeyByte(codes)) /\ ~({2, 4} \subseteq KeyByte(codes))
<1>1. ASSUME NEW code, NEW opp, code # opp,
             Prevails(codes, 6, code, opp), Prevails(codes, 6, opp, code)
      PROVE  FALSE
  <2>1. PICK i \in 1 .. 6 : codes[i] = code /\ \A j \in i + 1 .. 6 : codes[j] # opp
    BY <1>1 DEF Prevails
  <2>2. PICK l \in 1 .. 6 : codes[l] = opp /\ \A j \in l + 1 .. 6 : codes[j] # code
    BY <1>1 DEF Prevails
  <2>3. i = l \/ i \in l + 1 .. 6 \/ l \in i + 1 .. 6  OBVIOUS
  <2>4. QED  BY <1>1, <2>1, <2>2, <2>3
<1>2. A # D /\ ZUO # YOU  BY DEF A, D, ZUO, YOU
<1>3. QED  BY <1>1, <1>2, LastCodeWins DEF Shows

-----------------------------------------------------------------------------
(* The invariant of the transfers.                                         *)

(* Which transfer is at which point.                                       *)
Program ==
    /\ pc = "setup" => req \in {"desc", "conf"}
    /\ pc = "in" => req \in {"desc", "poll"}
    /\ pc = "status" => req \in {"desc", "conf"}
    /\ pc = "decode" => req = "poll"
    /\ pc = "error" => req # "poll"
    /\ pc = "main" /\ present => req = "poll"

(* Reports only come from the keyboard: the one that waits, those that a   *)
(* poll has read.                                                          *)
Reported ==
    /\ outbox = "full" => report \in Reports
    /\ pc \in {"in", "decode"} /\ req = "poll" => data \in Seq(Reports)
    /\ pc = "decode" => data # <<>>

(* Both ends of the interrupt endpoint, if a poll takes one packet.  A     *)
(* report whose toggle is not the one the firmware waits for has been read *)
(* before.                                                                 *)
IntToggles ==
    /\ ~present \/ req = "desc" => outbox = "off"
    /\ req = "conf" /\ pc = "status" /\ present => outbox # "off"
    /\ req = "conf" => rcvToggle["int"] = 0
    /\ req \in {"desc", "conf"} \/ ~present => tog["int"] = 0
    /\ Polling => outbox # "off"
    /\ Polling /\ outbox = "empty" => tog["int"] = rcvToggle["int"]
    /\ pc = "in" /\ req = "poll" => chip = rcvToggle["int"] /\ data = <<>>

(* The packets of the descriptor, and how far the device is.               *)
DescData ==
    /\ pc = "setup" /\ req = "desc" => data = <<>>
    /\ pc = "in" /\ req = "desc" =>
          /\ \A i \in 1 .. Len(data) : data[i] = <<i>>
          /\ Len(data) < DescPackets
          /\ present => \/ sent = Len(data) /\ tog["ctl"] = chip
                        \/ sent + 1 = Len(data) /\ tog["ctl"] # chip

Base == TypeOK /\ OneDirection /\ Program /\ Reported /\ DescData /\ DescriptorWhole
IInv == Base /\ IntToggles

(* A poll takes one packet: the report is shorter than MaxPktSize, or nbytes
   is what one packet holds (XferInTransfer's two ways out of its loop).   *)
SingleReport == ReportShort \/ ReportWanted = 1

DataSet == Reports \cup {<<i>> : i \in 1 .. DescPackets}

(* The constants one by one, for the provers.                              *)
LEMMA Constants ==
    /\ DescPackets \in Nat \ {0} /\ USB_NAK_LIMIT \in Nat \ {0}
    /\ USB_RETRY_LIMIT \in Nat \ {0} /\ MaxFaults \in Nat
    /\ ReportWanted \in Nat \ {0} /\ DescWanted = DescPackets
  BY TransferAssumption

LEMMA ToggleType ==
    /\ [e \in Endpoints |-> 0] \in [Endpoints -> {0, 1}]
    /\ \A f \in [Endpoints -> {0, 1}], e \in Endpoints, t \in {0, 1} :
          /\ [f EXCEPT ![e] = t] \in [Endpoints -> {0, 1}]
          /\ f[e] \in {0, 1} /\ 1 - f[e] \in {0, 1}
    /\ Ep \in Endpoints
  BY DEF Ep, Endpoints

LEMMA InitInv == Init => IInv
<1> SUFFICES ASSUME Init PROVE IInv  OBVIOUS
<1> USE DEF Init
<1>1. TypeOK
  <2>1. data \in Seq(Reports \cup {<<i>> : i \in 1 .. DescPackets})  OBVIOUS
  <2>2. /\ rcvToggle \in [Endpoints -> {0, 1}] /\ tog \in [Endpoints -> {0, 1}]
    BY ToggleType
  <2>3. /\ sent \in 0 .. DescPackets /\ faults \in 0 .. MaxFaults
        /\ nak_count \in 0 .. USB_NAK_LIMIT - 1
        /\ retry_count \in 0 .. USB_RETRY_LIMIT - 1
    BY Constants
  <2>4. QED  BY <2>1, <2>2, <2>3 DEF TypeOK
<1>2. OneDirection /\ Program  BY DEF OneDirection, Program
<1>3. IntToggles /\ Reported  BY DEF IntToggles, Polling, Endpoints, Reported
<1>4. DescData /\ DescriptorWhole  BY DEF DescData, DescriptorWhole
<1>5. QED  BY <1>1, <1>2, <1>3, <1>4 DEF IInv, Base

(* What a result without data does to the device.                          *)
LEMMA ResultType ==
    ASSUME TypeOK, NEW hrsl, Result(hrsl)
    PROVE  /\ present' = present
           /\ tog' \in [Endpoints -> {0, 1}] /\ sent' \in 0 .. DescPackets
           /\ report' \in Reports \cup {NoReport}
           /\ outbox' \in {"off", "empty", "full"} /\ faults' \in 0 .. MaxFaults
<1> USE TransferAssumption DEF TypeOK
<1>1. CASE UNCHANGED devVars /\ faults' \in 0 .. MaxFaults
  BY <1>1 DEF devVars
<1>2. CASE pc = "in" /\ present /\ HasPacket /\ Acknowledged
  BY <1>2 DEF Acknowledged, HasPacket, Ep, Endpoints
<1>3. CASE SetupTaken /\ Fault
  BY <1>3 DEF SetupTaken, Fault, Endpoints
<1>4. Fault => faults' \in 0 .. MaxFaults
  BY DEF Fault
<1>5. QED
  BY <1>1, <1>2, <1>3, <1>4 DEF Result, ToDevice, AckLost

LEMMA TypeStep ==
    ASSUME Base, Next
    PROVE  TypeOK'
<1> USE TransferAssumption
<1>0. TypeOK  BY DEF Base
<1>1. CASE Retry
  <2>1. PICK hrsl \in Results :
           /\ Result(hrsl) /\ Again(hrsl)
           /\ nak_count' = nak_count + (IF hrsl = "NAK" THEN 1 ELSE 0)
           /\ retry_count' = retry_count + (IF hrsl = "TIMEOUT" THEN 1 ELSE 0)
    BY <1>1 DEF Retry
  <2>2. /\ nak_count' \in 0 .. USB_NAK_LIMIT - 1
        /\ retry_count' \in 0 .. USB_RETRY_LIMIT - 1
    BY <1>0, <2>1 DEF Again, TypeOK
  <2>3. QED  BY <1>0, <1>1, <2>1, <2>2, ResultType DEF Retry, TypeOK
<1>2. CASE Failed
  <2>1. PICK hrsl \in Results : Result(hrsl) /\ Dispatched(hrsl)
    BY <1>2 DEF Failed
  <2>2. QED  BY <1>0, <1>2, <2>1, ResultType DEF Failed, Dispatched, TypeOK
<1>3. CASE Setup
  <2>1. /\ tog' \in [Endpoints -> {0, 1}] /\ sent' \in 0 .. DescPackets
        /\ report' \in Reports \cup {NoReport}
        /\ outbox' \in {"off", "empty", "full"} /\ present' = present
        /\ rcvToggle' \in [Endpoints -> {0, 1}] /\ chip' \in {0, 1}
        /\ pc' \in {"in", "status"}
    BY <1>0, <1>3 DEF Setup, SetupTaken, TypeOK, Endpoints
  <2>2. QED  BY <1>0, <1>3, <2>1 DEF Setup, Dispatched, TypeOK
<1>4. CASE In
  <2>1. /\ tog' \in [Endpoints -> {0, 1}] /\ sent' \in 0 .. DescPackets
        /\ report' = report /\ outbox' \in {"off", "empty", "full"}
        /\ present' = present /\ faults' \in 0 .. MaxFaults
    <3>1. CASE AckLost
      BY <1>0, <3>1 DEF AckLost, Fault, devVars, TypeOK
    <3>2. CASE Acknowledged
      <4>1. tog' \in [Endpoints -> {0, 1}]
        BY <1>0, <3>2, ToggleType DEF Acknowledged, TypeOK
      <4>2. sent' \in 0 .. DescPackets
        BY <1>0, <1>4, <3>2 DEF In, Acknowledged, HasPacket, Ep, TypeOK
      <4>3. QED  BY <1>0, <3>2, <4>1, <4>2 DEF Acknowledged, TypeOK
    <3>3. QED  BY <1>4, <3>1, <3>2 DEF In, ToDevice
  <2>2. chip' \in {0, 1} /\ rcvToggle' \in [Endpoints -> {0, 1}]
    <3>1. chip' \in {0, 1} /\ 1 - chip \in {0, 1}
      BY <1>0, <1>4 DEF In, TypeOK
    <3>2. QED  BY <1>0, <1>4, <3>1, ToggleType DEF In, TypeOK
  <2>3. Packet \in DataSet
    BY <1>0, <1>4 DEF In, HasPacket, Packet, Ep, TypeOK, DataSet, Base, Reported
  <2>4. data' \in Seq(DataSet)
    BY <1>0, <1>4, <2>3 DEF In, TypeOK, DataSet
  <2>5. pc' \in {"in", "decode", "status"}
    BY <1>4 DEF In, AfterIn
  <2>6. QED  BY <1>0, <1>4, <2>1, <2>2, <2>4, <2>5 DEF In, Dispatched, TypeOK, DataSet
<1>5. CASE Status
  BY <1>0, <1>5 DEF Status, Dispatched, devVars, TypeOK
<1>6. CASE Poll
  BY <1>0, <1>6 DEF Poll, devVars, TypeOK, Endpoints
<1>7. CASE SetKeycode
  BY <1>0, <1>7, KeyByteOneDirection DEF SetKeycode, devVars, TypeOK
<1>8. CASE Attach
  BY <1>0, <1>8 DEF Attach, TypeOK
<1>9. CASE Report
  BY <1>0, <1>9 DEF Report, hostVars, TypeOK
<1>10. CASE ChangeKeys
  BY <1>0, <1>10 DEF ChangeKeys, hostVars, devVars, TypeOK
<1>11. CASE Pull
  <2>1. tog' \in [Endpoints -> {0, 1}]  BY <1>11, ToggleType DEF Pull
  <2>2. sent' \in 0 .. DescPackets /\ faults' \in 0 .. MaxFaults
    BY <1>0, <1>11, Constants DEF Pull, Fault, TypeOK
  <2>3. QED  BY <1>0, <1>11, <2>1, <2>2 DEF Pull, hostVars, TypeOK
<1>12. QED
  BY <1>1, <1>2, <1>3, <1>4, <1>5, <1>6, <1>7, <1>8, <1>9, <1>10, <1>11
     DEF Next, Firmware

LEMMA ProgramStep ==
    ASSUME Base, Next
    PROVE  Program'
<1> USE DEF Base, Program
<1>1. CASE Retry
  BY <1>1, ResultType DEF Retry
<1>2. CASE Failed
  BY <1>2, ResultType DEF Failed, Dispatching
<1>3. CASE Setup  BY <1>3 DEF Setup, SetupTaken
<1>4. CASE In  BY <1>4 DEF In, AfterIn
<1>5. CASE Status  BY <1>5 DEF Status, devVars
<1>6. CASE Poll  BY <1>6 DEF Poll, devVars
<1>7. CASE SetKeycode  BY <1>7 DEF SetKeycode, devVars
<1>8. CASE Attach  BY <1>8 DEF Attach
<1>9. CASE Report  BY <1>9 DEF Report, hostVars
<1>10. CASE ChangeKeys  BY <1>10 DEF ChangeKeys, hostVars, devVars
<1>11. CASE Pull  BY <1>11 DEF Pull, hostVars
<1>12. QED
  BY <1>1, <1>2, <1>3, <1>4, <1>5, <1>6, <1>7, <1>8, <1>9, <1>10, <1>11
     DEF Next, Firmware

LEMMA OneDirectionStep ==
    ASSUME Base, Next
    PROVE  OneDirection'
<1>1. CASE SetKeycode
  BY <1>1, KeyByteOneDirection DEF SetKeycode, OneDirection
<1>2. CASE ~SetKeycode
  <2>1. keycode' = keycode
    BY <1>2 DEF Next, Firmware, Retry, Failed, Setup, In, Status, Poll, Attach,
                Report, ChangeKeys, Pull, hostVars
  <2>2. QED  BY <2>1 DEF OneDirection, Base
<1>3. QED  BY <1>1, <1>2

(* A result without data moves the interrupt endpoint only if it drops a   *)
(* packet that was read before, or starts the device afresh.               *)
LEMMA ResultInt ==
    ASSUME Base, NEW hrsl, Result(hrsl)
    PROVE  \/ UNCHANGED <<report, outbox>> /\ tog'["int"] = tog["int"]
           \/ /\ pc = "in" /\ req = "poll" /\ present
              /\ outbox = "full" /\ outbox' = "empty" /\ report' = report
              /\ tog["int"] # chip /\ tog'["int"] = 1 - tog["int"]
           \/ /\ pc = "setup" /\ req = "conf" /\ present
              /\ outbox' = "empty" /\ tog'["int"] = 0
<1>0. TypeOK /\ Program  BY DEF Base
<1>1. CASE UNCHANGED devVars  BY <1>1 DEF devVars
<1>2. CASE pc = "in" /\ present /\ HasPacket /\ tog[Ep] # chip /\ Acknowledged
  <2>1. CASE req = "poll"
    BY <1>0, <1>2, <2>1 DEF Acknowledged, HasPacket, Ep, TypeOK, Endpoints
  <2>2. CASE req # "poll"
    BY <1>0, <1>2, <2>2 DEF Acknowledged, Ep, TypeOK, Endpoints
  <2>3. QED  BY <2>1, <2>2
<1>3. CASE pc = "setup" /\ SetupTaken
  BY <1>0, <1>3 DEF SetupTaken, TypeOK, Endpoints
<1>4. QED  BY <1>1, <1>2, <1>3 DEF Result, ToDevice, AckLost

(* Whatever the keyboard sends and however many packets a poll reads.      *)
LEMMA ReportedStep ==
    ASSUME Base, Next
    PROVE  Reported'
<1>0. TypeOK /\ Program /\ Reported  BY DEF Base
<1> USE DEF Reported
<1>1. CASE Retry \/ Failed
  <2>1. PICK hrsl \in Results : Result(hrsl)  BY <1>1 DEF Retry, Failed
  <2>2. UNCHANGED <<req, data>> /\ pc' \in {pc, "main", "error"}
    BY <1>1 DEF Retry, Failed
  <2>3. UNCHANGED <<report, outbox>> \/ outbox' = "empty"
    BY <2>1, ResultInt
  <2>4. QED  BY <1>0, <2>2, <2>3
<1>2. CASE Setup
  BY <1>0, <1>2 DEF Setup, SetupTaken
<1>3. CASE In
  <2>1. UNCHANGED <<report, req>> /\ outbox' \in {outbox, "empty"}
    BY <1>3 DEF In, ToDevice, AckLost, Acknowledged, devVars
  <2>2. CASE req = "poll"
    <3>1. data \in Seq(Reports) /\ Packet \in Reports /\ data' = Append(data, Packet)
      BY <1>0, <1>3, <2>2 DEF In, HasPacket, Packet, Ep
    <3>2. data' \in Seq(Reports) /\ data' # <<>>  BY <3>1
    <3>3. QED  BY <1>0, <2>1, <3>2
  <2>3. CASE req # "poll"
    BY <1>0, <1>3, <2>1, <2>3 DEF In, AfterIn
  <2>4. QED  BY <2>2, <2>3
<1>4. CASE Status  BY <1>0, <1>4 DEF Status, devVars
<1>5. CASE Poll  BY <1>0, <1>5 DEF Poll, devVars
<1>6. CASE SetKeycode  BY <1>0, <1>6 DEF SetKeycode, devVars
<1>7. CASE Attach  BY <1>0, <1>7 DEF Attach
<1>8. CASE Report  BY <1>0, <1>8 DEF Report, hostVars, TypeOK
<1>9. CASE ChangeKeys  BY <1>0, <1>9 DEF ChangeKeys, hostVars, devVars
<1>10. CASE Pull  BY <1>0, <1>10 DEF Pull, hostVars
<1>11. QED
  BY <1>1, <1>2, <1>3, <1>4, <1>5, <1>6, <1>7, <1>8, <1>9, <1>10
     DEF Next, Firmware

LEMMA IntTogglesStep ==
    ASSUME SingleReport, IInv, Next
    PROVE  IntToggles'
<1>b. Base  BY DEF IInv
<1>0. TypeOK /\ Program /\ Reported /\ IntToggles  BY DEF IInv, Base
<1>1. CASE Retry \/ Failed
  <2>1. PICK hrsl \in Results : Result(hrsl)  BY <1>1 DEF Retry, Failed
  <2>2. /\ UNCHANGED <<req, data, rcvToggle, chip>>
        /\ present' = present /\ pc' \in {pc, "main", "error"}
    BY <1>1, <1>0, <2>1, ResultType DEF Retry, Failed
  <2>3. rcvToggle["int"] \in {0, 1} /\ tog["int"] \in {0, 1} /\ chip \in {0, 1}
    BY <1>0 DEF TypeOK, Endpoints
  <2>4. CASE UNCHANGED <<report, outbox>> /\ tog'["int"] = tog["int"]
    BY <1>0, <2>2, <2>4 DEF IntToggles, Program, Polling
  <2>5. CASE /\ pc = "in" /\ req = "poll" /\ present
             /\ outbox = "full" /\ outbox' = "empty" /\ report' = report
             /\ tog["int"] # chip /\ tog'["int"] = 1 - tog["int"]
    BY <1>0, <2>2, <2>3, <2>5 DEF IntToggles, Program, Polling
  <2>6. CASE /\ pc = "setup" /\ req = "conf" /\ present
             /\ outbox' = "empty" /\ tog'["int"] = 0
    BY <1>0, <2>2, <2>3, <2>6 DEF IntToggles, Program, Polling
  <2>7. QED  BY <1>b, <2>1, <2>4, <2>5, <2>6, ResultInt
<1>3. CASE Setup
  <2>1. CASE req = "desc"
    BY <1>0, <1>3, <2>1 DEF Setup, SetupTaken, IntToggles, Polling, TypeOK, Endpoints
  <2>2. CASE req = "conf"
    BY <1>0, <1>3, <2>2 DEF Setup, SetupTaken, IntToggles, Polling, TypeOK, Endpoints
  <2>3. QED  BY <1>3, <2>1, <2>2 DEF Setup
<1>4. CASE In
  <2>0. rcvToggle["int"] \in {0, 1} /\ tog["int"] \in {0, 1} /\ chip \in {0, 1}
    BY <1>0 DEF TypeOK, Endpoints
  <2>1. CASE req = "poll"
    <3>1. Complete /\ pc' = "decode" /\ data' = <<report>> /\ report \in Reports
      BY <1>0, <1>4, <2>1 DEF In, Complete, Short, Wanted, Ep, SingleReport, AfterIn,
             IntToggles, Reported, HasPacket, Packet
    <3>2. rcvToggle'["int"] = 1 - chip
      BY <1>0, <1>4, <2>1, <3>1 DEF In, Ep, TypeOK, Endpoints
    <3>3. tog["int"] = chip /\ outbox = "full"
      BY <1>4, <2>1 DEF In, Ep, HasPacket
    <3>4. \/ outbox' = "empty" /\ tog'["int"] = 1 - chip
          \/ outbox' = "full" /\ tog'["int"] = chip
      BY <1>0, <1>4, <2>1, <3>3
         DEF In, ToDevice, AckLost, Acknowledged, devVars, Ep, TypeOK, Endpoints
    <3>5. report' = report /\ present' = present /\ req' = req /\ present
      BY <1>4 DEF In, ToDevice, AckLost, Acknowledged, devVars
    <3>6. QED
      BY <2>1, <3>1, <3>2, <3>4, <3>5, <2>0 DEF IntToggles, Polling
  <2>2. CASE req # "poll"
    <3>1. /\ rcvToggle'["int"] = rcvToggle["int"] /\ tog'["int"] = tog["int"]
          /\ UNCHANGED <<outbox, report, present, req>>
      BY <1>0, <1>4, <2>2
         DEF In, ToDevice, AckLost, Acknowledged, devVars, Ep, TypeOK, Endpoints
    <3>2. req = "desc" /\ pc' \in {"in", "status"}
      BY <1>0, <1>4, <2>2 DEF In, Program, AfterIn
    <3>3. QED  BY <1>0, <3>1, <3>2 DEF IntToggles, Polling
  <2>3. QED  BY <2>1, <2>2
<1>5. CASE Status
  BY <1>0, <1>5 DEF Status, devVars, IntToggles, Program, Polling, TypeOK, Endpoints
<1>6. CASE Poll
  BY <1>0, <1>6 DEF Poll, devVars, IntToggles, Polling
<1>7. CASE SetKeycode
  BY <1>0, <1>7 DEF SetKeycode, devVars, IntToggles, Polling
<1>8. CASE Attach
  BY <1>0, <1>8 DEF Attach, IntToggles, Polling, Program
<1>9. CASE Report
  BY <1>0, <1>9 DEF Report, hostVars, IntToggles, Polling, TypeOK
<1>10. CASE ChangeKeys
  BY <1>0, <1>10 DEF ChangeKeys, hostVars, devVars, IntToggles, Polling
<1>11. CASE Pull
  BY <1>0, <1>11 DEF Pull, hostVars, IntToggles, Polling, Endpoints, Program
<1>12. QED
  BY <1>1, <1>3, <1>4, <1>5, <1>6, <1>7, <1>8, <1>9, <1>10, <1>11
     DEF Next, Firmware

(* The same of the control endpoint, in the data stage.                    *)
LEMMA ResultCtl ==
    ASSUME NEW hrsl, Result(hrsl), Again(hrsl), pc = "in", req = "desc"
    PROVE  tog'["ctl"] = tog["ctl"] /\ sent' = sent /\ present' = present
<1>1. hrsl # "TOGERR"  BY DEF Again
<1>2. QED  BY <1>1 DEF Result, devVars

LEMMA DescDataStep ==
    ASSUME Base, Next
    PROVE  DescData' /\ DescriptorWhole'
<1>0. TypeOK /\ Program /\ DescData /\ DescriptorWhole  BY DEF Base
<1> USE DEF DescData, DescriptorWhole
<1>1. CASE Retry
  <2>1. UNCHANGED <<pc, req, data, chip>>  BY <1>1 DEF Retry
  <2>2. CASE pc = "in" /\ req = "desc"
    <3>1. PICK hrsl \in Results : Result(hrsl) /\ Again(hrsl)  BY <1>1 DEF Retry
    <3>2. tog'["ctl"] = tog["ctl"] /\ sent' = sent /\ present' = present
      BY <2>2, <3>1, ResultCtl
    <3>3. QED  BY <1>0, <2>1, <3>2
  <2>3. QED  BY <1>0, <2>1, <2>2
<1>2. CASE Failed
  BY <1>0, <1>2 DEF Failed, Program
<1>3. CASE Setup
  <2>1. CASE req = "desc"
    <3>1. sent' = 0 /\ tog'["ctl"] = 1 /\ chip' = 1 /\ data' = data /\ pc' = "in" /\ req' = req
      BY <1>0, <1>3, <2>1 DEF Setup, SetupTaken, TypeOK, Endpoints
    <3>2. data = <<>>  BY <1>0, <1>3, <2>1 DEF Setup
    <3>3. Len(data') = 0 /\ 0 < DescPackets  BY <3>1, <3>2, Constants
    <3>4. QED  BY <2>1, <3>1, <3>3
  <2>2. CASE req = "conf"
    BY <1>3, <2>2 DEF Setup
  <2>3. QED  BY <1>3, <2>1, <2>2 DEF Setup
<1>4. CASE In
  <2>1. CASE req = "poll"
    BY <1>4, <2>1 DEF In, Complete, AfterIn
  <2>2. CASE req = "desc"
    <3>1. /\ Packet = <<sent + 1>> /\ data' = Append(data, <<sent + 1>>)
          /\ sent = Len(data) /\ tog["ctl"] = chip /\ req' = req /\ present
      <4>1. Packet = <<sent + 1>> /\ tog["ctl"] = chip /\ present /\ req' = req
        BY <1>4, <2>2 DEF In, Packet, Ep
      <4>2. data' = Append(data, <<sent + 1>>)  BY <1>4, <4>1 DEF In
      <4>3. sent = Len(data)  BY <1>0, <1>4, <2>2, <4>1 DEF In
      <4>4. QED  BY <4>1, <4>2, <4>3
    <3>a. Len(data) \in Nat /\ data \in Seq(DataSet)
      BY <1>0 DEF TypeOK, DataSet
    <3>b. Len(data') = Len(data) + 1
      BY <3>1, <3>a DEF DataSet
    <3>c. \A i \in 1 .. Len(data') : data'[i] = <<i>>
      <4>1. ASSUME NEW i \in 1 .. Len(data) PROVE data'[i] = <<i>>
        BY <1>0, <1>4, <2>2, <3>1, <3>a, <4>1 DEF In
      <4>2. data'[Len(data) + 1] = <<Len(data) + 1>>  BY <3>1, <3>a
      <4>3. QED  BY <3>a, <3>b, <4>1, <4>2
    <3>2. Complete <=> Len(data) + 1 >= DescPackets
      BY <2>2, Constants DEF Complete, Short, Wanted, Ep
    <3>3. CASE Complete
      <4>1. pc' = "status"  BY <1>4, <2>2, <3>3 DEF In, AfterIn
      <4>2. Len(data') = DescPackets
        BY <1>0, <1>4, <2>2, <3>2, <3>3, <3>a, <3>b, Constants DEF In
      <4>3. data' = [i \in 1 .. DescPackets |-> <<i>>]
        <5>1. data' \in Seq(DataSet)
          <6>1. <<sent + 1>> \in DataSet
            BY <1>0, <1>4, <2>2, <3>1, <3>a, Constants DEF In, DataSet
          <6>2. QED  BY <3>1, <3>a, <6>1
        <5>2. data' = [i \in 1 .. Len(data') |-> data'[i]]  BY <5>1
        <5>3. QED  BY <3>c, <4>2, <5>2
      <4>4. QED  BY <4>1, <4>3
    <3>4. CASE ~Complete
      <4>1. pc' = "in" /\ chip' = 1 - chip  BY <1>4, <3>4 DEF In
      <4>2. Len(data') < DescPackets  BY <3>2, <3>4, <3>a, <3>b, Constants
      <4>3. \/ sent' = sent + 1 /\ tog'["ctl"] = 1 - tog["ctl"]
            \/ sent' = sent /\ tog'["ctl"] = tog["ctl"]
        BY <1>0, <1>4, <2>2
           DEF In, ToDevice, AckLost, Acknowledged, devVars, Ep, TypeOK, Endpoints
      <4>4. chip \in {0, 1}  BY <1>0 DEF TypeOK
      <4>5. \/ sent' = Len(data') /\ tog'["ctl"] = chip'
            \/ sent' + 1 = Len(data') /\ tog'["ctl"] # chip'
        BY <3>1, <3>a, <3>b, <4>1, <4>3, <4>4
      <4>6. QED  BY <3>1, <3>c, <4>1, <4>2, <4>5
    <3>5. QED  BY <3>3, <3>4
  <2>3. QED  BY <1>0, <1>4, <2>1, <2>2 DEF In, Program
<1>5. CASE Status  BY <1>5 DEF Status
<1>6. CASE Poll  BY <1>6 DEF Poll
<1>7. CASE SetKeycode  BY <1>7 DEF SetKeycode
<1>8. CASE Attach  BY <1>8 DEF Attach
<1>9. CASE Report  BY <1>0, <1>9 DEF Report, hostVars
<1>10. CASE ChangeKeys  BY <1>0, <1>10 DEF ChangeKeys, hostVars, devVars
<1>11. CASE Pull  BY <1>0, <1>11 DEF Pull, hostVars
<1>12. QED
  BY <1>1, <1>2, <1>3, <1>4, <1>5, <1>6, <1>7, <1>8, <1>9, <1>10, <1>11
     DEF Next, Firmware

LEMMA BaseStep == Base /\ [Next]_vars => Base'
<1> SUFFICES ASSUME Base, [Next]_vars PROVE Base'  OBVIOUS
<1>1. CASE Next
  BY <1>1, TypeStep, OneDirectionStep, ProgramStep, ReportedStep, DescDataStep DEF Base
<1>2. CASE UNCHANGED vars
  <2>1. UNCHANGED <<pc, req, nak_count, retry_count, rcode, data, rcvToggle, keycode,
                    chip, present, tog, sent, report, outbox, held, faults>>
    BY <1>2 DEF vars, hostVars, devVars
  <2>2. TypeOK' /\ OneDirection' /\ Program'
    BY <2>1 DEF Base, TypeOK, OneDirection, Program
  <2>3. Reported' /\ DescData' /\ DescriptorWhole'
    BY <2>1 DEF Base, Reported, DescData, DescriptorWhole
  <2>4. QED  BY <2>2, <2>3 DEF Base
<1>3. QED  BY <1>1, <1>2

LEMMA InvStep ==
    ASSUME SingleReport
    PROVE  IInv /\ [Next]_vars => IInv'
<1> SUFFICES ASSUME IInv, [Next]_vars PROVE IInv'  OBVIOUS
<1>1. Base'  BY BaseStep DEF IInv
<1>2. CASE Next  BY <1>1, <1>2, IntTogglesStep DEF IInv
<1>3. CASE UNCHANGED vars
  <2>1. UNCHANGED <<pc, req, data, rcvToggle, chip, present, tog, outbox>>
    BY <1>3 DEF vars, hostVars, devVars
  <2>2. QED  BY <1>1, <2>1 DEF IInv, IntToggles, Polling
<1>4. QED  BY <1>2, <1>3

(* The control endpoint and the program counter of XferInTransfer agree in *)
(* every reachable state, for every budget of NAKs and retries and however *)
(* many packets a report takes.                                            *)
THEOREM BaseInductive == Spec => []Base
<1>1. Init => Base  BY InitInv DEF IInv
<1>2. QED  BY <1>1, BaseStep, PTL DEF Spec

(* So do the two ends of the interrupt endpoint, if a poll takes one       *)
(* packet.                                                                 *)
THEOREM Inductive == ASSUME SingleReport PROVE Spec => []IInv
<1>1. IInv /\ [Next]_vars => IInv'  BY InvStep
<1>2. QED  BY InitInv, <1>1, PTL DEF Spec

(* The types of registers, counters and buffers.                           *)
THEOREM TypeCorrect == Spec => []TypeOK
<1>1. Base => TypeOK  BY DEF Base
<1>2. QED  BY BaseInductive, <1>1, PTL

(* A control transfer that succeeds has read the whole descriptor.         *)
THEOREM WholeDescriptor == Spec => []DescriptorWhole
<1>1. Base => DescriptorWhole  BY DEF Base
<1>2. QED  BY BaseInductive, <1>1, PTL

(* No report sends a character both ways.                                  *)
THEOREM NeverBothWays == Spec => []OneDirection
<1>1. Base => OneDirection  BY DEF Base
<1>2. QED  BY BaseInductive, <1>1, PTL

-----------------------------------------------------------------------------
(* Refinement of the mailbox.                                              *)

InboxVars == <<Polling, Slot, Turn, Taken>>

LEMMA InboxInit == Init => Inbox!Init
  BY DEF Init, Inbox!Init, Polling, Slot, Turn, Taken

(* Whatever leaves the connection and the interrupt endpoint alone is not  *)
(* seen by the mailbox.                                                    *)
LEMMA InboxSame ==
    ASSUME UNCHANGED <<present, req, report, outbox, keycode>>,
           pc # "decode", pc' # "decode",
           tog'["int"] = tog["int"], rcvToggle'["int"] = rcvToggle["int"]
    PROVE  UNCHANGED InboxVars
  BY DEF InboxVars, Polling, Slot, Turn, Taken

(* Nor is anything that happens while the connection is closed and stays   *)
(* closed.                                                                 *)
LEMMA InboxClosed ==
    ASSUME ~Polling, ~Polling', UNCHANGED keycode, pc # "decode", pc' # "decode"
    PROVE  UNCHANGED InboxVars
  BY DEF InboxVars, Polling, Slot, Turn, Taken

LEMMA InboxStep ==
    ASSUME SingleReport, IInv, IInv', Next
    PROVE  Inbox!Next \/ UNCHANGED InboxVars
<1>b. Base  BY DEF IInv
<1>0. /\ TypeOK /\ Program /\ Reported /\ IntToggles
      /\ Program' /\ Reported' /\ IntToggles'
  BY DEF IInv, Base
<1>t. rcvToggle["int"] \in {0, 1} /\ tog["int"] \in {0, 1} /\ chip \in {0, 1}
  BY <1>0 DEF TypeOK, Endpoints
<1>1. CASE Retry \/ Failed
  <2>1. PICK hrsl \in Results : Result(hrsl)  BY <1>1 DEF Retry, Failed
  <2>2. /\ UNCHANGED <<req, data, rcvToggle, chip, keycode>>
        /\ present' = present /\ pc' # "decode" /\ pc # "decode"
    BY <1>1, <1>0, <2>1, ResultType DEF Retry, Failed, Dispatching
  <2>4. CASE UNCHANGED <<report, outbox>> /\ tog'["int"] = tog["int"]
    BY <2>2, <2>4, InboxSame
  <2>5. CASE /\ pc = "in" /\ req = "poll" /\ present
             /\ outbox = "full" /\ outbox' = "empty" /\ report' = report
             /\ tog["int"] # chip /\ tog'["int"] = 1 - tog["int"]
    <3>1. Slot = NoReport /\ Slot' = NoReport
      BY <1>0, <2>2, <2>5 DEF Slot, IntToggles
    <3>2. QED  BY <2>2, <3>1 DEF InboxVars, Polling, Turn, Taken
  <2>6. CASE pc = "setup" /\ req = "conf" /\ present
    BY <2>2, <2>6, InboxClosed DEF Polling
  <2>7. QED  BY <1>b, <2>1, <2>4, <2>5, <2>6, ResultInt
<1>2. CASE Setup
  BY <1>0, <1>2, InboxClosed DEF Setup, Program, Polling
<1>3. CASE In
  <2>1. CASE req = "poll"
    <3>1. Complete /\ pc' = "decode" /\ data' = <<report>> /\ report \in Reports
      BY <1>0, <1>3, <2>1 DEF In, Complete, Short, Wanted, Ep, SingleReport, AfterIn,
             IntToggles, Reported, HasPacket, Packet
    <3>2. rcvToggle'["int"] = 1 - chip
      BY <1>0, <1>3, <2>1, <3>1 DEF In, Ep, TypeOK, Endpoints
    <3>3. tog["int"] = chip /\ outbox = "full" /\ chip = rcvToggle["int"]
      BY <1>0, <1>3, <2>1 DEF In, Ep, HasPacket, IntToggles
    <3>4. \/ outbox' = "empty"
          \/ tog'["int"] = chip
      BY <1>0, <1>3, <2>1, <3>3
         DEF In, ToDevice, AckLost, Acknowledged, devVars, Ep
    <3>5. report' = report /\ present' = present /\ req' = req /\ present
      BY <1>3 DEF In, ToDevice, AckLost, Acknowledged, devVars
    <3>6. Polling /\ Polling'  BY <2>1, <3>5 DEF Polling
    <3>7. Slot = report /\ Slot # NoReport
      BY <3>1, <3>3, <3>6, TransferAssumption DEF Slot
    <3>8. Slot' = NoReport  BY <1>t, <3>2, <3>4 DEF Slot
    <3>9. Turn' = 1 - Turn  BY <3>2, <3>3, <3>6 DEF Turn
    <3>10. Taken' = KeyByte(Slot)  BY <3>1, <3>7 DEF Taken
    <3>11. QED  BY <3>6, <3>7, <3>8, <3>9, <3>10 DEF Inbox!Next, Inbox!Take
  <2>2. CASE req = "desc"
    <3>1. pc' # "decode" /\ req' = req /\ keycode' = keycode /\ pc # "decode"
      BY <1>3, <2>2 DEF In, AfterIn
    <3>2. QED  BY <2>2, <3>1, InboxClosed DEF Polling
  <2>3. QED  BY <1>0, <1>3, <2>1, <2>2 DEF In, Program
<1>4. CASE Status
  <2>1. CASE req = "desc"
    BY <1>4, <2>1, InboxClosed DEF Status, Polling
  <2>2. CASE req = "conf"
    <3>1. ~Polling /\ Polling' /\ Taken' = Taken
      BY <1>4, <2>2 DEF Status, Polling, Taken, devVars
    <3>2. Slot = NoReport /\ Turn = 0  BY <3>1 DEF Slot, Turn
    <3>3. Turn' = 0
      BY <1>0, <1>4, <2>2 DEF Status, Turn, IntToggles
    <3>4. Slot' \in Reports \cup {NoReport}
      BY <1>0 DEF Slot, Reported
    <3>5. QED  BY <3>1, <3>2, <3>3, <3>4 DEF Inbox!Next, Inbox!Connect
  <2>3. QED  BY <1>4, <2>1, <2>2 DEF Status
<1>5. CASE Poll
  BY <1>5, InboxSame DEF Poll, devVars
<1>6. CASE SetKeycode
  BY <1>6 DEF SetKeycode, devVars, InboxVars, Polling, Slot, Turn, Taken
<1>7. CASE Attach
  BY <1>7, InboxClosed DEF Attach, Polling
<1>8. CASE Report
  <2>1. Taken' = Taken /\ Polling' = Polling /\ Turn' = Turn
    BY <1>8 DEF Report, hostVars, Taken, Polling, Turn
  <2>2. CASE Polling
    <3>1. Slot = NoReport /\ Slot' \in Reports
      BY <1>0, <1>8, <2>2 DEF Report, hostVars, Slot, Polling, IntToggles, TypeOK
    <3>2. QED  BY <2>1, <2>2, <3>1 DEF Inbox!Next, Inbox!Post
  <2>3. CASE ~Polling
    BY <2>1, <2>3 DEF InboxVars, Slot
  <2>4. QED  BY <2>2, <2>3
<1>9. CASE ChangeKeys
  BY <1>9 DEF ChangeKeys, hostVars, devVars, InboxVars, Polling, Slot, Turn, Taken
<1>10. CASE Pull
  <2>1. Taken' = Taken /\ ~Polling' /\ Slot' = NoReport /\ Turn' = 0
    BY <1>10 DEF Pull, hostVars, Polling, Slot, Turn, Taken
  <2>2. CASE Polling
    BY <2>1, <2>2 DEF Inbox!Next, Inbox!Disconnect
  <2>3. CASE ~Polling
    BY <2>1, <2>3 DEF InboxVars, Polling, Slot, Turn
  <2>4. QED  BY <2>2, <2>3
<1>11. QED
  BY <1>1, <1>2, <1>3, <1>4, <1>5, <1>6, <1>7, <1>8, <1>9, <1>10
     DEF Next, Firmware

LEMMA InboxUnchanged == UNCHANGED vars => UNCHANGED InboxVars
  BY DEF vars, hostVars, devVars, InboxVars, Polling, Slot, Turn, Taken

(* The protocol of polls, toggles and acknowledgements implements the      *)
(* mailbox: each report exactly once, however many packets are lost.       *)
THEOREM ImplementsMailbox == ASSUME SingleReport PROVE Spec => PollsAsMailbox
<1>1. IInv /\ IInv' /\ [Next]_vars => [Inbox!Next]_(Inbox!vars)
  BY InboxStep, InboxUnchanged DEF InboxVars, Inbox!vars
<1>2. QED
  BY Inductive, InboxInit, <1>1, PTL DEF Spec, PollsAsMailbox, Inbox!Spec
=============================================================================
