------------------------------- MODULE UsbBus -------------------------------
(***************************************************************************)
(* UsbDriver on a bus with one conforming host: control transfers with     *)
(* their SETUP, data and status stages, messages to OUT endpoint 1, polls  *)
(* of the interrupt-IN endpoints, aborted transfers and bus resets.  The   *)
(* host sends one packet at a time and the main loop of the device runs    *)
(* between any two of them.  The only packets that go unheard are those    *)
(* that arrive while flash_write_block() has interrupts off.               *)
(***************************************************************************)
EXTENDS UsbDriver

CONSTANTS
    Empty,      \* the packet of a status stage
    Tags,       \* two OUT messages; the host sends them in turn
    FirstTag,
    Disturb     \* what may interfere with control transfers, in one bus or another

\* A SET_ADDRESS has no data stage.
ASSUME BusAssumption ==
    /\ Empty \in Payload /\ PayloadSize[Empty] = 0
    /\ Tags \subseteq Payload /\ FirstTag \in Tags
    /\ \A d \in Tags : PayloadSize[d] > 0 /\ \E t \in Tags : t # d
    /\ \A r \in Request : Effect[r] = "address" => WLength[r] = 0
    /\ \A d \in Disturb : d \subseteq {"abort", "reset", "flash", "out"}

VARIABLES
    disturb,    \* what does interfere: fixed
    hostAddr,   \* the address the host uses
    ctl,        \* the control transfer: stage, request, bytes read, PID expected
    bus,        \* packet due: "free", or the rest of a transaction, or a bus reset
    outTag,     \* the OUT message the host sends next
    dueTag,     \* history: the OUT message the firmware has to be handed next
    deaf        \* flash_write_block() has interrupts off

hostVars == <<disturb, hostAddr, ctl, bus, outTag, dueTag, deaf>>
busVars == <<vars, hostVars>>

OtherTag(d) == CHOOSE t \in Tags : t # d

NoTransfer == [stage |-> "none", req |-> CHOOSE r \in Request : TRUE, bytes |-> 0,
               pid |-> "DATA1"]

BusInit ==
    /\ Init
    /\ disturb \in Disturb
    /\ hostAddr = 0 /\ ctl = NoTransfer /\ bus = "free"
    /\ outTag = FirstTag /\ dueTag = FirstTag /\ deaf = FALSE

DataDue == {"setup", "status", "out"}    \* the token was sent, its data packet was not

-----------------------------------------------------------------------------
(* How a packet reaches the device. *)

Unheard == deaf /\ UNCHANGED vars

Heard(A) == ~deaf /\ A

Token(pid, ep) ==
    \/ Heard(IF hostAddr = usbDeviceAddr THEN HandleSetupOrOut(pid, ep) ELSE IgnorePacket)
    \/ Unheard

Accepts == ~deaf /\ usbCurrentTok # NoToken /\ usbRxLen = 0    \* answers with ACK

DataPacket(d) == Heard(HandleData(d)) \/ Unheard

Sends(len) == ~deaf /\ hostAddr = usbDeviceAddr /\ CanSend(len)

InToken(ep) ==
    \/ Heard(IF hostAddr = usbDeviceAddr THEN HandleIn(ep) ELSE IgnorePacket)
    \/ Unheard

-----------------------------------------------------------------------------
(* Control transfers. *)

Stage(s) == ctl.stage = s
Keep == UNCHANGED <<disturb, hostAddr, outTag, dueTag, deaf>>

\* A new address is only given to a device that has none.
Start(r) ==
    /\ Stage("none")
    /\ Effect[r] = "address" => hostAddr = 0
    /\ ctl' = [stage |-> "setup", req |-> r, bytes |-> 0, pid |-> "DATA1"]
    /\ Keep /\ UNCHANGED <<vars, bus>>

SetupToken ==
    /\ bus = "free" /\ Stage("setup")
    /\ Token(USBPID_SETUP, 0)
    /\ bus' = "setup"
    /\ Keep /\ UNCHANGED ctl

\* Refused (NAK) or unanswered, a SETUP is sent again.
SetupData ==
    /\ bus = "setup"
    /\ DataPacket(ctl.req)
    /\ bus' = "free"
    /\ ctl' = IF Accepts THEN [ctl EXCEPT !.stage = IF WLength[ctl.req] > 0 THEN "in"
                                                    ELSE "statusIn"]
              ELSE ctl
    /\ Keep

\* The data stage of a control read ends with a short packet or with all that
\* was asked for.
ReadData ==
    LET size == usbTxLen - 4
        bytes == ctl.bytes + size
    IN
    /\ bus = "free" /\ Stage("in")
    /\ InToken(0)
    /\ IF Sends(usbTxLen)
       THEN /\ ctl' = [ctl EXCEPT !.bytes = bytes, !.pid = Toggle(@),
                                  !.stage = IF size < MaxPacket \/ bytes >= WLength[ctl.req]
                                            THEN "statusOut" ELSE @]
            /\ bus' = "ack"
       ELSE UNCHANGED <<ctl, bus>>
    /\ Keep

StatusOutToken ==
    /\ bus = "free" /\ Stage("statusOut")
    /\ Token(USBPID_OUT, 0)
    /\ bus' = "status"
    /\ Keep /\ UNCHANGED ctl

StatusOutData ==
    /\ bus = "status"
    /\ DataPacket(Empty)
    /\ bus' = "free"
    /\ ctl' = IF Accepts THEN NoTransfer ELSE ctl
    /\ Keep

\* The status stage of a transfer without data; a new address is used from here.
StatusIn ==
    /\ bus = "free" /\ Stage("statusIn")
    /\ InToken(0)
    /\ IF Sends(usbTxLen)
       THEN /\ ctl' = NoTransfer
            /\ bus' = "ack"
            /\ hostAddr' = IF Effect[ctl.req] = "address" THEN NewAddress[ctl.req]
                           ELSE hostAddr
       ELSE UNCHANGED <<ctl, bus, hostAddr>>
    /\ UNCHANGED <<disturb, outTag, dueTag, deaf>>

\* The host's ACK behind a data packet of the device.
HostAck ==
    /\ bus = "ack"
    /\ Heard(IgnorePacket) \/ Unheard
    /\ bus' = "free"
    /\ Keep /\ UNCHANGED ctl

\* The host gives up on a transfer.  A SET_ADDRESS it gave up on is followed by
\* a bus reset only.
Abort ==
    /\ "abort" \in disturb
    /\ bus = "free" /\ ~Stage("none") /\ Effect[ctl.req] # "address"
    /\ ctl' = NoTransfer
    /\ Keep /\ UNCHANGED <<vars, bus>>

Transfer ==
    \/ SetupToken \/ SetupData \/ ReadData
    \/ StatusOutToken \/ StatusOutData \/ StatusIn

-----------------------------------------------------------------------------
(* The other endpoints, used once the device has an address. *)

OutToken ==
    /\ "out" \in disturb
    /\ bus = "free" /\ hostAddr # 0 /\ OutEp # {}
    /\ \E ep \in OutEp : Token(USBPID_OUT, ep)
    /\ bus' = "out"
    /\ Keep /\ UNCHANGED ctl

OutMessage ==
    /\ bus = "out"
    /\ DataPacket(outTag)
    /\ bus' = "free"
    /\ outTag' = IF Accepts THEN OtherTag(outTag) ELSE outTag
    /\ UNCHANGED <<disturb, hostAddr, ctl, dueTag, deaf>>

PollInterrupt(ep) ==
    /\ bus = "free" /\ hostAddr # 0
    /\ InToken(ep)
    /\ bus' = IF Sends(usbTxStatus[Serving(ep)].len) THEN "ack" ELSE "free"
    /\ Keep /\ UNCHANGED ctl

-----------------------------------------------------------------------------
(* Bus resets.  The main loop polls the line once a pass, so it "handles" a   *)
(* reset many times; one lasts two passes at least: a SET_ADDRESS that was     *)
(* waiting when it began is processed before it ends.                          *)

InReset == {"reset", "again", "seen"}

Reset ==
    /\ "reset" \in disturb
    /\ bus = "free"
    /\ bus' = "reset" /\ hostAddr' = 0 /\ ctl' = NoTransfer
    /\ UNCHANGED <<vars, disturb, outTag, dueTag, deaf>>

ResetEnd ==
    /\ bus = "seen"
    /\ bus' = "free"
    /\ Keep /\ UNCHANGED <<vars, ctl>>

-----------------------------------------------------------------------------
(* The device. *)

\* An OUT message is handed to the firmware once.
TakeOut ==
    /\ ~deaf
    /\ ProcessOut
    /\ dueTag' = IF usbRxToken \in OutEp THEN OtherTag(dueTag) ELSE dueTag
    /\ UNCHANGED <<disturb, hostAddr, ctl, bus, outTag, deaf>>

FlashBegin ==
    /\ "flash" \in disturb
    /\ pc = "rx" /\ usbRxToken \in OutEp /\ ~deaf
    /\ deaf' = TRUE
    /\ UNCHANGED <<vars, disturb, hostAddr, ctl, bus, outTag, dueTag>>

\* A data packet follows its token after two bit times, less than the main loop
\* needs from sei() to usbRxLen = 0: interrupts coming back in that gap find
\* usbRxLen unchanged, and coming back behind the data packet is the same.
FlashEnd ==
    /\ deaf /\ deaf' = FALSE
    /\ bus \notin DataDue
    /\ UNCHANGED <<vars, disturb, hostAddr, ctl, bus, outTag, dueTag>>

Line ==
    \/ LineIdle /\ bus \notin InReset /\ UNCHANGED hostVars
    \/ LineReset /\ bus \in InReset /\ bus' = (IF bus = "reset" THEN "again" ELSE "seen")
       /\ UNCHANGED <<disturb, hostAddr, ctl, outTag, dueTag, deaf>>

Undisturbed ==
    \/ PollRx \/ ProcessSetup \/ SetupAbort
    \/ \E m \in Message : SetupDispatch(m)
    \/ SetupReply \/ FreeRx
    \/ PollTx \/ BuildTxBlock
    \/ \E e \in Interrupt : AppSkip(e) \/ \E m \in Message : AppCall(e, m)
    \/ SetInterrupt

DeviceStep == (Undisturbed /\ UNCHANGED hostVars) \/ TakeOut \/ FlashEnd \/ Line

BusNext ==
    \/ DeviceStep \/ FlashBegin
    \/ \E r \in Request : Start(r)
    \/ Transfer \/ HostAck \/ Abort
    \/ OutToken \/ OutMessage
    \/ \E ep \in InEp : PollInterrupt(ep)
    \/ Reset \/ ResetEnd

BusSpec == BusInit /\ [][BusNext]_busVars

\* The main loop runs; the host ends what it began, and serves the control pipe
\* in every frame, whatever else it does there.
FairBusSpec ==
    /\ BusSpec
    /\ WF_busVars(DeviceStep)
    /\ WF_busVars(HostAck) /\ WF_busVars(OutMessage)
    /\ SF_busVars(Transfer)

-----------------------------------------------------------------------------
\* The bytes of a control read reach the host in order, with the PIDs it expects,
\* and all of them: also after aborted transfers and during interrupt traffic.
ReadsAreExact ==
    /\ Stage("in") /\ CanSend(usbTxLen) =>
          /\ usbTxBuf.req = ctl.req
          /\ usbTxBuf.pos = ctl.bytes
          /\ usbTxBuf.pid = ctl.pid
    /\ Stage("statusOut") => ctl.bytes = Total(ctl.req)

\* The status stage of a transfer is answered for that transfer, with an empty
\* DATA1 packet, after the request was carried out.
StatusIsForThisTransfer ==
    Stage("statusIn") /\ CanSend(usbTxLen) =>
        /\ usbTxBuf.req = ctl.req /\ usbTxBuf.pid = "DATA1"
        /\ usbTxLen = 4
        /\ usbMsgPtr.req = ctl.req

\* Host and device agree on the address whenever the host may use it.
AddressAgreement == bus \notin InReset => hostAddr = usbDeviceAddr

\* The firmware is handed every OUT message the device acknowledged, once and in
\* the order sent, although packets go unheard while it programs the flash.
OutExactlyOnce ==
    /\ usbRxLen # 0 /\ usbRxToken \in OutEp /\ pc \notin {"free"} => Message0 = dueTag
    /\ usbRxLen = 0 => outTag = dueTag

\* Every control transfer the host starts comes to its end, whatever it polls on
\* the interrupt endpoints in between.
TransferCompletes == (disturb = {} /\ ~Stage("none")) ~> Stage("none")
=============================================================================
