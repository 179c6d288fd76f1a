----------------------------- MODULE UsbDriver -----------------------------
(***************************************************************************)
(* The software USB driver of the LDDK firmware: the interrupt routine     *)
(* (asmcommon.inc, usbdrvasm16.inc), which answers every packet on the bus *)
(* by itself, and usbPoll() with the main loop around it, which processes  *)
(* received messages and prepares the packets to send.  They share the two *)
(* receive buffers, usbTxBuf and the two interrupt-IN buffers, with no     *)
(* lock: each length variable says who may touch its buffer.               *)
(*                                                                         *)
(* The interrupt routine is one action per kind of packet (interrupts stay *)
(* off until it returns).  The main loop takes one step per access to the  *)
(* shared state.  The bus is open: any packet may arrive at any time, in   *)
(* any order; module UsbBus closes it with a host.                         *)
(***************************************************************************)
EXTENDS Integers

CONSTANTS
    Request,      \* the 8-byte messages of SETUP transactions
    Payload,      \* the other messages, of OUT transactions
    PayloadSize,  \* their sizes, 0 for the empty packet of a status stage
    ReplyLen,     \* what usbFunctionSetup() or usbDriverSetup() returns for a request
    WLength,      \* the wLength field of a request
    Effect,       \* what processing a request does besides replying
    NewAddress,   \* wValue of a request, for SET_ADDRESS
    Address,      \* device addresses
    OutEp,        \* endpoint numbers other than 0 the host sends OUT tokens to
    InEp,         \* endpoint numbers other than 0 the host sends IN tokens to
    Message,      \* what the firmware passes to usbSetInterrupt()
    MessageSize

MaxPacket == 8    \* bytes of data in a low-speed packet
SetupSize == 8    \* bytes of a SETUP message
Ep3Number == 2    \* USB_CFG_EP3_NUMBER

USBPID_SETUP == 45    \* 0x2d
USBPID_OUT == 225     \* 0xe1
USBPID_NAK == 90      \* 0x5a
USBPID_STALL == 30    \* 0x1e
USB_NO_MSG == 255
NoToken == 0

Effects == {"none", "load", "toggles", "address"}

ASSUME RequestAssumption ==
    /\ Request # {} /\ Request \cap Payload = {}
    /\ PayloadSize \in [Payload -> 0 .. MaxPacket]
    /\ ReplyLen \in [Request -> 0 .. 254]
    /\ WLength \in [Request -> Nat]
    /\ Effect \in [Request -> Effects]
    /\ NewAddress \in [Request -> Address]

ASSUME EndpointAssumption ==
    /\ 0 \in Address
    /\ OutEp \subseteq 1 .. 15 /\ InEp \subseteq 1 .. 15
    /\ Message # {} /\ MessageSize \in [Message -> 0 .. MaxPacket]

VARIABLES
    \* shared with the interrupt routine
    usbRxBuf,           \* two buffers: one being received into, one being processed
    usbInputBufOffset,  \* the one being received into
    usbRxLen,           \* length of the message to process, with PID and CRC; 0: none
    usbRxToken,         \* its token: USBPID_SETUP, USBPID_OUT, or the endpoint of an OUT
    usbCurrentTok,      \* token the next data packet belongs to
    usbTxLen,           \* length to send on endpoint 0, or the handshake to answer
    usbTxBuf,           \* packet to send on endpoint 0
    usbTxStatus,        \* the same for the two interrupt-IN endpoints
    usbDeviceAddr, usbNewDeviceAddr,
    \* of the main loop
    usbMsgLen,          \* bytes of the reply still to send, USB_NO_MSG after the last
    usbMsgPtr,          \* where the reply continues
    wantLen,            \* usbBuildTxBlock()'s local
    si,                 \* arguments of the running usbSetInterrupt() and its return
    pc,
    \* history
    acked,              \* the message acknowledged last
    reply,              \* the SETUP acknowledged last, packets sent since
    hostPid             \* data PID the host expects next from an interrupt endpoint

rxVars == <<usbRxBuf, usbInputBufOffset, usbRxLen, usbRxToken, usbCurrentTok>>
txVars == <<usbTxLen, usbTxBuf>>
addrVars == <<usbDeviceAddr, usbNewDeviceAddr>>
msgVars == <<usbMsgLen, usbMsgPtr, wantLen>>
histVars == <<acked, reply, hostPid>>
vars == <<rxVars, txVars, usbTxStatus, addrVars, msgVars, si, pc, histVars>>

-----------------------------------------------------------------------------
Noise == "noise"    \* whatever a packet that is not stored leaves in the buffer

Interrupt == {1, 3}    \* usbTxStatus1 and usbTxStatus3

Data == Request \cup Payload
Size(d) == IF d \in Request THEN SetupSize ELSE PayloadSize[d]

Toggle(pid) == IF pid = "DATA0" THEN "DATA1" ELSE "DATA0"

Smaller(a, b) == IF a < b THEN a ELSE b

\* What the driver returns for a request, cut to what the host asked for.
Total(r) == Smaller(ReplyLen[r], WLength[r])

\* All handshake PIDs have bit 4 set, no packet length has.
Idle(len) == (len \div 16) % 2 = 1

CanSend_Always(len) == ~Idle(len)    \* mutant: IN is served while a message waits

\* The interrupt routine sends a buffer: no received message is waiting.
CanSend(len) == usbRxLen < 1 /\ ~Idle(len)

\* usbTxStatus1 answers every interrupt endpoint but Ep3Number.
Serving(ep) == IF ep = Ep3Number THEN 3 ELSE 1

Init ==
    /\ usbRxBuf = [b \in {0, 1} |-> Noise]
    /\ usbInputBufOffset = 0 /\ usbRxLen = 0
    /\ usbRxToken = NoToken /\ usbCurrentTok = NoToken
    /\ usbTxLen = USBPID_NAK
    /\ \E r \in Request :
          /\ usbTxBuf = [pid |-> "DATA0", whole |-> FALSE, req |-> r, pos |-> 0]
          /\ usbMsgPtr = [req |-> r, pos |-> 0]
          /\ acked = r /\ reply = [req |-> r, sent |-> 0]
    /\ \E m \in Message :
          /\ usbTxStatus = [e \in Interrupt |->
                [len |-> USBPID_NAK, pid |-> "DATA1", whole |-> FALSE, msg |-> m]]
          /\ si = [ep |-> 1, msg |-> m, ret |-> "poll"]
    /\ usbDeviceAddr = 0 /\ usbNewDeviceAddr = 0
    /\ usbMsgLen = USB_NO_MSG /\ wantLen = 0
    /\ pc = "poll"
    /\ hostPid = [e \in Interrupt |-> "DATA0"]

-----------------------------------------------------------------------------
(* The interrupt routine. *)

Scribble == usbRxBuf' = [usbRxBuf EXCEPT ![usbInputBufOffset] = Noise]

mainVars == <<msgVars, si, pc>>

\* A SETUP or OUT token for this device.
HandleSetupOrOut(pid, ep) ==
    /\ Scribble
    /\ usbCurrentTok' = IF ep = 0 THEN pid ELSE ep
    /\ UNCHANGED <<usbInputBufOffset, usbRxLen, usbRxToken, txVars, usbTxStatus,
                   addrVars, mainVars, histVars>>

\* A token for another device, a handshake, start of frame, a packet too long.
IgnorePacket ==
    /\ Scribble
    /\ usbCurrentTok' = NoToken
    /\ UNCHANGED <<usbInputBufOffset, usbRxLen, usbRxToken, txVars, usbTxStatus,
                   addrVars, mainVars, histVars>>

\* A data packet that is not stored: no token came first, the last message is
\* still being processed (NAK), or it is empty (ACK).
HandleDataUnstored(d) ==
    /\ usbCurrentTok = NoToken \/ usbRxLen # 0 \/ Size(d) = 0
    /\ Scribble
    /\ UNCHANGED <<usbInputBufOffset, usbRxLen, usbRxToken, usbCurrentTok, txVars,
                   usbTxStatus, addrVars, mainVars, histVars>>

\* mutant: the message being processed does not hold the next one off
HandleDataStored_NoFlow(d) ==
    /\ usbCurrentTok # NoToken /\ Size(d) # 0
    /\ usbRxBuf' = [usbRxBuf EXCEPT ![usbInputBufOffset] = d]
    /\ usbRxLen' = Size(d) + 3
    /\ usbRxToken' = usbCurrentTok
    /\ usbInputBufOffset' = 1 - usbInputBufOffset
    /\ acked' = IF usbRxLen = 0 THEN d ELSE acked
    /\ reply' = IF usbCurrentTok = USBPID_SETUP /\ d \in Request
                THEN [req |-> d, sent |-> 0] ELSE reply
    /\ UNCHANGED <<usbCurrentTok, txVars, usbTxStatus, addrVars, mainVars, hostPid>>

\* A data packet that is stored and acknowledged; the buffers are swapped.
HandleDataStored(d) ==
    /\ usbCurrentTok # NoToken /\ usbRxLen = 0 /\ Size(d) # 0
    /\ usbRxBuf' = [usbRxBuf EXCEPT ![usbInputBufOffset] = d]
    /\ usbRxLen' = Size(d) + 3
    /\ usbRxToken' = usbCurrentTok
    /\ usbInputBufOffset' = 1 - usbInputBufOffset
    /\ acked' = d
    /\ reply' = IF usbCurrentTok = USBPID_SETUP /\ d \in Request
                THEN [req |-> d, sent |-> 0] ELSE reply
    /\ UNCHANGED <<usbCurrentTok, txVars, usbTxStatus, addrVars, mainVars, hostPid>>

\* Eight bytes behind a SETUP token are a request, whatever they are.
HandleData(d) ==
    /\ usbCurrentTok = USBPID_SETUP /\ Size(d) = SetupSize => d \in Request
    /\ HandleDataUnstored(d) \/ HandleDataStored(d)

\* mutant: the new address is taken over when a handshake is sent, too
HandleInNak_Assigns(len) ==
    /\ ~CanSend(len)
    /\ Scribble
    /\ usbDeviceAddr' = usbNewDeviceAddr
    /\ UNCHANGED <<usbInputBufOffset, usbRxLen, usbRxToken, usbCurrentTok, txVars,
                   usbTxStatus, usbNewDeviceAddr, mainVars, histVars>>

\* An IN token answered by a handshake.
HandleInNak(len) ==
    /\ ~CanSend(len)
    /\ Scribble
    /\ UNCHANGED <<usbInputBufOffset, usbRxLen, usbRxToken, usbCurrentTok, txVars,
                   usbTxStatus, addrVars, mainVars, histVars>>

\* An IN token of endpoint 0 answered by a data packet.  The address is taken
\* over whenever a data packet was sent.
HandleIn0 ==
    /\ CanSend(usbTxLen)
    /\ Scribble
    /\ usbTxLen' = USBPID_NAK
    /\ usbDeviceAddr' = usbNewDeviceAddr
    /\ reply' = [reply EXCEPT !.sent = @ + 1]
    /\ UNCHANGED <<usbInputBufOffset, usbRxLen, usbRxToken, usbCurrentTok, usbTxBuf,
                   usbTxStatus, usbNewDeviceAddr, mainVars, acked, hostPid>>

\* The same for an interrupt endpoint: handleIn1, handleIn3.
HandleIn13(e) ==
    /\ CanSend(usbTxStatus[e].len)
    /\ Scribble
    /\ usbTxStatus' = [usbTxStatus EXCEPT ![e].len = USBPID_NAK]
    /\ usbDeviceAddr' = usbNewDeviceAddr
    /\ hostPid' = [hostPid EXCEPT ![e] = Toggle(@)]
    /\ UNCHANGED <<usbInputBufOffset, usbRxLen, usbRxToken, usbCurrentTok, txVars,
                   usbNewDeviceAddr, mainVars, acked, reply>>

HandleIn(ep) ==
    IF ep = 0
    THEN HandleInNak(usbTxLen) \/ HandleIn0
    ELSE HandleInNak(usbTxStatus[Serving(ep)].len) \/ HandleIn13(Serving(ep))

Packet ==
    \/ \E pid \in {USBPID_SETUP, USBPID_OUT}, ep \in {0} \cup OutEp :
          HandleSetupOrOut(pid, ep)
    \/ IgnorePacket
    \/ \E d \in Data : HandleData(d)
    \/ \E ep \in {0} \cup InEp : HandleIn(ep)

-----------------------------------------------------------------------------
(* usbPoll(): a received message. *)

Message0 == usbRxBuf[1 - usbInputBufOffset]    \* the message to process

PollRx_Short ==    \* mutant: messages shorter than a SETUP are overlooked
    /\ pc = "poll"
    /\ pc' = IF usbRxLen - 3 >= SetupSize THEN "rx" ELSE "tx"
    /\ UNCHANGED <<rxVars, txVars, usbTxStatus, addrVars, msgVars, si, histVars>>

PollRx ==
    /\ pc = "poll"
    /\ pc' = IF usbRxLen - 3 >= 0 THEN "rx" ELSE "tx"
    /\ UNCHANGED <<rxVars, txVars, usbTxStatus, addrVars, msgVars, si, histVars>>

IsSetup == usbRxToken = USBPID_SETUP /\ usbRxLen - 3 = SetupSize

\* OUT of another endpoint (usbFunctionWriteOut), the data stage of a control
\* transfer, a SETUP of another size: endpoint 0 is left alone.
ProcessOut ==
    /\ pc = "rx" /\ ~IsSetup
    /\ pc' = "free"
    /\ UNCHANGED <<rxVars, txVars, usbTxStatus, addrVars, msgVars, si, histVars>>

ProcessSetup ==
    /\ pc = "rx" /\ IsSetup
    /\ usbTxBuf' = [usbTxBuf EXCEPT !.pid = "DATA0", !.whole = FALSE]
    /\ pc' = "abort"
    /\ UNCHANGED <<rxVars, usbTxLen, usbTxStatus, addrVars, msgVars, si, histVars>>

SetupAbort_Kept ==    \* mutant: the pending transmit is not aborted
    /\ pc = "abort"
    /\ pc' = "dispatch"
    /\ UNCHANGED <<rxVars, txVars, usbTxStatus, addrVars, msgVars, si, histVars>>

SetupAbort ==
    /\ pc = "abort"
    /\ usbTxLen' = USBPID_NAK
    /\ pc' = "dispatch"
    /\ UNCHANGED <<rxVars, usbTxBuf, usbTxStatus, addrVars, msgVars, si, histVars>>

\* usbFunctionSetup() or usbDriverSetup().
SetupDispatch(m) ==
    LET r == Message0 IN
    /\ pc = "dispatch"
    /\ usbMsgPtr' = [req |-> r, pos |-> 0]
    /\ IF Effect[r] = "load"
       THEN si' = [ep |-> 1, msg |-> m, ret |-> "reply"] /\ pc' = "test"
       ELSE pc' = "reply" /\ UNCHANGED si
    /\ usbNewDeviceAddr' = IF Effect[r] = "address" THEN NewAddress[r]
                           ELSE usbNewDeviceAddr
    /\ IF Effect[r] = "toggles"
       THEN /\ usbTxStatus' = [e \in Interrupt |->
                                  [usbTxStatus[e] EXCEPT !.pid = "DATA1"]]
            /\ hostPid' = [e \in Interrupt |-> "DATA0"]
       ELSE UNCHANGED <<usbTxStatus, hostPid>>
    /\ UNCHANGED <<rxVars, txVars, usbDeviceAddr, usbMsgLen, wantLen, acked, reply>>

SetupReply ==
    /\ pc = "reply"
    /\ usbMsgLen' = Total(Message0)
    /\ pc' = "free"
    /\ UNCHANGED <<rxVars, txVars, usbTxStatus, addrVars, usbMsgPtr, wantLen, si,
                   histVars>>

FreeRx ==
    /\ pc = "free"
    /\ usbRxLen' = 0
    /\ pc' = "tx"
    /\ UNCHANGED <<usbRxBuf, usbInputBufOffset, usbRxToken, usbCurrentTok, txVars,
                   usbTxStatus, addrVars, msgVars, si, histVars>>

-----------------------------------------------------------------------------
(* usbPoll(): the next packet of the reply, and the line state. *)

PollTx_NoEmpty ==    \* mutant: a reply without data has no packet
    /\ pc = "tx"
    /\ pc' = IF Idle(usbTxLen) /\ usbMsgLen \notin {0, USB_NO_MSG} THEN "toggle" ELSE "line"
    /\ UNCHANGED <<rxVars, txVars, usbTxStatus, addrVars, msgVars, si, histVars>>

PollTx ==
    /\ pc = "tx"
    /\ pc' = IF Idle(usbTxLen) /\ usbMsgLen # USB_NO_MSG THEN "toggle" ELSE "line"
    /\ UNCHANGED <<rxVars, txVars, usbTxStatus, addrVars, msgVars, si, histVars>>

BuildToggle ==
    /\ pc = "toggle"
    /\ wantLen' = Smaller(usbMsgLen, MaxPacket)
    /\ usbMsgLen' = usbMsgLen - wantLen'
    /\ usbTxBuf' = [usbTxBuf EXCEPT !.pid = Toggle(@), !.whole = FALSE]
    /\ pc' = "copy"
    /\ UNCHANGED <<rxVars, usbTxLen, usbTxStatus, addrVars, usbMsgPtr, si, histVars>>

\* usbDeviceRead() and the CRC.
BuildCopy ==
    /\ pc = "copy"
    /\ usbTxBuf' = [usbTxBuf EXCEPT !.whole = TRUE, !.req = usbMsgPtr.req,
                                    !.pos = usbMsgPtr.pos]
    /\ usbMsgPtr' = [usbMsgPtr EXCEPT !.pos = @ + wantLen]
    /\ pc' = "arm"
    /\ UNCHANGED <<rxVars, usbTxLen, usbTxStatus, addrVars, usbMsgLen, wantLen, si,
                   histVars>>

\* A partial packet identifies the end of the message.
BuildArm ==
    /\ pc = "arm"
    /\ usbTxLen' = wantLen + 4
    /\ usbMsgLen' = IF wantLen < MaxPacket THEN USB_NO_MSG ELSE usbMsgLen
    /\ pc' = "line"
    /\ UNCHANGED <<rxVars, usbTxBuf, usbTxStatus, addrVars, usbMsgPtr, wantLen, si,
                   histVars>>

LineIdle ==
    /\ pc = "line" /\ pc' = "app1"
    /\ UNCHANGED <<rxVars, txVars, usbTxStatus, addrVars, msgVars, si, histVars>>

\* The host resets the bus.
LineReset ==
    /\ pc = "line" /\ pc' = "app1"
    /\ usbNewDeviceAddr' = 0 /\ usbDeviceAddr' = 0
    /\ UNCHANGED <<rxVars, txVars, usbTxStatus, msgVars, si, histVars>>

-----------------------------------------------------------------------------
(* The main loop's own calls: usbSetInterrupt() and usbSetInterrupt3(). *)

AppCall_Unguarded(e, m) ==    \* mutant: usbInterruptIsReady() is not asked
    /\ pc = (IF e = 1 THEN "app1" ELSE "app3")
    /\ si' = [ep |-> e, msg |-> m, ret |-> IF e = 1 THEN "app3" ELSE "poll"]
    /\ pc' = "test"
    /\ UNCHANGED <<rxVars, txVars, usbTxStatus, addrVars, msgVars, histVars>>

AppCall(e, m) ==
    /\ pc = (IF e = 1 THEN "app1" ELSE "app3")
    /\ Idle(usbTxStatus[e].len)
    /\ si' = [ep |-> e, msg |-> m, ret |-> IF e = 1 THEN "app3" ELSE "poll"]
    /\ pc' = "test"
    /\ UNCHANGED <<rxVars, txVars, usbTxStatus, addrVars, msgVars, histVars>>

\* Endpoint 1 always has a message; endpoint 3 has none while no serial byte came.
AppSkip(e) ==
    /\ pc = (IF e = 1 THEN "app1" ELSE "app3")
    /\ e = 1 => ~Idle(usbTxStatus[e].len)
    /\ pc' = IF e = 1 THEN "app3" ELSE "poll"
    /\ UNCHANGED <<rxVars, txVars, usbTxStatus, addrVars, msgVars, si, histVars>>

SetIntTest ==
    /\ pc = "test"
    /\ pc' = IF Idle(usbTxStatus[si.ep].len) THEN "flip" ELSE "cancel"
    /\ UNCHANGED <<rxVars, txVars, usbTxStatus, addrVars, msgVars, si, histVars>>

SetIntFlip ==
    /\ pc = "flip"
    /\ usbTxStatus' = [usbTxStatus EXCEPT ![si.ep].pid = Toggle(@),
                                          ![si.ep].whole = FALSE]
    /\ pc' = "fill"
    /\ UNCHANGED <<rxVars, txVars, addrVars, msgVars, si, histVars>>

\* Avoid sending outdated (overwritten) interrupt data.
SetIntCancel ==
    /\ pc = "cancel"
    /\ usbTxStatus' = [usbTxStatus EXCEPT ![si.ep].len = USBPID_NAK,
                                          ![si.ep].whole = FALSE]
    /\ pc' = "fill"
    /\ UNCHANGED <<rxVars, txVars, addrVars, msgVars, si, histVars>>

SetIntFill ==
    /\ pc = "fill"
    /\ usbTxStatus' = [usbTxStatus EXCEPT ![si.ep].msg = si.msg, ![si.ep].whole = TRUE]
    /\ pc' = "enable"
    /\ UNCHANGED <<rxVars, txVars, addrVars, msgVars, si, histVars>>

SetIntEnable ==
    /\ pc = "enable"
    /\ usbTxStatus' = [usbTxStatus EXCEPT ![si.ep].len = MessageSize[si.msg] + 4]
    /\ pc' = si.ret
    /\ UNCHANGED <<rxVars, txVars, addrVars, msgVars, si, histVars>>

-----------------------------------------------------------------------------
ProcessRx ==
    \/ ProcessOut \/ ProcessSetup
    \/ SetupAbort
    \/ \E m \in Message : SetupDispatch(m)
    \/ SetupReply
    \/ FreeRx

BuildTxBlock == BuildToggle \/ BuildCopy \/ BuildArm

SetInterrupt == SetIntTest \/ SetIntFlip \/ SetIntCancel \/ SetIntFill \/ SetIntEnable

MainLoop ==
    \/ PollRx \/ ProcessRx
    \/ PollTx \/ BuildTxBlock
    \/ LineIdle \/ LineReset
    \/ \E e \in Interrupt : AppSkip(e) \/ \E m \in Message : AppCall(e, m)
    \/ SetInterrupt

Next == MainLoop \/ Packet

Spec == Init /\ [][Next]_vars
FairSpec == Spec /\ WF_vars(MainLoop)

-----------------------------------------------------------------------------
RxPcs == {"rx", "abort", "dispatch", "reply", "free"}
SetPcs == {"test", "flip", "cancel", "fill", "enable"}
Pcs == {"poll", "tx", "toggle", "copy", "arm", "line", "app1", "app3"} \cup RxPcs \cup SetPcs

Handshake == {USBPID_NAK, USBPID_STALL}
TxLen == (4 .. (MaxPacket + 4)) \cup Handshake
Pid == {"DATA0", "DATA1"}

TypeOK ==
    /\ usbRxBuf \in [{0, 1} -> Data \cup {Noise}]
    /\ usbInputBufOffset \in {0, 1}
    /\ usbRxLen \in {0} \cup (4 .. (MaxPacket + 3))
    /\ usbRxToken \in 0 .. 15 \cup {USBPID_SETUP, USBPID_OUT}
    /\ usbCurrentTok \in 0 .. 15 \cup {USBPID_SETUP, USBPID_OUT}
    /\ usbTxLen \in TxLen
    /\ usbTxBuf \in [pid : Pid, whole : BOOLEAN, req : Request, pos : Nat]
    /\ usbTxStatus \in [Interrupt -> [len : TxLen, pid : Pid, whole : BOOLEAN,
                                      msg : Message]]
    /\ usbDeviceAddr \in Address /\ usbNewDeviceAddr \in Address
    /\ usbMsgLen \in 0 .. USB_NO_MSG
    /\ usbMsgPtr \in [req : Request, pos : Nat]
    /\ wantLen \in 0 .. MaxPacket
    /\ si \in [ep : Interrupt, msg : Message, ret : {"poll", "app3", "reply"}]
    /\ pc \in Pcs
    /\ acked \in Data
    /\ reply \in [req : Request, sent : Nat]
    /\ hostPid \in [Interrupt -> Pid]

\* No IN is ever answered from a buffer the main loop is in the middle of
\* writing, whatever packets arrive between its steps: usbTxBuf ("free if usbTxLen
\* contains handshake token") and the interrupt buffers.
NoTornPacket ==
    /\ CanSend(usbTxLen) => usbTxBuf.whole
    /\ \A e \in Interrupt : CanSend(usbTxStatus[e].len) => usbTxStatus[e].whole

\* The message usbProcessRx() works on, from usbPoll() until the buffer is freed,
\* is the one that was acknowledged: nothing received meanwhile reaches it.
MessageStable ==
    usbRxLen # 0 => /\ Message0 = acked
                    /\ usbRxLen = Size(acked) + 3

\* What endpoint 0 sends is the next packet of the reply to the SETUP that was
\* acknowledged last: never a packet of an earlier transfer, none twice, none
\* skipped, the first one as DATA1.
ReplyInOrder ==
    CanSend(usbTxLen) =>
        /\ usbTxBuf.req = reply.req
        /\ usbTxBuf.pos = MaxPacket * reply.sent
        /\ usbTxBuf.pid = (IF reply.sent % 2 = 0 THEN "DATA1" ELSE "DATA0")
        /\ usbTxLen = 4 + Smaller(MaxPacket, Total(reply.req) - usbTxBuf.pos)

\* Interrupt packets alternate DATA0 and DATA1, whether the message was set when
\* the last one was sent or overwrites one still waiting; after SET_INTERFACE
\* the first one is DATA0 (usbconfig.h, USB_INITIAL_DATATOKEN).
ToggleInStep ==
    \A e \in Interrupt :
        CanSend(usbTxStatus[e].len) => usbTxStatus[e].pid = hostPid[e]

\* A received message is always processed and the buffer freed.
MessageProcessed == usbRxLen # 0 ~> usbRxLen = 0
=============================================================================
