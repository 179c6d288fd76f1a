----------------------------- MODULE Usb_proofs -----------------------------
(***************************************************************************)
(* Proofs about UsbDriver: who owns a received message when, no transmit   *)
(* buffer is torn, interrupt packets keep in step with the data toggle,    *)
(* endpoint 0 sends the packets of the reply to the last acknowledged      *)
(* SETUP, in order and with alternating PIDs.  Then about UsbBus: a device *)
(* that shares a bus with a conforming host agrees with it on the address, *)
(* answers a control transfer for that transfer, byte by byte, and hands   *)
(* every OUT message on once.                                              *)
(***************************************************************************)
EXTENDS UsbBus, TLAPS

LEMMA IdleIsHandshake ==
    ASSUME NEW len \in TxLen
    PROVE  Idle(len) <=> len \in Handshake
<1>1. CASE len \in Handshake
  BY <1>1, SMT DEF Idle, Handshake, USBPID_NAK, USBPID_STALL
<1>2. CASE len \in 4 .. 12
  <2>1. len \div 16 = 0
    BY <1>2, SMT
  <2>2. QED
    BY <1>2, <2>1, SMT DEF Idle, Handshake, USBPID_NAK, USBPID_STALL
<1>3. QED
  BY <1>1, <1>2 DEF TxLen, MaxPacket

-----------------------------------------------------------------------------
(* The message being processed.  It stays in its buffer, and the buffer stays *)
(* taken, until FreeRx; inside usbProcessRx() of a SETUP it is a request.      *)

InSetup ==
    \/ pc \in {"abort", "dispatch", "reply"}
    \/ pc \in SetPcs /\ si.ret = "reply"

RxInv ==
    /\ MessageStable
    /\ pc \in RxPcs \/ InSetup => usbRxLen # 0
    /\ InSetup => IsSetup
    /\ usbRxLen # 0 /\ IsSetup =>
          acked \in Request /\ reply = [req |-> acked, sent |-> 0]

LEMMA InitRx == Init => TypeOK /\ RxInv
<1> SUFFICES ASSUME Init PROVE TypeOK /\ RxInv
  OBVIOUS
<1>1. TypeOK
  BY RequestAssumption, EndpointAssumption
  DEF Init, TypeOK, TxLen, Handshake, Pid, Pcs, Interrupt, Data, NoToken, USB_NO_MSG,
      USBPID_NAK, MaxPacket
<1>2. RxInv
  BY DEF Init, RxInv, MessageStable, InSetup, RxPcs, SetPcs
<1>3. QED
  BY <1>1, <1>2

LEMMA SizeType == \A d \in Data : Size(d) \in 0 .. 8 /\ (d \in Request => Size(d) = 8)
BY RequestAssumption DEF Data, Size, SetupSize, MaxPacket

LEMMA TotalType == \A r \in Request : Total(r) \in 0 .. 254
<1> TAKE r \in Request
<1>1. ReplyLen[r] \in 0 .. 254 /\ WLength[r] \in Nat
  BY RequestAssumption
<1>2. QED
  BY <1>1, SMTT(60) DEF Total, Smaller

LEMMA TypeStep == TypeOK /\ RxInv /\ [Next]_vars => TypeOK'
<1> SUFFICES ASSUME TypeOK, RxInv, [Next]_vars PROVE TypeOK'
  OBVIOUS
<1> USE DEF TypeOK, rxVars, txVars, addrVars, msgVars, histVars, mainVars, vars
<1>1. CASE MainLoop
  <2>1. CASE PollRx
    BY <2>1 DEF PollRx, Pcs, RxPcs
  <2>2. CASE ProcessOut
    BY <2>2 DEF ProcessOut, Pcs, RxPcs
  <2>3. CASE ProcessSetup
    BY <2>3, ZenonT(60) DEF ProcessSetup, Pcs, RxPcs, Pid
  <2>4. CASE SetupAbort
    BY <2>4 DEF SetupAbort, Pcs, RxPcs, TxLen, Handshake
  <2>5. CASE \E m \in Message : SetupDispatch(m)
    <3> PICK m \in Message : SetupDispatch(m)
      BY <2>5
    <3>1. Message0 \in Request
      BY DEF SetupDispatch, RxInv, InSetup, MessageStable, RxPcs
    <3>2. usbNewDeviceAddr' \in Address
      BY <3>1, RequestAssumption DEF SetupDispatch
    <3>3. usbTxStatus' \in [Interrupt -> [len : TxLen, pid : Pid, whole : BOOLEAN,
                                          msg : Message]]
      <4>1. CASE Effect[Message0] = "toggles"
        <5>1. usbTxStatus' = [e \in Interrupt |-> [usbTxStatus[e] EXCEPT !.pid = "DATA1"]]
          BY <4>1 DEF SetupDispatch
        <5>2. QED
          BY <5>1, SMTT(60) DEF Pid
      <4>2. CASE Effect[Message0] # "toggles"
        BY <4>2 DEF SetupDispatch
      <4>3. QED
        BY <4>1, <4>2
    <3>4. hostPid' \in [Interrupt -> Pid]
      BY DEF SetupDispatch, Pid
    <3>5. si' \in [ep : Interrupt, msg : Message, ret : {"poll", "app3", "reply"}]
      BY DEF SetupDispatch, Interrupt
    <3>6. pc' \in Pcs
      BY DEF SetupDispatch, Pcs, RxPcs, SetPcs
    <3>7. usbMsgPtr' \in [req : Request, pos : Nat]
      BY <3>1 DEF SetupDispatch
    <3>8. QED
      BY <3>2, <3>3, <3>4, <3>5, <3>6, <3>7 DEF SetupDispatch
  <2>6. CASE SetupReply
    <3>1. Message0 \in Request
      BY <2>6 DEF SetupReply, RxInv, InSetup, MessageStable, RxPcs
    <3>2. Total(Message0) \in 0 .. USB_NO_MSG
      BY <3>1, TotalType DEF USB_NO_MSG
    <3>3. QED
      BY <2>6, <3>2 DEF SetupReply, Pcs, RxPcs
  <2>7. CASE FreeRx
    BY <2>7 DEF FreeRx, Pcs
  <2>8. CASE PollTx
    BY <2>8 DEF PollTx, Pcs
  <2>9. CASE BuildToggle
    <3>1. wantLen' \in 0 .. MaxPacket /\ usbMsgLen' \in 0 .. USB_NO_MSG
      BY <2>9 DEF BuildToggle, Smaller, MaxPacket, USB_NO_MSG
    <3>2. usbTxBuf' \in [pid : Pid, whole : BOOLEAN, req : Request, pos : Nat]
      BY <2>9 DEF BuildToggle, Pid, Toggle
    <3>3. QED
      BY <2>9, <3>1, <3>2 DEF BuildToggle, Pcs
  <2>10. CASE BuildCopy
    <3>1. usbTxBuf' \in [pid : Pid, whole : BOOLEAN, req : Request, pos : Nat]
      BY <2>10 DEF BuildCopy
    <3>2. usbMsgPtr' \in [req : Request, pos : Nat]
      BY <2>10 DEF BuildCopy, MaxPacket
    <3>3. QED
      BY <2>10, <3>1, <3>2 DEF BuildCopy, Pcs
  <2>11. CASE BuildArm
    BY <2>11 DEF BuildArm, Pcs, TxLen, MaxPacket, USB_NO_MSG
  <2>12. CASE LineIdle
    BY <2>12 DEF LineIdle, Pcs
  <2>13. CASE LineReset
    BY <2>13, EndpointAssumption DEF LineReset, Pcs
  <2>14. CASE \E e \in Interrupt : AppSkip(e)
    BY <2>14 DEF AppSkip, Pcs
  <2>15. CASE \E e \in Interrupt, m \in Message : AppCall(e, m)
    BY <2>15 DEF AppCall, Pcs, SetPcs
  <2>16. CASE SetIntTest
    BY <2>16 DEF SetIntTest, Pcs, SetPcs
  <2>17. CASE SetIntFlip
    BY <2>17 DEF SetIntFlip, Pcs, SetPcs, Pid, Toggle
  <2>18. CASE SetIntCancel
    BY <2>18 DEF SetIntCancel, Pcs, SetPcs, TxLen, Handshake
  <2>19. CASE SetIntFill
    BY <2>19 DEF SetIntFill, Pcs, SetPcs
  <2>20. CASE SetIntEnable
    <3>1. MessageSize[si.msg] + 4 \in TxLen
      BY EndpointAssumption DEF TxLen, MaxPacket
    <3>2. QED
      BY <2>20, <3>1 DEF SetIntEnable, Pcs, RxPcs
  <2>21. QED
    BY <1>1, <2>1, <2>2, <2>3, <2>4, <2>5, <2>6, <2>7, <2>8, <2>9, <2>10, <2>11, <2>12,
       <2>13, <2>14, <2>15, <2>16, <2>17, <2>18, <2>19, <2>20
    DEF MainLoop, ProcessRx, BuildTxBlock, SetInterrupt
<1>2. CASE Packet
  <2>1. ASSUME NEW pid \in {USBPID_SETUP, USBPID_OUT}, NEW ep \in {0} \cup OutEp,
               HandleSetupOrOut(pid, ep)
        PROVE  TypeOK'
    BY <2>1, EndpointAssumption DEF HandleSetupOrOut, Scribble
  <2>2. CASE IgnorePacket
    BY <2>2 DEF IgnorePacket, Scribble, NoToken
  <2>3. ASSUME NEW d \in Data, HandleDataUnstored(d)
        PROVE  TypeOK'
    BY <2>3 DEF HandleDataUnstored, Scribble
  <2>4. ASSUME NEW d \in Data, HandleDataStored(d)
        PROVE  TypeOK'
    BY <2>4, SizeType DEF HandleDataStored, MaxPacket
  <2>5. ASSUME NEW len, HandleInNak(len)
        PROVE  TypeOK'
    BY <2>5 DEF HandleInNak, Scribble
  <2>6. CASE HandleIn0
    BY <2>6 DEF HandleIn0, Scribble, TxLen, Handshake
  <2>7. ASSUME NEW e \in Interrupt, HandleIn13(e)
        PROVE  TypeOK'
    BY <2>7, SMTT(60) DEF HandleIn13, Scribble, TxLen, Handshake, Pid, Toggle
  <2>8. \A ep : Serving(ep) \in Interrupt
    BY DEF Serving, Interrupt
  <2>9. QED
    BY <1>2, <2>1, <2>2, <2>3, <2>4, <2>5, <2>6, <2>7, <2>8
    DEF Packet, HandleData, HandleIn
<1>3. CASE UNCHANGED vars
  BY <1>3 DEF Message0
<1>4. QED
  BY <1>1, <1>2, <1>3 DEF Next

LEMMA RxStep == TypeOK /\ RxInv /\ [Next]_vars => RxInv'
<1> SUFFICES ASSUME TypeOK, RxInv, [Next]_vars PROVE RxInv'
  OBVIOUS
<1> USE DEF rxVars, txVars, addrVars, msgVars, histVars, mainVars, vars
<1> DEFINE Quiet == /\ UNCHANGED <<rxVars, acked, reply>>
                    /\ pc' \in RxPcs \/ InSetup' => usbRxLen # 0
                    /\ InSetup' => IsSetup
<1>1. ASSUME Quiet PROVE RxInv'
  BY <1>1 DEF RxInv, MessageStable, Message0, IsSetup
<1>2. CASE MainLoop
  <2> USE DEF RxPcs, SetPcs, InSetup
  <2>1. CASE PollRx
    <3>1. usbRxLen - 3 >= 0 => usbRxLen # 0
      BY DEF TypeOK, MaxPacket
    <3>2. Quiet
      BY <2>1, <3>1 DEF PollRx
    <3>3. QED
      BY <3>2, <1>1
  <2>2. CASE ProcessOut
    <3>1. Quiet
      BY <2>2 DEF ProcessOut, RxInv
    <3>2. QED
      BY <3>1, <1>1
  <2>3. CASE ProcessSetup
    <3>1. Quiet
      BY <2>3 DEF ProcessSetup, RxInv
    <3>2. QED
      BY <3>1, <1>1
  <2>4. CASE SetupAbort
    <3>1. Quiet
      BY <2>4 DEF SetupAbort, RxInv
    <3>2. QED
      BY <3>1, <1>1
  <2>5. CASE \E m \in Message : SetupDispatch(m)
    <3>1. Quiet
      BY <2>5 DEF SetupDispatch, RxInv
    <3>2. QED
      BY <3>1, <1>1
  <2>6. CASE SetupReply
    <3>1. Quiet
      BY <2>6 DEF SetupReply, RxInv
    <3>2. QED
      BY <3>1, <1>1
  <2>7. CASE FreeRx
    BY <2>7 DEF FreeRx, RxInv, MessageStable
  <2>8. CASE PollTx \/ BuildTxBlock
    <3>1. Quiet
      BY <2>8 DEF PollTx, BuildTxBlock, BuildToggle, BuildCopy, BuildArm
    <3>2. QED
      BY <3>1, <1>1
  <2>9. CASE LineIdle \/ LineReset
    <3>1. Quiet
      BY <2>9 DEF LineIdle, LineReset
    <3>2. QED
      BY <3>1, <1>1
  <2>10. CASE \E e \in Interrupt : AppSkip(e) \/ \E m \in Message : AppCall(e, m)
    <3>1. Quiet
      BY <2>10 DEF AppSkip, AppCall
    <3>2. QED
      BY <3>1, <1>1
  <2>11. CASE SetInterrupt
    <3>1. si.ret \in {"poll", "app3", "reply"}
      BY DEF TypeOK
    <3>2. Quiet
      BY <2>11, <3>1
      DEF SetInterrupt, SetIntTest, SetIntFlip, SetIntCancel, SetIntFill, SetIntEnable, RxInv
    <3>3. QED
      BY <3>2, <1>1
  <2>12. QED
    BY <1>2, <2>1, <2>2, <2>3, <2>4, <2>5, <2>6, <2>7, <2>8, <2>9, <2>10, <2>11
    DEF MainLoop, ProcessRx
<1>3. CASE Packet
  <2> DEFINE Unstored == /\ Scribble
                         /\ UNCHANGED <<usbInputBufOffset, usbRxLen, usbRxToken, acked,
                                        si, pc>>
                         /\ usbRxLen = 0 \/ UNCHANGED reply
  <2>1. ASSUME Unstored PROVE RxInv'
    <3>1. Message0' = Message0
      BY <2>1 DEF Scribble, Message0, TypeOK
    <3>2. QED
      BY <2>1, <3>1 DEF RxInv, MessageStable, IsSetup, InSetup
  <2>2. ASSUME NEW d \in Data, HandleData(d), HandleDataStored(d)
        PROVE  RxInv'
    <3>1. usbRxLen = 0 /\ ~InSetup /\ pc \notin RxPcs
      BY <2>2 DEF HandleDataStored, RxInv
    <3>2. pc' \notin RxPcs /\ ~InSetup'
      BY <2>2, <3>1 DEF HandleDataStored, InSetup
    <3>3. Message0' = d
      BY <2>2 DEF HandleDataStored, Message0, TypeOK
    <3>4. IsSetup' => d \in Request
      <4>1. IsSetup' => usbCurrentTok = USBPID_SETUP /\ Size(d) = SetupSize
        BY <2>2, SizeType DEF HandleDataStored, IsSetup
      <4>2. QED
        BY <2>2, <4>1 DEF HandleData
    <3>5. IsSetup' => reply' = [req |-> d, sent |-> 0]
      BY <2>2, <3>4 DEF HandleDataStored, IsSetup
    <3>6. QED
      BY <2>2, <3>2, <3>3, <3>4, <3>5 DEF HandleDataStored, RxInv, MessageStable
  <2>3. ASSUME NEW pid, NEW ep, HandleSetupOrOut(pid, ep) PROVE RxInv'
    BY <2>3, <2>1 DEF HandleSetupOrOut
  <2>4. CASE IgnorePacket
    BY <2>4, <2>1 DEF IgnorePacket
  <2>5. ASSUME NEW d \in Data, HandleDataUnstored(d) PROVE RxInv'
    BY <2>5, <2>1 DEF HandleDataUnstored
  <2>6. ASSUME NEW len, HandleInNak(len) PROVE RxInv'
    BY <2>6, <2>1 DEF HandleInNak
  <2>7. CASE HandleIn0
    <3>1. usbRxLen = 0
      BY <2>7 DEF HandleIn0, CanSend, TypeOK, MaxPacket
    <3>2. QED
      BY <2>7, <3>1, <2>1 DEF HandleIn0
  <2>8. ASSUME NEW e, HandleIn13(e) PROVE RxInv'
    BY <2>8, <2>1 DEF HandleIn13
  <2>9. QED
    BY <1>3, <2>2, <2>3, <2>4, <2>5, <2>6, <2>7, <2>8 DEF Packet, HandleData, HandleIn
<1>4. CASE UNCHANGED vars
  BY <1>4, <1>1 DEF RxInv, RxPcs, InSetup
<1>5. QED
  BY <1>2, <1>3, <1>4 DEF Next

\* Whatever packets arrive, whatever the host requests: the variables keep to the
\* ranges the code relies on, every length is a data length or a handshake.
THEOREM TypeCorrect == Spec => []TypeOK
<1>1. TypeOK /\ RxInv /\ [Next]_vars => (TypeOK /\ RxInv)'
  BY TypeStep, RxStep
<1>2. QED
  BY InitRx, <1>1, PTL DEF Spec

\* The message usbProcessRx() works on is not touched by what is received
\* meanwhile, until usbPoll() frees its buffer.
THEOREM MessageIsStable == Spec => []MessageStable
<1>1. TypeOK /\ RxInv /\ [Next]_vars => (TypeOK /\ RxInv)'
  BY TypeStep, RxStep
<1>2. RxInv => MessageStable
  BY DEF RxInv
<1>3. QED
  BY InitRx, <1>1, <1>2, PTL DEF Spec

-----------------------------------------------------------------------------
(* What the driver sends: no buffer is torn, and interrupt packets keep in step *)
(* with the host's data toggle.                                                *)

LEMMA IdleFacts ==
    /\ Idle(USBPID_NAK)
    /\ \A n \in 4 .. 12 : ~Idle(n)
<1>1. USBPID_NAK \in TxLen /\ USBPID_NAK \in Handshake
  BY DEF TxLen, Handshake
<1>2. \A n \in 4 .. 12 : n \in TxLen /\ n \notin Handshake
  BY DEF TxLen, Handshake, MaxPacket, USBPID_NAK, USBPID_STALL
<1>3. QED
  BY <1>1, <1>2, IdleIsHandshake

\* An IN is answered with data only while no received message waits.
LEMMA SendsWhenFree ==
    ASSUME TypeOK, NEW len, CanSend(len)
    PROVE  usbRxLen = 0 /\ ~Idle(len)
BY DEF TypeOK, CanSend, MaxPacket

-----------------------------------------------------------------------------
(* The buffers.  A buffer whose length is not a handshake is whole; while the *)
(* main loop writes one, its length is a handshake.  The one exception is     *)
(* usbTxBuf between the PID reset and the abort of a SETUP: there usbRxLen    *)
(* keeps the interrupt routine away.                                          *)

BufInv ==
    /\ ~Idle(usbTxLen) => usbTxBuf.whole \/ pc = "abort"
    /\ pc \in {"toggle", "copy", "arm"} => Idle(usbTxLen)
    /\ pc = "arm" => usbTxBuf.whole
    /\ \A e \in Interrupt : ~Idle(usbTxStatus[e].len) => usbTxStatus[e].whole
    /\ pc \in {"flip", "fill", "enable"} => Idle(usbTxStatus[si.ep].len)
    /\ pc = "enable" => usbTxStatus[si.ep].whole

LEMMA BufStep == TypeOK /\ RxInv /\ BufInv /\ [Next]_vars => BufInv'
<1> SUFFICES ASSUME TypeOK, RxInv, BufInv, [Next]_vars PROVE BufInv'
  OBVIOUS
<1> USE DEF rxVars, txVars, addrVars, msgVars, histVars, mainVars, vars
<1>t. /\ si.ep \in Interrupt /\ si.msg \in Message
      /\ si.ret \in {"poll", "app3", "reply"}
      /\ usbTxStatus \in [Interrupt -> [len : TxLen, pid : Pid, whole : BOOLEAN,
                                        msg : Message]]
      /\ usbTxBuf \in [pid : Pid, whole : BOOLEAN, req : Request, pos : Nat]
      /\ wantLen \in 0 .. MaxPacket
  BY DEF TypeOK
<1>1. CASE MainLoop
  <2>1. CASE PollRx \/ ProcessOut \/ SetupReply \/ FreeRx \/ LineIdle \/ LineReset
    BY <2>1 DEF BufInv, PollRx, ProcessOut, SetupReply, FreeRx, LineIdle, LineReset
  <2>2. CASE ProcessSetup
    BY <2>2, <1>t DEF BufInv, ProcessSetup
  <2>3. CASE SetupAbort
    BY <2>3, IdleFacts DEF BufInv, SetupAbort
  <2>4. CASE \E m \in Message : SetupDispatch(m)
    <3> PICK m \in Message : SetupDispatch(m)
      BY <2>4
    <3>1. \A e \in Interrupt : /\ usbTxStatus'[e].len = usbTxStatus[e].len
                               /\ usbTxStatus'[e].whole = usbTxStatus[e].whole
      <4>1. CASE Effect[Message0] = "toggles"
        <5>1. usbTxStatus' = [e \in Interrupt |-> [usbTxStatus[e] EXCEPT !.pid = "DATA1"]]
          BY <4>1 DEF SetupDispatch
        <5>2. QED
          BY <5>1, <1>t
      <4>2. CASE Effect[Message0] # "toggles"
        BY <4>2 DEF SetupDispatch
      <4>3. QED
        BY <4>1, <4>2
    <3>2. pc' \in {"test", "reply"} /\ UNCHANGED <<usbTxLen, usbTxBuf>> /\ pc = "dispatch"
      BY DEF SetupDispatch
    <3>3. QED
      BY <3>1, <3>2 DEF BufInv
  <2>5. CASE PollTx
    BY <2>5 DEF BufInv, PollTx
  <2>6. CASE BuildToggle
    BY <2>6, <1>t DEF BufInv, BuildToggle
  <2>7. CASE BuildCopy
    BY <2>7, <1>t DEF BufInv, BuildCopy
  <2>8. CASE BuildArm
    BY <2>8, <1>t DEF BufInv, BuildArm
  <2>9. CASE \E e \in Interrupt : AppSkip(e) \/ \E m \in Message : AppCall(e, m)
    BY <2>9 DEF BufInv, AppSkip, AppCall
  <2>10. CASE SetIntTest
    BY <2>10, <1>t DEF BufInv, SetIntTest
  <2>11. CASE SetIntFlip
    BY <2>11, <1>t DEF BufInv, SetIntFlip
  <2>12. CASE SetIntCancel
    BY <2>12, <1>t, IdleFacts DEF BufInv, SetIntCancel
  <2>13. CASE SetIntFill
    BY <2>13, <1>t DEF BufInv, SetIntFill
  <2>14. CASE SetIntEnable
    BY <2>14, <1>t DEF BufInv, SetIntEnable
  <2>15. QED
    BY <1>1, <2>1, <2>2, <2>3, <2>4, <2>5, <2>6, <2>7, <2>8, <2>9, <2>10, <2>11, <2>12,
       <2>13, <2>14
    DEF MainLoop, ProcessRx, BuildTxBlock, SetInterrupt
<1>2. CASE Packet
  <2>1. ASSUME UNCHANGED <<txVars, usbTxStatus, si, pc>> PROVE BufInv'
    BY <2>1 DEF BufInv
  <2>2. ASSUME NEW pid, NEW ep, HandleSetupOrOut(pid, ep) PROVE BufInv'
    BY <2>2, <2>1 DEF HandleSetupOrOut
  <2>3. CASE IgnorePacket
    BY <2>3, <2>1 DEF IgnorePacket
  <2>4. ASSUME NEW d, HandleData(d) PROVE BufInv'
    BY <2>4, <2>1 DEF HandleData, HandleDataStored, HandleDataUnstored
  <2>5. ASSUME NEW len, HandleInNak(len) PROVE BufInv'
    BY <2>5, <2>1 DEF HandleInNak
  <2>6. CASE HandleIn0
    BY <2>6, IdleFacts DEF BufInv, HandleIn0
  <2>7. ASSUME NEW e \in Interrupt, HandleIn13(e) PROVE BufInv'
    BY <2>7, <1>t, IdleFacts DEF BufInv, HandleIn13
  <2>8. \A ep : Serving(ep) \in Interrupt
    BY DEF Serving, Interrupt
  <2>9. QED
    BY <1>2, <2>2, <2>3, <2>4, <2>5, <2>6, <2>7, <2>8 DEF Packet, HandleIn
<1>3. CASE UNCHANGED vars
  BY <1>3 DEF BufInv
<1>4. QED
  BY <1>1, <1>2, <1>3 DEF Next

\* usbTxBuf and the interrupt buffers need no lock: whatever packets arrive
\* between the main loop's accesses, no IN is answered from a buffer it is writing.
THEOREM NoPacketTorn == Spec => []NoTornPacket
<1>1. Init => TypeOK /\ RxInv /\ BufInv
  <2>1. Init => BufInv
    BY IdleFacts DEF Init, BufInv
  <2>2. QED
    BY <2>1, InitRx
<1>2. TypeOK /\ RxInv /\ BufInv /\ [Next]_vars => (TypeOK /\ RxInv /\ BufInv)'
  BY TypeStep, RxStep, BufStep
<1>3. TypeOK /\ RxInv /\ BufInv => NoTornPacket
  <2> SUFFICES ASSUME TypeOK, RxInv, BufInv PROVE NoTornPacket
    OBVIOUS
  <2>1. CanSend(usbTxLen) => usbTxBuf.whole
    BY SendsWhenFree DEF BufInv, RxInv, InSetup
  <2>2. \A e \in Interrupt : CanSend(usbTxStatus[e].len) => usbTxStatus[e].whole
    BY SendsWhenFree DEF BufInv
  <2>3. QED
    BY <2>1, <2>2 DEF NoTornPacket
<1>4. QED
  BY <1>1, <1>2, <1>3, PTL DEF Spec

-----------------------------------------------------------------------------
(* The data toggle of the interrupt endpoints.  usbGenericSetInterrupt() flips *)
(* the PID unless a message still waits, which it overwrites.  A message that  *)
(* waits has the PID the host expects, also between the test and the write:    *)
(* the only caller that may overwrite is usbFunctionSetup(), and while it runs *)
(* usbRxLen keeps the interrupt routine from sending.                          *)

Armed(e) ==
    \/ ~Idle(usbTxStatus[e].len)
    \/ pc \in {"fill", "enable"} /\ si.ep = e

TogInv ==
    /\ \A e \in Interrupt :
          usbTxStatus[e].pid = IF Armed(e) THEN hostPid[e] ELSE Toggle(hostPid[e])
    /\ pc = "test" /\ si.ret # "reply" => Idle(usbTxStatus[si.ep].len)
    /\ pc = "cancel" => si.ret = "reply" /\ ~Idle(usbTxStatus[si.ep].len)

\* No request resets the toggles: SET_CONFIGURATION does not, SET_INTERFACE would.
NoSetInterface == \A r \in Request : Effect[r] # "toggles"

LEMMA ToggleFacts == \A p \in Pid : Toggle(p) \in Pid /\ Toggle(Toggle(p)) = p
BY DEF Pid, Toggle

LEMMA TogStep ==
    ASSUME NoSetInterface
    PROVE  TypeOK /\ RxInv /\ BufInv /\ TogInv /\ [Next]_vars => TogInv'
<1> SUFFICES ASSUME TypeOK, RxInv, BufInv, TogInv, [Next]_vars PROVE TogInv'
  OBVIOUS
<1> USE DEF rxVars, txVars, addrVars, msgVars, histVars, mainVars, vars
<1>t. /\ si.ep \in Interrupt /\ si.msg \in Message
      /\ si.ret \in {"poll", "app3", "reply"}
      /\ usbTxStatus \in [Interrupt -> [len : TxLen, pid : Pid, whole : BOOLEAN,
                                        msg : Message]]
      /\ hostPid \in [Interrupt -> Pid]
  BY DEF TypeOK
<1>1. ASSUME UNCHANGED <<usbTxStatus, hostPid>>, pc \notin SetPcs, pc' \notin SetPcs
      PROVE  TogInv'
  BY <1>1 DEF TogInv, Armed, SetPcs
<1>2. CASE MainLoop
  <2>1. CASE PollRx \/ ProcessOut \/ ProcessSetup \/ SetupAbort \/ SetupReply \/ FreeRx
    BY <2>1, <1>1
    DEF PollRx, ProcessOut, ProcessSetup, SetupAbort, SetupReply, FreeRx, SetPcs
  <2>2. CASE PollTx \/ BuildTxBlock \/ LineIdle \/ LineReset
    BY <2>2, <1>1
    DEF PollTx, BuildTxBlock, BuildToggle, BuildCopy, BuildArm, LineIdle, LineReset, SetPcs
  <2>3. CASE \E m \in Message : SetupDispatch(m)
    <3> PICK m \in Message : SetupDispatch(m)
      BY <2>3
    <3>1. Message0 \in Request
      BY DEF SetupDispatch, RxInv, InSetup, MessageStable, RxPcs
    <3>2. UNCHANGED <<usbTxStatus, hostPid>> /\ pc = "dispatch"
      BY <3>1 DEF SetupDispatch, NoSetInterface
    <3>3. \/ pc' = "reply"
          \/ pc' = "test" /\ si'.ret = "reply"
      BY DEF SetupDispatch
    <3>4. QED
      BY <3>2, <3>3 DEF TogInv, Armed
  <2>4. CASE \E e \in Interrupt : AppSkip(e)
    BY <2>4, <1>1 DEF AppSkip, SetPcs
  <2>5. CASE \E e \in Interrupt, m \in Message : AppCall(e, m)
    BY <2>5 DEF AppCall, TogInv, Armed
  <2>6. CASE SetIntTest
    BY <2>6 DEF SetIntTest, TogInv, Armed
  <2>7. CASE SetIntFlip
    <3>1. usbTxStatus'[si.ep].pid = hostPid[si.ep]
      <4>1. usbTxStatus[si.ep].pid = Toggle(hostPid[si.ep])
        BY <2>7, <1>t DEF SetIntFlip, BufInv, TogInv, Armed
      <4>2. usbTxStatus'[si.ep].pid = Toggle(usbTxStatus[si.ep].pid)
        BY <2>7, <1>t DEF SetIntFlip
      <4>3. QED
        BY <4>1, <4>2, <1>t, ToggleFacts
    <3>2. \A e \in Interrupt : /\ usbTxStatus'[e].len = usbTxStatus[e].len
                               /\ e # si.ep => usbTxStatus'[e] = usbTxStatus[e]
      BY <2>7, <1>t DEF SetIntFlip
    <3>3. pc = "flip" /\ pc' = "fill" /\ UNCHANGED <<si, hostPid>>
      BY <2>7 DEF SetIntFlip
    <3>4. QED
      BY <3>1, <3>2, <3>3, <1>t DEF TogInv, Armed
  <2>8. CASE SetIntCancel
    <3>1. /\ usbTxStatus[si.ep].pid = hostPid[si.ep]
          /\ pc = "cancel" /\ pc' = "fill" /\ UNCHANGED <<si, hostPid>>
      BY <2>8, <1>t DEF SetIntCancel, TogInv, Armed
    <3>2. \A e \in Interrupt : /\ usbTxStatus'[e].pid = usbTxStatus[e].pid
                               /\ e # si.ep => usbTxStatus'[e] = usbTxStatus[e]
      BY <2>8, <1>t DEF SetIntCancel
    <3>3. QED
      BY <3>1, <3>2, <1>t DEF TogInv, Armed
  <2>9. CASE SetIntFill
    <3>1. \A e \in Interrupt : /\ usbTxStatus'[e].pid = usbTxStatus[e].pid
                               /\ usbTxStatus'[e].len = usbTxStatus[e].len
      BY <2>9, <1>t DEF SetIntFill
    <3>2. pc = "fill" /\ pc' = "enable" /\ UNCHANGED <<si, hostPid>>
      BY <2>9 DEF SetIntFill
    <3>3. QED
      BY <3>1, <3>2 DEF TogInv, Armed
  <2>10. CASE SetIntEnable
    <3>1. MessageSize[si.msg] + 4 \in 4 .. 12
      BY <1>t, EndpointAssumption DEF MaxPacket
    <3>2. /\ ~Idle(usbTxStatus'[si.ep].len)
          /\ \A e \in Interrupt : /\ usbTxStatus'[e].pid = usbTxStatus[e].pid
                                  /\ e # si.ep => usbTxStatus'[e] = usbTxStatus[e]
      BY <2>10, <1>t, <3>1, IdleFacts DEF SetIntEnable
    <3>3. pc = "enable" /\ pc' \notin SetPcs /\ UNCHANGED <<si, hostPid>>
      BY <2>10, <1>t DEF SetIntEnable, SetPcs
    <3>4. QED
      BY <3>2, <3>3, <1>t DEF TogInv, Armed, SetPcs
  <2>11. QED
    BY <1>2, <2>1, <2>2, <2>3, <2>4, <2>5, <2>6, <2>7, <2>8, <2>9, <2>10
    DEF MainLoop, ProcessRx, SetInterrupt
<1>3. CASE Packet
  <2>1. ASSUME UNCHANGED <<usbTxStatus, si, pc, hostPid>> PROVE TogInv'
    BY <2>1 DEF TogInv, Armed
  <2>2. ASSUME NEW pid, NEW ep, HandleSetupOrOut(pid, ep) PROVE TogInv'
    BY <2>2, <2>1 DEF HandleSetupOrOut
  <2>3. CASE IgnorePacket
    BY <2>3, <2>1 DEF IgnorePacket
  <2>4. ASSUME NEW d, HandleData(d) PROVE TogInv'
    BY <2>4, <2>1 DEF HandleData, HandleDataStored, HandleDataUnstored
  <2>5. ASSUME NEW len, HandleInNak(len) PROVE TogInv'
    BY <2>5, <2>1 DEF HandleInNak
  <2>6. CASE HandleIn0
    BY <2>6, <2>1 DEF HandleIn0
  <2>7. ASSUME NEW e \in Interrupt, HandleIn13(e) PROVE TogInv'
    <3>1. usbRxLen = 0 /\ ~Idle(usbTxStatus[e].len)
      BY <2>7, SendsWhenFree DEF HandleIn13
    <3>2. pc # "cancel" /\ (pc \in {"fill", "enable"} => si.ep # e)
      BY <3>1 DEF TogInv, BufInv, RxInv, InSetup, SetPcs
    <3>3. /\ Idle(usbTxStatus'[e].len)
          /\ \A f \in Interrupt : usbTxStatus'[f].pid = usbTxStatus[f].pid
          /\ \A f \in Interrupt : f # e => usbTxStatus'[f] = usbTxStatus[f]
          /\ \A f \in Interrupt : f # e => hostPid'[f] = hostPid[f]
          /\ hostPid'[e] = Toggle(hostPid[e])
      BY <2>7, <1>t, IdleFacts DEF HandleIn13
    <3>4. usbTxStatus'[e].pid = Toggle(hostPid'[e])
      BY <3>1, <3>3, <1>t, ToggleFacts DEF TogInv, Armed
    <3>5. UNCHANGED <<si, pc>>
      BY <2>7 DEF HandleIn13
    <3>6. QED
      BY <1>t, <3>2, <3>3, <3>4, <3>5 DEF TogInv, Armed
  <2>8. \A ep : Serving(ep) \in Interrupt
    BY DEF Serving, Interrupt
  <2>9. QED
    BY <1>3, <2>2, <2>3, <2>4, <2>5, <2>6, <2>7, <2>8 DEF Packet, HandleIn
<1>4. CASE UNCHANGED vars
  BY <1>4 DEF TogInv, Armed
<1>5. QED
  BY <1>2, <1>3, <1>4 DEF Next

\* The races between usbGenericSetInterrupt() and the interrupt routine never
\* leave a message with the PID of the last one, which the host would discard, as
\* long as the toggles are not reset while a message waits.
THEOREM TogglesInStep == NoSetInterface => (Spec => []ToggleInStep)
<1> SUFFICES ASSUME NoSetInterface PROVE Spec => []ToggleInStep
  OBVIOUS
<1> DEFINE Inv == TypeOK /\ RxInv /\ BufInv /\ TogInv
<1>1. Init => Inv
  <2>1. Init => BufInv /\ TogInv
    BY IdleFacts DEF Init, BufInv, TogInv, Armed, Toggle
  <2>2. QED
    BY <2>1, InitRx
<1>2. Inv /\ [Next]_vars => Inv'
  BY TypeStep, RxStep, BufStep, TogStep
<1>3. Inv => ToggleInStep
  BY SendsWhenFree DEF TogInv, Armed, ToggleInStep
<1>4. QED
  BY <1>1, <1>2, <1>3, PTL DEF Spec

-----------------------------------------------------------------------------
(* The reply on endpoint 0.                                                  *)
(* A SETUP that was acknowledged and not yet answered makes everything the    *)
(* driver holds for endpoint 0 obsolete; usbRxLen keeps it from being sent.   *)
(* Processing the SETUP replaces it piece by piece.  From then on the reply   *)
(* is in one of three places: at rest (usbMsgPtr and usbMsgLen are what is    *)
(* Left of it), being built into usbTxBuf, or queued there.                   *)

Pending == usbRxLen # 0 /\ IsSetup /\ pc # "free"

Left == Total(reply.req) - MaxPacket * reply.sent
Chunk == Smaller(MaxPacket, Left)
NextPid == IF reply.sent % 2 = 0 THEN "DATA1" ELSE "DATA0"

Aborted == InSetup /\ pc # "abort"
Dispatched == Aborted /\ pc # "dispatch"

Restarted ==
    /\ pc = "abort" => usbTxBuf.pid = "DATA0"
    /\ Aborted => usbTxBuf.pid = "DATA0" /\ Idle(usbTxLen)
    /\ Dispatched => usbMsgPtr = [req |-> acked, pos |-> 0]

AtRest ==
    Idle(usbTxLen) /\ pc \notin {"copy", "arm"} =>
        \/ usbMsgLen = USB_NO_MSG
        \/ /\ usbMsgLen = Left
           /\ usbMsgPtr.pos = MaxPacket * reply.sent
           /\ usbTxBuf.pid = Toggle(NextPid)

Building ==
    pc \in {"copy", "arm"} =>
        /\ Left >= 0
        /\ wantLen = Chunk /\ usbMsgLen = Left - Chunk
        /\ usbTxBuf.pid = NextPid
        /\ pc = "copy" => usbMsgPtr.pos = MaxPacket * reply.sent
        /\ pc = "arm" => /\ usbTxBuf.req = reply.req
                         /\ usbTxBuf.pos = MaxPacket * reply.sent
                         /\ usbMsgPtr.pos = MaxPacket * reply.sent + Chunk

Queued ==
    ~Idle(usbTxLen) =>
        /\ Left >= 0
        /\ usbTxLen = 4 + Chunk
        /\ usbTxBuf.req = reply.req
        /\ usbTxBuf.pos = MaxPacket * reply.sent
        /\ usbTxBuf.pid = NextPid
        /\ usbMsgLen = IF Chunk < MaxPacket THEN USB_NO_MSG ELSE Left - Chunk
        /\ usbMsgPtr.pos = MaxPacket * reply.sent + Chunk

ReplyInv ==
    /\ Restarted
    /\ pc = "toggle" => usbMsgLen # USB_NO_MSG
    /\ ~Pending => usbMsgPtr.req = reply.req /\ AtRest /\ Building /\ Queued

LEMMA LeftType ==
    ASSUME TypeOK
    PROVE  /\ Left \in Int /\ Left <= 254 /\ Chunk \in Int /\ Chunk <= 8
           /\ Left >= 0 => Chunk \in 0 .. 8 /\ Chunk <= Left
           /\ Left >= 0 /\ Chunk < 8 => Chunk = Left
           /\ NextPid \in Pid
<1>1. reply.req \in Request /\ reply.sent \in Nat
  BY DEF TypeOK
<1>2. Total(reply.req) \in 0 .. 254
  BY <1>1, TotalType
<1>3. Left \in Int /\ Left <= 254
  BY <1>1, <1>2 DEF Left, MaxPacket
<1>4. QED
  BY <1>3 DEF Chunk, Smaller, MaxPacket, NextPid, Pid

\* What is left after one more packet, and its PID.
LEMMA Advance ==
    ASSUME TypeOK, reply' = [reply EXCEPT !.sent = @ + 1]
    PROVE  /\ Left' = Left - 8
           /\ MaxPacket * reply'.sent = MaxPacket * reply.sent + 8
           /\ Toggle(NextPid') = NextPid
<1>1. /\ reply.req \in Request /\ reply.sent \in Nat
      /\ reply'.req = reply.req /\ reply'.sent = reply.sent + 1
  BY DEF TypeOK
<1>2. Total(reply.req) \in 0 .. 254
  BY <1>1, TotalType
<1>3. Total(reply'.req) = Total(reply.req)
  BY <1>1
<1>4. (reply.sent + 1) % 2 = 0 <=> reply.sent % 2 # 0
  BY <1>1
<1>5. QED
  BY <1>1, <1>2, <1>3, <1>4 DEF Left, MaxPacket, NextPid, Toggle

LEMMA ReplyStep == TypeOK /\ RxInv /\ BufInv /\ ReplyInv /\ [Next]_vars => ReplyInv'
<1> SUFFICES ASSUME TypeOK, RxInv, BufInv, ReplyInv, [Next]_vars PROVE ReplyInv'
  OBVIOUS
<1> USE DEF rxVars, txVars, addrVars, msgVars, histVars, mainVars, vars
<1>t. /\ si.ret \in {"poll", "app3", "reply"}
      /\ usbTxBuf \in [pid : Pid, whole : BOOLEAN, req : Request, pos : Nat]
      /\ usbMsgPtr \in [req : Request, pos : Nat]
      /\ reply \in [req : Request, sent : Nat]
      /\ usbMsgLen \in 0 .. 255 /\ wantLen \in 0 .. 8
  BY DEF TypeOK, USB_NO_MSG, MaxPacket
<1>s. UNCHANGED reply => UNCHANGED <<Left, Chunk, NextPid>>
  BY DEF Left, Chunk, NextPid
<1> DEFINE Building0 == {"copy", "arm"}
           Quiet == /\ UNCHANGED <<txVars, msgVars, acked, reply>>
                    /\ pc \notin Building0 /\ pc' \notin Building0
                    /\ Pending => Pending'
                    /\ Aborted' => Aborted
                    /\ Dispatched' => Dispatched
                    /\ pc' = "abort" => pc = "abort"
                    /\ pc' = "toggle" => usbMsgLen # USB_NO_MSG
<1>1. ASSUME Quiet PROVE ReplyInv'
  <2>1. Restarted'
    BY <1>1 DEF ReplyInv, Restarted
  <2>2. AtRest => AtRest'
    BY <1>1, <1>s DEF AtRest
  <2>3. Building'
    BY <1>1 DEF Building
  <2>4. Queued => Queued'
    BY <1>1, <1>s DEF Queued
  <2>5. QED
    BY <1>1, <2>1, <2>2, <2>3, <2>4 DEF ReplyInv
<1>2. CASE MainLoop
  <2> USE DEF InSetup, SetPcs, RxPcs
  <2>1. CASE PollRx
    <3>1. Quiet
      BY <2>1 DEF PollRx, Pending, IsSetup, Aborted, Dispatched
    <3>2. QED
      BY <3>1, <1>1
  <2>2. CASE ProcessOut
    <3>1. Quiet
      BY <2>2 DEF ProcessOut, Pending, IsSetup, Aborted, Dispatched
    <3>2. QED
      BY <3>1, <1>1
  <2>3. CASE ProcessSetup
    <3>1. pc = "rx" /\ pc' = "abort" /\ UNCHANGED <<usbRxLen, usbRxToken>> /\ IsSetup
      BY <2>3 DEF ProcessSetup
    <3>2. usbRxLen # 0
      BY <3>1 DEF RxInv
    <3>3. Pending' /\ ~Aborted'
      BY <3>1, <3>2 DEF Pending, IsSetup, Aborted
    <3>4. usbTxBuf'.pid = "DATA0"
      BY <2>3, <1>t DEF ProcessSetup
    <3>5. QED
      BY <3>1, <3>3, <3>4 DEF ReplyInv, Restarted, Dispatched
  <2>4. CASE SetupAbort
    <3>1. pc = "abort" /\ pc' = "dispatch" /\ UNCHANGED <<usbRxLen, usbRxToken, usbTxBuf>>
      BY <2>4 DEF SetupAbort
    <3>2. Pending' /\ ~Dispatched'
      BY <3>1 DEF RxInv, Pending, IsSetup, Dispatched
    <3>3. Idle(usbTxLen')
      BY <2>4, IdleFacts DEF SetupAbort
    <3>4. QED
      BY <3>1, <3>2, <3>3 DEF ReplyInv, Restarted
  <2>5. CASE \E m \in Message : SetupDispatch(m)
    <3> PICK m \in Message : SetupDispatch(m)
      BY <2>5
    <3>1. /\ pc = "dispatch" /\ UNCHANGED <<usbRxLen, usbRxToken, txVars, acked>>
          /\ (pc' = "reply") \/ (pc' = "test" /\ si'.ret = "reply")
      BY DEF SetupDispatch
    <3>2. Pending' /\ pc' \notin {"abort", "toggle"}
      BY <3>1 DEF RxInv, Pending, IsSetup
    <3>3. usbMsgPtr' = [req |-> acked, pos |-> 0]
      BY <3>1 DEF SetupDispatch, RxInv, MessageStable
    <3>4. usbTxBuf'.pid = "DATA0" /\ Idle(usbTxLen')
      BY <3>1 DEF ReplyInv, Restarted, Aborted
    <3>5. QED
      BY <3>1, <3>2, <3>3, <3>4 DEF ReplyInv, Restarted
  <2>6. CASE SetupReply
    <3>1. /\ pc = "reply" /\ pc' = "free"
          /\ UNCHANGED <<txVars, usbMsgPtr, reply, acked>>
          /\ usbMsgLen' = Total(Message0)
      BY <2>6 DEF SetupReply
    <3>2. Message0 = acked /\ acked \in Request /\ reply = [req |-> acked, sent |-> 0]
      BY <3>1 DEF RxInv, MessageStable
    <3>3. usbMsgLen' = Left /\ MaxPacket * reply.sent = 0 /\ NextPid = "DATA1"
      BY <3>1, <3>2, TotalType DEF Left, MaxPacket, NextPid
    <3>4. /\ usbTxBuf.pid = "DATA0" /\ Idle(usbTxLen)
          /\ usbMsgPtr = [req |-> acked, pos |-> 0]
      BY <3>1 DEF ReplyInv, Restarted, Aborted, Dispatched
    <3>5. usbMsgPtr'.req = reply'.req
      BY <3>1, <3>2, <3>4
    <3>6. AtRest'
      BY <3>1, <3>3, <3>4, <1>s DEF AtRest, Toggle
    <3>7. QED
      BY <3>1, <3>4, <3>5, <3>6
      DEF ReplyInv, Restarted, Aborted, Dispatched, Building, Queued
  <2>7. CASE FreeRx
    <3>1. Quiet
      BY <2>7 DEF FreeRx, Pending, Aborted, Dispatched
    <3>2. QED
      BY <3>1, <1>1
  <2>8. CASE PollTx
    <3>1. Quiet
      BY <2>8 DEF PollTx, Pending, IsSetup, Aborted, Dispatched
    <3>2. QED
      BY <3>1, <1>1
  <2>9. CASE BuildToggle
    <3>1. /\ pc = "toggle" /\ pc' = "copy"
          /\ UNCHANGED <<usbRxLen, usbRxToken, usbTxLen, usbMsgPtr, reply>>
          /\ wantLen' = Smaller(usbMsgLen, MaxPacket) /\ usbMsgLen' = usbMsgLen - wantLen'
      BY <2>9 DEF BuildToggle
    <3>2. usbTxBuf'.pid = Toggle(usbTxBuf.pid)
      BY <2>9, <1>t DEF BuildToggle
    <3>3. Idle(usbTxLen) /\ usbMsgLen # USB_NO_MSG
      BY <3>1 DEF BufInv, ReplyInv
    <3>4. Restarted'
      BY <3>1 DEF Restarted, Aborted, Dispatched
    <3>5. ASSUME ~Pending' PROVE usbMsgPtr'.req = reply'.req /\ Building'
      <4>1. ~Pending
        BY <3>1, <3>5 DEF Pending, IsSetup
      <4>2. /\ usbMsgPtr.req = reply.req
            /\ usbMsgLen = Left
            /\ usbMsgPtr.pos = MaxPacket * reply.sent
            /\ usbTxBuf.pid = Toggle(NextPid)
        BY <4>1, <3>1, <3>3 DEF ReplyInv, AtRest
      <4>3. Left >= 0 /\ wantLen' = Chunk
        BY <3>1, <4>2, <1>t DEF Smaller, Chunk, MaxPacket
      <4>4. usbTxBuf'.pid = NextPid
        BY <3>2, <4>2, LeftType, ToggleFacts
      <4>5. QED
        BY <3>1, <4>2, <4>3, <4>4, <1>s DEF Building
    <3>6. QED
      BY <3>1, <3>3, <3>4, <3>5 DEF ReplyInv, AtRest, Queued
  <2>10. CASE BuildCopy
    <3>1. /\ pc = "copy" /\ pc' = "arm"
          /\ UNCHANGED <<usbRxLen, usbRxToken, usbTxLen, usbMsgLen, wantLen, reply>>
      BY <2>10 DEF BuildCopy
    <3>2. /\ usbTxBuf'.pid = usbTxBuf.pid
          /\ usbTxBuf'.req = usbMsgPtr.req /\ usbTxBuf'.pos = usbMsgPtr.pos
          /\ usbMsgPtr'.req = usbMsgPtr.req /\ usbMsgPtr'.pos = usbMsgPtr.pos + wantLen
      BY <2>10, <1>t DEF BuildCopy
    <3>3. Idle(usbTxLen)
      BY <3>1 DEF BufInv
    <3>4. Restarted'
      BY <3>1 DEF Restarted, Aborted, Dispatched
    <3>5. ASSUME ~Pending' PROVE usbMsgPtr'.req = reply'.req /\ Building'
      <4>1. ~Pending
        BY <3>1, <3>5 DEF Pending, IsSetup
      <4>2. usbMsgPtr.req = reply.req /\ Building
        BY <4>1 DEF ReplyInv
      <4>3. QED
        BY <3>1, <3>2, <4>2, <1>s DEF Building
    <3>6. QED
      BY <3>1, <3>3, <3>4, <3>5 DEF ReplyInv, AtRest, Queued
  <2>11. CASE BuildArm
    <3>1. /\ pc = "arm" /\ pc' = "line"
          /\ UNCHANGED <<usbRxLen, usbRxToken, usbTxBuf, usbMsgPtr, wantLen, reply>>
          /\ usbTxLen' = wantLen + 4
          /\ usbMsgLen' = IF wantLen < MaxPacket THEN USB_NO_MSG ELSE usbMsgLen
      BY <2>11 DEF BuildArm
    <3>2. Restarted'
      BY <3>1 DEF Restarted, Aborted, Dispatched
    <3>3. ~Idle(usbTxLen')
      BY <3>1, <1>t, IdleFacts
    <3>4. ASSUME ~Pending' PROVE usbMsgPtr'.req = reply'.req /\ Queued'
      <4>1. ~Pending
        BY <3>1, <3>4 DEF Pending, IsSetup
      <4>2. usbMsgPtr.req = reply.req /\ Building
        BY <4>1 DEF ReplyInv
      <4>3. QED
        BY <3>1, <4>2, <1>s, <1>t DEF Building, Queued
    <3>5. QED
      BY <3>1, <3>2, <3>3, <3>4 DEF ReplyInv, AtRest, Building
  <2>12. CASE LineIdle \/ LineReset
    <3>1. Quiet
      BY <2>12 DEF LineIdle, LineReset, Pending, IsSetup, Aborted, Dispatched
    <3>2. QED
      BY <3>1, <1>1
  <2>13. CASE \E e \in Interrupt : AppSkip(e) \/ \E m \in Message : AppCall(e, m)
    <3>1. Quiet
      BY <2>13 DEF AppSkip, AppCall, Pending, IsSetup, Aborted, Dispatched
    <3>2. QED
      BY <3>1, <1>1
  <2>14. CASE SetInterrupt
    <3>1. Quiet
      BY <2>14, <1>t
      DEF SetInterrupt, SetIntTest, SetIntFlip, SetIntCancel, SetIntFill, SetIntEnable,
          Pending, IsSetup, Aborted, Dispatched
    <3>2. QED
      BY <3>1, <1>1
  <2>15. QED
    BY <1>2, <2>1, <2>2, <2>3, <2>4, <2>5, <2>6, <2>7, <2>8, <2>9, <2>10, <2>11, <2>12,
       <2>13, <2>14
    DEF MainLoop, ProcessRx, BuildTxBlock
<1>3. CASE Packet
  <2> DEFINE Unstored == UNCHANGED <<usbRxLen, usbRxToken, txVars, msgVars, si, pc,
                                     acked, reply>>
  <2>1. ASSUME Unstored PROVE ReplyInv'
    <3>1. UNCHANGED <<Pending, Aborted, Dispatched, Left, Chunk, NextPid>>
      BY <2>1, <1>s DEF Pending, IsSetup, Aborted, Dispatched, InSetup
    <3>2. UNCHANGED Restarted
      BY <2>1, <3>1 DEF Restarted
    <3>3. UNCHANGED <<AtRest, Building, Queued>>
      BY <2>1, <3>1 DEF AtRest, Building, Queued
    <3>4. QED
      BY <2>1, <3>1, <3>2, <3>3 DEF ReplyInv
  <2>2. ASSUME NEW pid, NEW ep, HandleSetupOrOut(pid, ep) PROVE ReplyInv'
    BY <2>2, <2>1 DEF HandleSetupOrOut
  <2>3. CASE IgnorePacket
    BY <2>3, <2>1 DEF IgnorePacket
  <2>4. ASSUME NEW d \in Data, HandleDataUnstored(d) PROVE ReplyInv'
    BY <2>4, <2>1 DEF HandleDataUnstored
  <2>5. ASSUME NEW d \in Data, HandleDataStored(d), HandleData(d) PROVE ReplyInv'
    <3>1. /\ usbRxLen = 0 /\ UNCHANGED <<txVars, msgVars, si, pc>>
          /\ usbRxLen' = Size(d) + 3 /\ usbRxToken' = usbCurrentTok
      BY <2>5 DEF HandleDataStored
    <3>2. ~InSetup /\ pc \notin RxPcs /\ ~InSetup' /\ pc' \notin RxPcs
      BY <3>1 DEF RxInv, InSetup
    <3>3. ~Pending /\ ~Aborted' /\ ~Dispatched'
      BY <3>1, <3>2 DEF Pending, Aborted, Dispatched
    <3>4. Restarted' /\ (pc' = "toggle" => usbMsgLen' # USB_NO_MSG)
      BY <3>1, <3>2, <3>3 DEF Restarted, ReplyInv, RxPcs
    <3>5. CASE UNCHANGED reply
      <4>1. UNCHANGED <<AtRest, Building, Queued>>
        BY <3>1, <3>5, <1>s DEF AtRest, Building, Queued
      <4>2. QED
        BY <3>1, <3>3, <3>4, <3>5, <4>1 DEF ReplyInv
    <3>6. CASE ~UNCHANGED reply
      <4>1. usbCurrentTok = USBPID_SETUP /\ d \in Request
        BY <2>5, <3>6 DEF HandleDataStored
      <4>2. Size(d) = 8
        BY <4>1, SizeType
      <4>3. Pending'
        BY <3>1, <3>2, <4>1, <4>2 DEF Pending, IsSetup, SetupSize, RxPcs
      <4>4. QED
        BY <3>4, <4>3 DEF ReplyInv
    <3>7. QED
      BY <3>5, <3>6
  <2>6. ASSUME NEW len, HandleInNak(len) PROVE ReplyInv'
    BY <2>6, <2>1 DEF HandleInNak
  <2>7. CASE HandleIn0
    <3>1. usbRxLen = 0 /\ ~Idle(usbTxLen)
      BY <2>7, SendsWhenFree DEF HandleIn0
    <3>2. /\ UNCHANGED <<usbRxLen, usbTxBuf, msgVars, si, pc>>
          /\ Idle(usbTxLen')
          /\ reply' = [reply EXCEPT !.sent = @ + 1]
      BY <2>7, IdleFacts DEF HandleIn0
    <3>3. ~Pending /\ ~InSetup /\ pc \notin {"toggle", "copy", "arm", "abort"}
      BY <3>1 DEF Pending, RxInv, InSetup, BufInv
    <3>4. usbMsgPtr.req = reply.req /\ Queued
      BY <3>3 DEF ReplyInv
    <3>5. Restarted'
      BY <3>2, <3>3 DEF Restarted, Aborted, Dispatched, InSetup
    <3>6. AtRest'
      <4>1. CASE Chunk < MaxPacket
        BY <3>1, <3>2, <3>4, <4>1 DEF AtRest, Queued
      <4>2. CASE ~(Chunk < MaxPacket)
        <5>1. Chunk = 8
          BY <4>2, LeftType DEF MaxPacket
        <5>2. usbMsgLen = Left - 8 /\ usbMsgPtr.pos = MaxPacket * reply.sent + 8
          BY <3>1, <3>4, <4>2, <5>1 DEF Queued
        <5>3. usbTxBuf.pid = NextPid
          BY <3>1, <3>4 DEF Queued
        <5>4. /\ Left' = Left - 8
              /\ MaxPacket * reply'.sent = MaxPacket * reply.sent + 8
              /\ Toggle(NextPid') = NextPid
          BY <3>2, Advance
        <5>5. QED
          BY <3>2, <5>2, <5>3, <5>4 DEF AtRest
      <4>3. QED
        BY <4>1, <4>2
    <3>7. usbMsgPtr'.req = reply'.req
      BY <3>2, <3>4, <1>t
    <3>8. QED
      BY <3>2, <3>3, <3>5, <3>6, <3>7 DEF ReplyInv, Building, Queued
  <2>8. ASSUME NEW e, HandleIn13(e) PROVE ReplyInv'
    BY <2>8, <2>1 DEF HandleIn13
  <2>9. QED
    BY <1>3, <2>2, <2>3, <2>4, <2>5, <2>6, <2>7, <2>8 DEF Packet, HandleData, HandleIn
<1>4. CASE UNCHANGED vars
  <2>1. UNCHANGED <<Pending, Aborted, Dispatched, Left, Chunk, NextPid>>
    BY <1>4, <1>s DEF Pending, IsSetup, Aborted, Dispatched, InSetup
  <2>2. UNCHANGED <<Restarted, AtRest, Building, Queued>>
    BY <1>4, <2>1 DEF Restarted, AtRest, Building, Queued
  <2>3. QED
    BY <1>4, <2>1, <2>2 DEF ReplyInv
<1>5. QED
  BY <1>2, <1>3, <1>4 DEF Next

\* Whatever the host does, an aborted transfer included: a data packet sent on
\* endpoint 0 is the next one of the reply to the SETUP acknowledged last.
THEOREM RepliesInOrder == Spec => []ReplyInOrder
<1> DEFINE Inv == TypeOK /\ RxInv /\ BufInv /\ ReplyInv
<1>1. Init => Inv
  <2>1. Init => BufInv /\ ReplyInv
    BY IdleFacts
    DEF Init, BufInv, ReplyInv, Restarted, Aborted, Dispatched, InSetup, SetPcs, AtRest,
        Building, Queued
  <2>2. QED
    BY <2>1, InitRx
<1>2. Inv /\ [Next]_vars => Inv'
  BY TypeStep, RxStep, BufStep, ReplyStep
<1>3. Inv => ReplyInOrder
  <2> SUFFICES ASSUME Inv, CanSend(usbTxLen)
               PROVE  /\ usbTxBuf.req = reply.req
                      /\ usbTxBuf.pos = MaxPacket * reply.sent
                      /\ usbTxBuf.pid = NextPid
                      /\ usbTxLen = 4 + Chunk
                      /\ Left = Total(reply.req) - usbTxBuf.pos
    BY DEF ReplyInOrder, NextPid, Chunk
  <2>1. usbRxLen = 0 /\ ~Idle(usbTxLen)
    BY SendsWhenFree
  <2>2. Queued
    BY <2>1 DEF ReplyInv, Pending
  <2>3. QED
    BY <2>1, <2>2 DEF Queued, Left
<1>4. QED
  BY <1>1, <1>2, <1>3, PTL DEF Spec

-----------------------------------------------------------------------------
(* The driver on a bus with one conforming host: what the host holds. *)

Stages == {"none", "setup", "in", "statusIn", "statusOut"}
Buses == {"free", "ack"} \cup DataDue \cup InReset

HostType ==
    /\ hostAddr \in Address
    /\ ctl \in [stage : Stages, req : Request, bytes : Nat, pid : Pid]
    /\ bus \in Buses
    /\ outTag \in Tags /\ dueTag \in Tags

(* The data packet follows its token: the device is still waiting for it. *)

TokenInv ==
    /\ bus = "setup" => Stage("setup") /\ (deaf \/ usbCurrentTok = USBPID_SETUP)
    /\ bus = "status" => Stage("statusOut")
    /\ bus = "out" => deaf \/ usbCurrentTok \in OutEp

(* Once its SETUP was acknowledged, the transfer is the one the device is      *)
(* answering, and the host is as far in it as the device.                      *)

Answered == {"in", "statusIn", "statusOut"}

CtlInv ==
    /\ Stage("setup") => ctl.bytes = 0 /\ ctl.pid = "DATA1"
    /\ ctl.stage \in Answered => reply.req = ctl.req
    /\ Stage("in") => ctl.bytes = MaxPacket * reply.sent /\ ctl.pid = NextPid
    /\ Stage("statusIn") => reply.sent = 0 /\ WLength[ctl.req] = 0
    /\ Stage("statusOut") => ctl.bytes = Total(ctl.req)
    /\ ctl.stage \in {"in", "statusOut"} => WLength[ctl.req] > 0

(* The address.  It is on its way from the moment the SET_ADDRESS is processed *)
(* until its status stage; no interrupt endpoint is polled meanwhile.  A       *)
(* SET_ADDRESS that waits when a bus reset begins is processed before the main *)
(* loop sees the reset for the second time.                                    *)

Undispatched == Pending /\ ~Dispatched

SettingAddress == Stage("statusIn") /\ Effect[ctl.req] = "address"

AddrInv ==
    /\ ~Stage("none") /\ Effect[ctl.req] = "address" => hostAddr = 0
    /\ bus \notin InReset =>
          /\ hostAddr = usbDeviceAddr
          /\ usbNewDeviceAddr = IF SettingAddress /\ ~Undispatched THEN NewAddress[ctl.req]
                                ELSE hostAddr
          /\ Undispatched /\ Effect[acked] = "address" => SettingAddress
    /\ bus \in InReset => hostAddr = 0 /\ ctl.stage \in {"none", "setup"}
    /\ bus = "again" /\ Undispatched => pc \notin {"tx", "toggle", "copy", "arm", "line"}
    /\ bus = "seen" => ~Undispatched /\ usbDeviceAddr = 0 /\ usbNewDeviceAddr = 0

(* An OUT message, from its ACK until it is handed to the firmware. *)

OutWaits == usbRxLen # 0 /\ usbRxToken \in OutEp /\ pc # "free"

OutInv ==
    IF OutWaits THEN acked = dueTag /\ outTag = OtherTag(dueTag) ELSE outTag = dueTag

DriverInv == TypeOK /\ RxInv /\ BufInv /\ ReplyInv
HostInv == HostType /\ TokenInv /\ CtlInv /\ AddrInv /\ OutInv

-----------------------------------------------------------------------------
(* Every behaviour on this bus is one of the driver on an open bus: what is    *)
(* proved of UsbDriver holds here.                                             *)

LEMMA StepIsDriver == HostType /\ [BusNext]_busVars => [Next]_vars
<1> SUFFICES ASSUME HostType, [BusNext]_busVars PROVE [Next]_vars
  OBVIOUS
<1>1. ctl.req \in Data /\ outTag \in Data /\ Empty \in Data
  BY BusAssumption DEF HostType, Data
<1>2. ASSUME NEW pid \in {USBPID_SETUP, USBPID_OUT}, NEW ep \in {0} \cup OutEp,
             Token(pid, ep)
      PROVE  [Next]_vars
  BY <1>2 DEF Token, Heard, Unheard, Next, Packet
<1>3. ASSUME NEW d \in Data, DataPacket(d)
      PROVE  [Next]_vars
  BY <1>3 DEF DataPacket, Heard, Unheard, Next, Packet
<1>4. ASSUME NEW ep \in {0} \cup InEp, InToken(ep)
      PROVE  [Next]_vars
  BY <1>4 DEF InToken, Heard, Unheard, Next, Packet
<1>5. CASE Transfer
  BY <1>5, <1>1, <1>2, <1>3, <1>4
  DEF Transfer, SetupToken, SetupData, ReadData, StatusOutToken, StatusOutData, StatusIn
<1>6. CASE HostAck
  BY <1>6 DEF HostAck, Heard, Unheard, Next, Packet
<1>7. CASE OutToken \/ OutMessage
  BY <1>7, <1>1, <1>2, <1>3 DEF OutToken, OutMessage
<1>8. CASE \E ep \in InEp : PollInterrupt(ep)
  BY <1>8, <1>4 DEF PollInterrupt
<1>9. CASE Abort \/ Reset \/ ResetEnd \/ FlashBegin \/ \E r \in Request : Start(r)
  BY <1>9 DEF Abort, Reset, ResetEnd, FlashBegin, Start
<1>10. CASE DeviceStep
  <2>1. Undisturbed => MainLoop
    BY DEF Undisturbed, MainLoop, ProcessRx
  <2>2. TakeOut \/ Line => MainLoop
    BY DEF TakeOut, Line, MainLoop, ProcessRx
  <2>3. FlashEnd => UNCHANGED vars
    BY DEF FlashEnd
  <2>4. QED
    BY <1>10, <2>1, <2>2, <2>3 DEF DeviceStep, Next
<1>11. CASE UNCHANGED busVars
  BY <1>11 DEF busVars
<1>12. QED
  BY <1>5, <1>6, <1>7, <1>8, <1>9, <1>10, <1>11 DEF BusNext

-----------------------------------------------------------------------------
(* What a packet changes of the state the host invariants are about. *)

Calm == UNCHANGED <<usbRxLen, usbRxToken, usbNewDeviceAddr, si, pc, acked>>

LEMMA CalmFacts ==
    ASSUME Calm
    PROVE  /\ Undispatched' <=> Undispatched
           /\ OutWaits' <=> OutWaits
BY DEF Calm, Undispatched, Pending, IsSetup, Dispatched, Aborted, InSetup, OutWaits

LEMMA TokenFacts ==
    ASSUME hostAddr = usbDeviceAddr, NEW pid, NEW ep, Token(pid, ep)
    PROVE  /\ Calm /\ UNCHANGED <<usbDeviceAddr, reply>>
           /\ deaf \/ usbCurrentTok' = IF ep = 0 THEN pid ELSE ep
BY DEF Token, Heard, Unheard, HandleSetupOrOut, Calm, vars, rxVars, addrVars, histVars,
       mainVars

LEMMA AckFacts ==
    ASSUME Heard(IgnorePacket) \/ Unheard
    PROVE  Calm /\ UNCHANGED <<usbDeviceAddr, reply>>
BY DEF Heard, Unheard, IgnorePacket, Calm, vars, rxVars, addrVars, histVars, mainVars

LEMMA DataUnstoredFacts ==
    ASSUME NEW d, DataPacket(d), ~Accepts \/ Size(d) = 0
    PROVE  Calm /\ UNCHANGED <<usbDeviceAddr, reply>>
BY DEF DataPacket, Accepts, Heard, Unheard, HandleData, HandleDataUnstored,
       HandleDataStored, Calm, vars, rxVars, addrVars, histVars, mainVars

LEMMA DataStoredFacts ==
    ASSUME NEW d, DataPacket(d), Accepts, Size(d) # 0
    PROVE  HandleDataStored(d) /\ ~deaf
BY DEF DataPacket, Accepts, Heard, Unheard, HandleData, HandleDataUnstored

LEMMA InFacts ==
    ASSUME hostAddr = usbDeviceAddr, NEW ep, InToken(ep)
    PROVE  /\ Calm
           /\ usbDeviceAddr' \in {usbDeviceAddr, usbNewDeviceAddr}
           /\ ep # 0 => UNCHANGED reply
           /\ ep = 0 => IF Sends(usbTxLen)
                        THEN /\ reply' = [reply EXCEPT !.sent = @ + 1]
                             /\ usbDeviceAddr' = usbNewDeviceAddr
                        ELSE UNCHANGED <<usbDeviceAddr, reply>>
<1>1. CASE Unheard
  BY <1>1 DEF Unheard, Sends, Calm, vars, rxVars, addrVars, histVars
<1>2. CASE ~deaf /\ HandleIn(ep)
  BY <1>2 DEF HandleIn, HandleInNak, HandleIn0, HandleIn13, Sends, Calm, addrVars, histVars,
              mainVars
<1>3. QED
  BY <1>1, <1>2 DEF InToken, Heard

-----------------------------------------------------------------------------
(* What the main loop changes of it.  Only SetupDispatch takes a request up. *)

Dispatching == \E m \in Message : SetupDispatch(m)

Quiet == UNCHANGED <<usbCurrentTok, usbDeviceAddr, acked, reply>>

LEMMA DeviceFacts ==
    ASSUME TypeOK, RxInv, Undisturbed \/ ProcessOut \/ LineIdle
    PROVE  /\ Quiet
           /\ Dispatching => Undispatched /\ ~Undispatched'
           /\ ~Dispatching => UNCHANGED usbNewDeviceAddr /\ (Undispatched' <=> Undispatched)
           /\ ~ProcessOut => (OutWaits' <=> OutWaits)
           /\ Undispatched /\ pc \notin {"tx", "toggle", "copy", "arm", "line"} =>
                 ~Undispatched' \/ pc' \notin {"tx", "toggle", "copy", "arm", "line"}
<1> USE DEF rxVars, txVars, addrVars, msgVars, histVars
<1>t. /\ si.ret \in {"poll", "app3", "reply"}
      /\ usbRxLen \in {0} \cup 4 .. 11
      /\ USBPID_SETUP \notin OutEp
  BY EndpointAssumption DEF TypeOK, MaxPacket, USBPID_SETUP
<1>r. /\ pc \in RxPcs \/ InSetup => usbRxLen # 0
      /\ InSetup => IsSetup
  BY DEF RxInv
<1> USE DEF Quiet, Undispatched, Pending, Dispatched, Aborted, InSetup, IsSetup, RxPcs, SetPcs,
            OutWaits
<1>1. CASE PollRx
  <2>1. /\ pc = "poll" /\ pc' \in {"rx", "tx"}
        /\ pc' = "tx" => usbRxLen = 0
        /\ UNCHANGED <<rxVars, addrVars, si, acked, reply>>
    BY <1>1, <1>t DEF PollRx
  <2>2. ~Dispatching /\ ~ProcessOut
    BY <2>1 DEF SetupDispatch, Dispatching, ProcessOut
  <2>3. Undispatched' <=> Undispatched
    BY <2>1
  <2>4. OutWaits' <=> OutWaits
    BY <2>1
  <2>5. QED
    BY <2>1, <2>2, <2>3, <2>4
<1>2. CASE ProcessOut
  BY <1>2, <1>t, <1>r DEF ProcessOut, SetupDispatch, Dispatching
<1>3. CASE ProcessSetup \/ SetupAbort
  BY <1>3, <1>t, <1>r DEF ProcessSetup, SetupAbort, SetupDispatch, Dispatching, ProcessOut
<1>4. CASE Dispatching
  <2> PICK m \in Message : SetupDispatch(m)
    BY <1>4 DEF Dispatching
  <2>1. /\ pc = "dispatch" /\ Quiet /\ UNCHANGED <<usbRxLen, usbRxToken>>
        /\ pc' = "reply" \/ (pc' = "test" /\ si'.ret = "reply")
    BY DEF SetupDispatch
  <2>2. Undispatched /\ ~Undispatched' /\ ~OutWaits' /\ ~OutWaits
    BY <2>1, <1>r, <1>t
  <2>3. QED
    BY <1>4, <2>1, <2>2 DEF ProcessOut
<1>5. CASE SetupReply
  BY <1>5, <1>t, <1>r DEF SetupReply, SetupDispatch, Dispatching, ProcessOut
<1>6. CASE FreeRx
  BY <1>6, <1>t DEF FreeRx, SetupDispatch, Dispatching, ProcessOut
<1>7. CASE PollTx \/ BuildTxBlock
  BY <1>7, <1>t
  DEF PollTx, BuildTxBlock, BuildToggle, BuildCopy, BuildArm, SetupDispatch, Dispatching,
      ProcessOut
<1>8. CASE LineIdle
  BY <1>8, <1>t DEF LineIdle, SetupDispatch, Dispatching, ProcessOut
<1>9. CASE \E e \in Interrupt : AppSkip(e) \/ \E m \in Message : AppCall(e, m)
  BY <1>9, <1>t DEF AppSkip, AppCall, SetupDispatch, Dispatching, ProcessOut
<1>10. CASE SetInterrupt
  BY <1>10, <1>t, <1>r
  DEF SetInterrupt, SetIntTest, SetIntFlip, SetIntCancel, SetIntFill, SetIntEnable,
      SetupDispatch, Dispatching, ProcessOut
<1>11. QED
  BY <1>1, <1>2, <1>3, <1>4, <1>5, <1>6, <1>7, <1>8, <1>9, <1>10 DEF Undisturbed, Dispatching

-----------------------------------------------------------------------------
(* The host's steps, and its packets, one by one. *)

LEMMA TagFacts == \A d \in Tags : /\ OtherTag(d) \in Tags
                                 /\ d \in Data /\ d \notin Request /\ Size(d) \in 1 .. 8
<1> SUFFICES ASSUME NEW d \in Tags
             PROVE  /\ OtherTag(d) \in Tags
                    /\ d \in Data /\ d \notin Request /\ Size(d) \in 1 .. 8
  OBVIOUS
<1>1. \E t \in Tags : t # d
  BY BusAssumption
<1>2. OtherTag(d) \in Tags
  BY <1>1 DEF OtherTag
<1>3. d \in Payload /\ d \notin Request /\ PayloadSize[d] > 0
  BY BusAssumption, RequestAssumption
<1>4. QED
  BY <1>2, <1>3, RequestAssumption DEF Data, Size, MaxPacket

\* A packet that moves no message and ends no transaction.
LEMMA CalmStep ==
    ASSUME TypeOK, HostInv, Calm, UNCHANGED <<usbDeviceAddr, reply, hostAddr, ctl, outTag, dueTag>>,
           bus \notin InReset, bus' \in Buses \ InReset, TokenInv'
    PROVE  HostInv'
<1> USE DEF HostInv
<1>1. /\ Undispatched' <=> Undispatched
      /\ OutWaits' <=> OutWaits
      /\ UNCHANGED <<acked, usbNewDeviceAddr>>
  BY CalmFacts DEF Calm
<1>2. HostType'
  BY DEF HostType
<1>3. CtlInv'
  BY DEF CtlInv, NextPid, Stage
<1>4. AddrInv'
  BY <1>1 DEF AddrInv, Stage, SettingAddress, InReset
<1>5. OutInv'
  BY <1>1 DEF OutInv
<1>6. QED
  BY <1>2, <1>3, <1>4, <1>5

LEMMA ResetBuses == /\ "free" \notin InReset /\ "ack" \notin InReset
                    /\ \A b \in DataDue : b \notin InReset
                    /\ {"free", "ack"} \cup DataDue \subseteq Buses \ InReset
BY DEF InReset, DataDue, Buses

LEMMA TokenSteps ==
    ASSUME TypeOK, HostInv, SetupToken \/ StatusOutToken \/ OutToken
    PROVE  HostInv'
<1>0. bus = "free" /\ hostAddr = usbDeviceAddr
  BY DEF SetupToken, StatusOutToken, OutToken, HostInv, AddrInv, InReset
<1>1. CASE SetupToken
  <2>1. Calm /\ UNCHANGED <<usbDeviceAddr, reply>> /\ (deaf \/ usbCurrentTok' = USBPID_SETUP)
    BY <1>0, <1>1, TokenFacts DEF SetupToken
  <2>2. bus' = "setup" /\ Stage("setup") /\ UNCHANGED <<hostAddr, ctl, outTag, dueTag, deaf>>
    BY <1>1 DEF SetupToken, Keep
  <2>3. TokenInv'
    BY <2>1, <2>2 DEF TokenInv, Stage
  <2>4. QED
    BY <1>0, <2>1, <2>2, <2>3, CalmStep, ResetBuses DEF DataDue
<1>2. CASE StatusOutToken
  <2>1. Calm /\ UNCHANGED <<usbDeviceAddr, reply>>
    BY <1>0, <1>2, TokenFacts DEF StatusOutToken
  <2>2. /\ bus' = "status" /\ Stage("statusOut")
        /\ UNCHANGED <<hostAddr, ctl, outTag, dueTag, deaf>>
    BY <1>2 DEF StatusOutToken, Keep
  <2>3. TokenInv'
    BY <2>2 DEF TokenInv, Stage
  <2>4. QED
    BY <1>0, <2>1, <2>2, <2>3, CalmStep, ResetBuses DEF DataDue
<1>3. CASE OutToken
  <2> PICK ep \in OutEp : Token(USBPID_OUT, ep)
    BY <1>3 DEF OutToken
  <2>0. ep # 0
    BY EndpointAssumption
  <2>1. Calm /\ UNCHANGED <<usbDeviceAddr, reply>> /\ (deaf \/ usbCurrentTok' = ep)
    BY <1>0, <2>0, TokenFacts
  <2>2. bus' = "out" /\ UNCHANGED <<hostAddr, ctl, outTag, dueTag, deaf>>
    BY <1>3 DEF OutToken, Keep
  <2>3. TokenInv'
    BY <2>1, <2>2 DEF TokenInv, Stage
  <2>4. QED
    BY <1>0, <2>1, <2>2, <2>3, CalmStep, ResetBuses DEF DataDue
<1>4. QED
  BY <1>1, <1>2, <1>3

LEMMA AckStep == ASSUME TypeOK, HostInv, HostAck PROVE HostInv'
<1>1. Calm /\ UNCHANGED <<usbDeviceAddr, reply>>
  BY AckFacts DEF HostAck
<1>2. bus = "ack" /\ bus' = "free" /\ UNCHANGED <<hostAddr, ctl, outTag, dueTag, deaf>>
  BY DEF HostAck, Keep
<1>3. TokenInv'
  BY <1>2 DEF TokenInv
<1>4. QED
  BY <1>1, <1>2, <1>3, CalmStep, ResetBuses

\* Nothing is waiting when a message is stored.
LEMMA NothingWaits ==
    ASSUME TypeOK, RxInv, usbRxLen = 0
    PROVE  ~Undispatched /\ ~OutWaits /\ pc \notin RxPcs /\ ~InSetup
BY DEF RxInv, Undispatched, Pending, OutWaits

LEMMA SetupDataStep == ASSUME TypeOK, RxInv, HostInv, SetupData PROVE HostInv'
<1> USE DEF HostInv
<1>0. /\ bus = "setup" /\ bus' = "free" /\ Stage("setup")
      /\ UNCHANGED <<hostAddr, outTag, dueTag, deaf>>
      /\ DataPacket(ctl.req) /\ ctl.req \in Request
      /\ ctl \in [stage : Stages, req : Request, bytes : Nat, pid : Pid]
  BY DEF SetupData, TokenInv, Keep, HostType
<1>1. TokenInv'
  BY <1>0 DEF TokenInv
<1>2. CASE ~Accepts
  <2>1. Calm /\ UNCHANGED <<usbDeviceAddr, reply>>
    BY <1>0, <1>2, DataUnstoredFacts
  <2>2. UNCHANGED ctl
    BY <1>2 DEF SetupData
  <2>3. QED
    BY <1>0, <1>1, <2>1, <2>2, CalmStep, ResetBuses DEF DataDue
<1>3. CASE Accepts
  <2>1. Size(ctl.req) = 8
    BY <1>0, SizeType DEF Data
  <2>2. HandleDataStored(ctl.req) /\ ~deaf
    BY <1>0, <1>3, <2>1, DataStoredFacts
  <2>3. /\ usbRxLen = 0 /\ usbRxLen' = 11
        /\ usbRxToken' = USBPID_SETUP
        /\ acked' = ctl.req /\ reply' = [req |-> ctl.req, sent |-> 0]
        /\ UNCHANGED <<usbDeviceAddr, usbNewDeviceAddr, pc, si>>
    BY <1>0, <2>1, <2>2 DEF HandleDataStored, TokenInv, addrVars, mainVars
  <2>4. ctl' = [ctl EXCEPT !.stage = IF WLength[ctl.req] > 0 THEN "in" ELSE "statusIn"]
    BY <1>3 DEF SetupData
  <2>5. /\ ctl'.stage = (IF WLength[ctl.req] > 0 THEN "in" ELSE "statusIn")
        /\ ctl'.req = ctl.req /\ ctl'.bytes = 0 /\ ctl'.pid = "DATA1"
        /\ ctl' \in [stage : Stages, req : Request, bytes : Nat, pid : Pid]
    BY <1>0, <2>4 DEF CtlInv, Stages
  <2>6. ~OutWaits /\ ~OutWaits' /\ Undispatched'
    <3>1. ~OutWaits /\ pc \notin RxPcs /\ ~InSetup
      BY <2>3, NothingWaits
    <3>2. ~OutWaits'
      BY <2>3, EndpointAssumption DEF OutWaits, USBPID_SETUP
    <3>3. Undispatched'
      BY <2>3, <3>1
      DEF Undispatched, Pending, Dispatched, Aborted, InSetup, IsSetup, SetupSize, RxPcs
    <3>4. QED
      BY <3>1, <3>2, <3>3
  <2>7. HostType'
    BY <1>0, <2>5 DEF HostType, Buses
  <2>8. CtlInv'
    <3>1. NextPid' = "DATA1" /\ MaxPacket * reply'.sent = 0 /\ reply'.req = ctl.req
      BY <2>3 DEF NextPid, MaxPacket
    <3>2. reply'.sent = 0 /\ WLength[ctl.req] \in Nat
      BY <1>0, <2>3, RequestAssumption
    <3>3. QED
      BY <2>5, <3>1, <3>2 DEF CtlInv, Stage, Answered
  <2>9. AddrInv'
    <3>1. Effect[ctl.req] = "address" => ctl'.stage = "statusIn"
      BY <1>0, <2>5, BusAssumption
    <3>2. hostAddr = usbDeviceAddr /\ usbNewDeviceAddr = hostAddr
      BY <1>0 DEF AddrInv, SettingAddress, InReset, Stage
    <3>3. Effect[ctl.req] = "address" => hostAddr = 0
      BY <1>0 DEF AddrInv, Stage
    <3>4. QED
      BY <1>0, <2>3, <2>5, <2>6, <3>1, <3>2, <3>3 DEF AddrInv, SettingAddress, Stage, InReset
  <2>10. OutInv'
    BY <1>0, <2>6 DEF OutInv
  <2>11. QED
    BY <1>1, <2>7, <2>8, <2>9, <2>10
<1>4. QED
  BY <1>2, <1>3

LEMMA StatusOutDataStep == ASSUME TypeOK, RxInv, HostInv, StatusOutData PROVE HostInv'
<1> USE DEF HostInv
<1>1. Size(Empty) = 0
  BY BusAssumption, RequestAssumption DEF Size
<1>2. Calm /\ UNCHANGED <<usbDeviceAddr, reply>>
  BY <1>1, DataUnstoredFacts DEF StatusOutData
<1>3. /\ bus = "status" /\ bus' = "free" /\ Stage("statusOut")
      /\ UNCHANGED <<hostAddr, outTag, dueTag, deaf>>
      /\ ctl' = NoTransfer \/ ctl' = ctl
  BY DEF StatusOutData, TokenInv, Keep
<1>4. TokenInv'
  BY <1>3 DEF TokenInv
<1>5. CASE ctl' = ctl
  BY <1>2, <1>3, <1>4, <1>5, CalmStep, ResetBuses DEF DataDue
<1>6. CASE ctl' = NoTransfer
  <2>1. ctl' \in [stage : Stages, req : Request, bytes : Nat, pid : Pid] /\ Stage("none")'
    BY <1>6, RequestAssumption DEF NoTransfer, Stages, Pid, Stage
  <2>2. HostType'
    BY <1>3, <2>1 DEF HostType, Buses
  <2>3. CtlInv'
    BY <2>1 DEF CtlInv, Stage, Answered
  <2>4. AddrInv'
    BY <1>2, <1>3, <2>1, CalmFacts DEF AddrInv, SettingAddress, Stage, InReset, Calm
  <2>5. OutInv'
    BY <1>2, <1>3, CalmFacts DEF OutInv, Calm
  <2>6. QED
    BY <1>4, <2>2, <2>3, <2>4, <2>5
<1>7. QED
  BY <1>3, <1>5, <1>6

LEMMA OutMessageStep == ASSUME TypeOK, RxInv, HostInv, OutMessage PROVE HostInv'
<1> USE DEF HostInv
<1>0. /\ bus = "out" /\ bus' = "free" /\ DataPacket(outTag)
      /\ UNCHANGED <<hostAddr, ctl, dueTag, deaf>>
      /\ outTag \in Tags
  BY DEF OutMessage, HostType
<1>1. TokenInv'
  BY <1>0 DEF TokenInv
<1>2. CASE ~Accepts
  <2>1. Calm /\ UNCHANGED <<usbDeviceAddr, reply, outTag>>
    BY <1>0, <1>2, DataUnstoredFacts DEF OutMessage
  <2>2. QED
    BY <1>0, <1>1, <2>1, CalmStep, ResetBuses DEF DataDue
<1>3. CASE Accepts
  <2>1. Size(outTag) \in 1 .. 8 /\ outTag \notin Request /\ OtherTag(outTag) \in Tags
    BY <1>0, TagFacts
  <2>2. HandleDataStored(outTag) /\ ~deaf
    BY <1>0, <1>3, <2>1, DataStoredFacts
  <2>3. /\ usbRxLen = 0 /\ usbRxLen' # 0
        /\ usbRxToken' \in OutEp
        /\ acked' = outTag
        /\ UNCHANGED <<usbDeviceAddr, usbNewDeviceAddr, pc, si, reply>>
    BY <1>0, <2>1, <2>2 DEF HandleDataStored, TokenInv, addrVars, mainVars
  <2>4. outTag' = OtherTag(outTag)
    BY <1>3 DEF OutMessage
  <2>5. pc # "free" /\ ~OutWaits /\ ~Undispatched
    BY <2>3, NothingWaits DEF RxPcs
  <2>6. OutWaits' /\ ~Undispatched'
    <3>1. usbRxToken' # USBPID_SETUP
      BY <2>3, EndpointAssumption DEF USBPID_SETUP
    <3>2. QED
      BY <2>3, <2>5, <3>1 DEF OutWaits, Undispatched, Pending, IsSetup
  <2>7. HostType'
    BY <1>0, <2>1, <2>4 DEF HostType, Buses
  <2>8. CtlInv'
    BY <1>0, <2>3 DEF CtlInv, Stage, NextPid
  <2>9. AddrInv'
    BY <1>0, <2>3, <2>5, <2>6 DEF AddrInv, SettingAddress, Stage, InReset
  <2>10. OutInv'
    BY <1>0, <2>3, <2>4, <2>5, <2>6 DEF OutInv
  <2>11. QED
    BY <1>1, <2>7, <2>8, <2>9, <2>10
<1>4. QED
  BY <1>2, <1>3

\* A reply packet that may be sent is the next one of the transfer.
LEMMA SendFacts ==
    ASSUME TypeOK, RxInv, BufInv, ReplyInv, CanSend(usbTxLen)
    PROVE  /\ usbRxLen = 0 /\ ~Undispatched
           /\ Left >= 0 /\ usbTxLen = 4 + Chunk
           /\ usbTxBuf.req = reply.req
           /\ usbTxBuf.pos = MaxPacket * reply.sent
           /\ usbTxBuf.pid = NextPid
           /\ usbMsgPtr.req = reply.req
<1>1. usbRxLen = 0 /\ ~Idle(usbTxLen)
  BY SendsWhenFree
<1>2. ~Pending /\ ~Undispatched
  BY <1>1 DEF Pending, Undispatched
<1>3. Queued /\ usbMsgPtr.req = reply.req
  BY <1>2 DEF ReplyInv
<1>4. QED
  BY <1>1, <1>2, <1>3 DEF Queued

\* A short packet, or as many bytes as were asked for: the reply is complete.
LEMMA LastPacket ==
    ASSUME NEW total \in Int, NEW w \in Int, NEW n \in Int, NEW c \in 0 .. 8,
           total <= w, c <= total - n, c < 8 => c = total - n, c < 8 \/ n + c >= w
    PROVE  n + c = total
OBVIOUS

LEMMA ReadStep == ASSUME DriverInv, HostInv, ReadData PROVE HostInv'
<1> USE DEF HostInv, DriverInv
<1>0. /\ bus = "free" /\ Stage("in") /\ hostAddr = usbDeviceAddr
      /\ UNCHANGED <<hostAddr, outTag, dueTag, deaf>>
      /\ ctl \in [stage : Stages, req : Request, bytes : Nat, pid : Pid]
  BY DEF ReadData, Keep, HostType, AddrInv, InReset
<1>1. /\ Calm
      /\ IF Sends(usbTxLen)
         THEN /\ reply' = [reply EXCEPT !.sent = @ + 1]
              /\ usbDeviceAddr' = usbNewDeviceAddr
         ELSE UNCHANGED <<usbDeviceAddr, reply>>
  BY <1>0, InFacts DEF ReadData
<1>2. CASE ~Sends(usbTxLen)
  <2>1. UNCHANGED <<ctl, bus>>
    BY <1>2 DEF ReadData
  <2>2. TokenInv'
    BY <1>0, <2>1 DEF TokenInv
  <2>3. QED
    BY <1>0, <1>1, <1>2, <2>1, <2>2, CalmStep, ResetBuses
<1>3. CASE Sends(usbTxLen)
  <2> DEFINE size == usbTxLen - 4
             bytes == ctl.bytes + size
  <2>1. /\ ctl' = [ctl EXCEPT !.bytes = bytes, !.pid = Toggle(@),
                              !.stage = IF size < MaxPacket \/ bytes >= WLength[ctl.req]
                                        THEN "statusOut" ELSE @]
        /\ bus' = "ack"
    BY <1>3 DEF ReadData
  <2>2. /\ usbRxLen = 0 /\ ~Undispatched /\ Left >= 0 /\ usbTxLen = 4 + Chunk
    BY <1>3, SendFacts DEF Sends
  <2>3. /\ Chunk \in 0 .. 8 /\ Chunk <= Left /\ (Chunk < 8 => Chunk = Left)
        /\ NextPid \in Pid
    BY <2>2, LeftType
  <2>4. size = Chunk
    BY <2>2, <2>3
  <2>5. ctl.bytes = MaxPacket * reply.sent /\ ctl.pid = NextPid /\ reply.req = ctl.req
    BY <1>0 DEF CtlInv, Stage, Answered
  <2>6. ctl.bytes \in Nat /\ bytes \in Nat
    BY <1>0, <2>3, <2>4
  <2> HIDE DEF size, bytes
  <2>7. /\ ctl'.req = ctl.req /\ ctl'.bytes = bytes /\ ctl'.pid = Toggle(NextPid)
        /\ ctl'.stage = IF size < MaxPacket \/ bytes >= WLength[ctl.req]
                        THEN "statusOut" ELSE "in"
        /\ ctl' \in [stage : Stages, req : Request, bytes : Nat, pid : Pid]
    BY <1>0, <2>1, <2>3, <2>5, <2>6 DEF Stage, Stages, Toggle, Pid
  <2>8. MaxPacket * reply'.sent = ctl.bytes + 8 /\ NextPid' = Toggle(NextPid)
    <3>1. MaxPacket * reply'.sent = MaxPacket * reply.sent + 8 /\ Toggle(NextPid') = NextPid
      BY <1>1, <1>3, Advance
    <3>2. NextPid' \in Pid
      BY DEF NextPid, Pid
    <3>3. QED
      BY <2>5, <3>1, <3>2, ToggleFacts
  <2>9. reply'.req = reply.req
    BY <1>1, <1>3 DEF TypeOK
  <2>10. WLength[ctl.req] \in Nat /\ Total(ctl.req) <= WLength[ctl.req] /\ Total(ctl.req) \in Int
    <3>1. WLength[ctl.req] \in Nat /\ ReplyLen[ctl.req] \in 0 .. 254
      BY <1>0, RequestAssumption
    <3>2. QED
      BY <3>1, SMTT(60) DEF Total, Smaller
  <2>11. ctl'.stage = "in" => bytes = MaxPacket * reply'.sent
    <3>1. SUFFICES ASSUME ctl'.stage = "in" PROVE size = 8
      BY <2>6, <2>8 DEF bytes
    <3>2. ~(size < MaxPacket)
      BY <3>1, <2>7
    <3>3. QED
      BY <3>2, <2>3, <2>4 DEF MaxPacket
  <2>12. ctl'.stage = "statusOut" => bytes = Total(ctl.req)
    <3>1. SUFFICES ASSUME ctl'.stage = "statusOut" PROVE bytes = Total(ctl.req)
      OBVIOUS
    <3>2. size < 8 \/ bytes >= WLength[ctl.req]
      BY <3>1, <2>7 DEF MaxPacket
    <3>3. Left = Total(ctl.req) - ctl.bytes
      BY <2>5 DEF Left
    <3>4. QED
      BY <3>2, <3>3, <2>3, <2>4, <2>6, <2>10, LastPacket DEF bytes
  <2>13. /\ ctl'.stage \in {"in", "statusOut"} /\ WLength[ctl.req] > 0
         /\ usbNewDeviceAddr = hostAddr
    <3>1. WLength[ctl.req] > 0
      BY <1>0 DEF CtlInv, Stage
    <3>2. usbNewDeviceAddr = hostAddr
      BY <1>0 DEF AddrInv, SettingAddress, Stage, InReset
    <3>3. QED
      BY <2>7, <3>1, <3>2
  <2>14. /\ ~Undispatched' /\ (OutWaits' <=> OutWaits)
         /\ UNCHANGED <<acked, usbNewDeviceAddr>>
    BY <1>1, <2>2, CalmFacts DEF Calm
  <2>15. HostType'
    BY <1>0, <2>1, <2>7 DEF HostType, Buses
  <2>16. TokenInv'
    BY <2>1 DEF TokenInv
  <2>17. CtlInv'
    BY <2>5, <2>7, <2>8, <2>9, <2>11, <2>12, <2>13 DEF CtlInv, Stage, Answered
  <2>18. AddrInv'
    <3>1. Effect[ctl.req] # "address"
      BY <1>0, <2>13, BusAssumption
    <3>2. QED
      BY <1>0, <1>1, <1>3, <2>1, <2>7, <2>13, <2>14, <3>1
      DEF AddrInv, SettingAddress, Stage, InReset
  <2>19. OutInv'
    BY <1>0, <2>14 DEF OutInv
  <2>20. QED
    BY <2>15, <2>16, <2>17, <2>18, <2>19
<1>4. QED
  BY <1>2, <1>3

LEMMA StatusInStep == ASSUME DriverInv, HostInv, StatusIn PROVE HostInv'
<1> USE DEF HostInv, DriverInv
<1>0. /\ bus = "free" /\ Stage("statusIn") /\ hostAddr = usbDeviceAddr
      /\ UNCHANGED <<outTag, dueTag, deaf>>
      /\ ctl \in [stage : Stages, req : Request, bytes : Nat, pid : Pid]
  BY DEF StatusIn, HostType, AddrInv, InReset
<1>1. /\ Calm
      /\ IF Sends(usbTxLen)
         THEN usbDeviceAddr' = usbNewDeviceAddr
         ELSE UNCHANGED <<usbDeviceAddr, reply>>
  BY <1>0, InFacts DEF StatusIn
<1>2. CASE ~Sends(usbTxLen)
  <2>1. UNCHANGED <<ctl, bus, hostAddr>>
    BY <1>2 DEF StatusIn
  <2>2. TokenInv'
    BY <1>0, <2>1 DEF TokenInv
  <2>3. QED
    BY <1>0, <1>1, <1>2, <2>1, <2>2, CalmStep, ResetBuses
<1>3. CASE Sends(usbTxLen)
  <2>1. /\ ctl' = NoTransfer /\ bus' = "ack"
        /\ hostAddr' = IF Effect[ctl.req] = "address" THEN NewAddress[ctl.req] ELSE hostAddr
    BY <1>3 DEF StatusIn
  <2>2. ~Undispatched
    BY <1>3, SendFacts DEF Sends
  <2>3. /\ ~Undispatched' /\ (OutWaits' <=> OutWaits)
        /\ UNCHANGED <<acked, usbNewDeviceAddr>>
    BY <1>1, <2>2, CalmFacts DEF Calm
  <2>4. ctl' \in [stage : Stages, req : Request, bytes : Nat, pid : Pid] /\ Stage("none")'
    BY <2>1, RequestAssumption DEF NoTransfer, Stages, Pid, Stage
  <2>5. hostAddr' = usbNewDeviceAddr
    BY <1>0, <2>1, <2>2 DEF AddrInv, SettingAddress, InReset
  <2>6. HostType'
    <3>1. hostAddr' \in Address
      BY <2>5 DEF TypeOK
    <3>2. QED
      BY <1>0, <2>1, <2>4, <3>1 DEF HostType, Buses
  <2>7. TokenInv'
    BY <2>1 DEF TokenInv
  <2>8. CtlInv'
    BY <2>4 DEF CtlInv, Stage, Answered
  <2>9. AddrInv'
    BY <1>1, <1>3, <2>1, <2>3, <2>4, <2>5 DEF AddrInv, SettingAddress, Stage, InReset
  <2>10. OutInv'
    BY <1>0, <2>3 DEF OutInv
  <2>11. QED
    BY <2>6, <2>7, <2>8, <2>9, <2>10
<1>4. QED
  BY <1>2, <1>3

LEMMA PollStep ==
    ASSUME TypeOK, HostInv, NEW ep \in InEp, PollInterrupt(ep)
    PROVE  HostInv'
<1> USE DEF HostInv
<1>0. /\ bus = "free" /\ hostAddr # 0 /\ hostAddr = usbDeviceAddr /\ InToken(ep) /\ ep # 0
      /\ UNCHANGED <<hostAddr, ctl, outTag, dueTag, deaf>>
      /\ bus' \in {"free", "ack"}
  BY EndpointAssumption DEF PollInterrupt, Keep, AddrInv, InReset
<1>1. Calm /\ UNCHANGED reply /\ usbDeviceAddr' \in {usbDeviceAddr, usbNewDeviceAddr}
  BY <1>0, InFacts
<1>2. usbNewDeviceAddr = usbDeviceAddr
  BY <1>0 DEF AddrInv, SettingAddress, Stage, InReset
<1>3. TokenInv'
  BY <1>0 DEF TokenInv
<1>4. bus \notin InReset /\ bus' \in Buses \ InReset
  BY <1>0, ResetBuses
<1>5. QED
  BY <1>0, <1>1, <1>2, <1>3, <1>4, CalmStep

\* The host begins, gives up or resets; interrupts go off and come back.
LEMMA HostOnlyStep ==
    ASSUME TypeOK, RxInv, HostInv,
           Abort \/ Reset \/ ResetEnd \/ FlashBegin \/ FlashEnd
             \/ \E r \in Request : Start(r)
    PROVE  HostInv'
<1> USE DEF HostInv
<1>1. UNCHANGED vars /\ UNCHANGED <<outTag, dueTag>>
  BY DEF Abort, Reset, ResetEnd, FlashBegin, FlashEnd, Start, Keep
<1>2. /\ UNCHANGED <<usbDeviceAddr, reply, acked, usbNewDeviceAddr, usbCurrentTok, pc>>
      /\ Undispatched' <=> Undispatched
      /\ OutWaits' <=> OutWaits
  <2>1. Calm
    BY <1>1 DEF Calm, vars, rxVars, addrVars, histVars
  <2>2. QED
    BY <1>1, <2>1, CalmFacts DEF vars, rxVars, addrVars, histVars
<1>3. OutInv'
  BY <1>1, <1>2 DEF OutInv
<1>4. NoTransfer \in [stage : Stages, req : Request, bytes : Nat, pid : Pid]
      /\ NoTransfer.stage = "none"
  BY RequestAssumption DEF NoTransfer, Stages, Pid
<1>5. CASE Abort
  <2>1. /\ bus = "free" /\ ctl' = NoTransfer /\ UNCHANGED <<hostAddr, deaf, bus>>
        /\ ~Stage("none") /\ Effect[ctl.req] # "address"
    BY <1>5 DEF Abort, Keep
  <2>2. HostType' /\ TokenInv' /\ CtlInv'
    BY <1>1, <1>4, <2>1 DEF HostType, TokenInv, CtlInv, Stage, Answered
  <2>3. AddrInv'
    BY <1>2, <1>4, <2>1 DEF AddrInv, SettingAddress, Stage, InReset
  <2>4. QED
    BY <1>3, <2>2, <2>3
<1>6. CASE Reset
  <2>1. ctl' = NoTransfer /\ bus' = "reset" /\ hostAddr' = 0
    BY <1>6 DEF Reset
  <2>2. HostType' /\ TokenInv' /\ CtlInv'
    BY <1>1, <1>4, <2>1, EndpointAssumption
    DEF HostType, TokenInv, CtlInv, Stage, Answered, Buses, InReset
  <2>3. AddrInv'
    BY <1>4, <2>1 DEF AddrInv, Stage, InReset
  <2>4. QED
    BY <1>3, <2>2, <2>3
<1>7. CASE ResetEnd
  <2>1. bus = "seen" /\ bus' = "free" /\ UNCHANGED <<hostAddr, ctl, deaf>>
    BY <1>7 DEF ResetEnd, Keep
  <2>2. HostType' /\ TokenInv' /\ CtlInv'
    BY <1>1, <1>2, <2>1 DEF HostType, TokenInv, CtlInv, Stage, Buses, NextPid
  <2>3. AddrInv'
    BY <1>2, <2>1 DEF AddrInv, SettingAddress, Stage, InReset
  <2>4. QED
    BY <1>3, <2>2, <2>3
<1>8. CASE FlashBegin \/ FlashEnd
  <2>1. UNCHANGED <<hostAddr, ctl, bus>> /\ (deaf' = TRUE \/ bus \notin DataDue)
    BY <1>8 DEF FlashBegin, FlashEnd
  <2>2. TokenInv'
    <3>1. CASE deaf' = TRUE
      BY <2>1, <3>1 DEF TokenInv, Stage
    <3>2. CASE bus \notin DataDue
      BY <2>1, <3>2 DEF TokenInv, DataDue
    <3>3. QED
      BY <2>1, <3>1, <3>2
  <2>3. HostType' /\ CtlInv'
    BY <1>1, <1>2, <2>1 DEF HostType, CtlInv, Stage, NextPid
  <2>4. AddrInv'
    BY <1>2, <2>1 DEF AddrInv, SettingAddress, Stage
  <2>5. QED
    BY <1>3, <2>2, <2>3, <2>4
<1>9. CASE \E r \in Request : Start(r)
  <2> PICK r \in Request : Start(r)
    BY <1>9
  <2>1. /\ Stage("none") /\ UNCHANGED <<hostAddr, deaf, bus>>
        /\ Effect[r] = "address" => hostAddr = 0
        /\ ctl' = [stage |-> "setup", req |-> r, bytes |-> 0, pid |-> "DATA1"]
    BY DEF Start, Keep
  <2>2. HostType' /\ TokenInv' /\ CtlInv'
    BY <1>1, <1>2, <2>1 DEF HostType, TokenInv, CtlInv, Stage, Answered, Stages, Pid
  <2>3. AddrInv'
    BY <1>2, <2>1 DEF AddrInv, SettingAddress, Stage
  <2>4. QED
    BY <1>3, <2>2, <2>3
<1>10. QED
  BY <1>5, <1>6, <1>7, <1>8, <1>9

-----------------------------------------------------------------------------
(* The device's steps. *)

LEMMA MainLoopStep ==
    ASSUME TypeOK, RxInv, HostInv,
           \/ Undisturbed /\ UNCHANGED hostVars
           \/ TakeOut
           \/ LineIdle /\ bus \notin InReset /\ UNCHANGED hostVars
    PROVE  HostInv'
<1> USE DEF HostInv
<1>0. /\ Undisturbed \/ ProcessOut \/ LineIdle
      /\ UNCHANGED <<hostAddr, ctl, bus, outTag, deaf>>
      /\ UNCHANGED dueTag \/ TakeOut
      /\ ProcessOut => TakeOut
  <2>1. Undisturbed => ~ProcessOut
    BY DEF Undisturbed, PollRx, ProcessSetup, SetupAbort, SetupDispatch, SetupReply, FreeRx,
           PollTx, BuildTxBlock, BuildToggle, BuildCopy, BuildArm, AppSkip, AppCall,
           SetInterrupt, SetIntTest, SetIntFlip, SetIntCancel, SetIntFill, SetIntEnable,
           ProcessOut
  <2>2. LineIdle => ~ProcessOut
    BY DEF LineIdle, ProcessOut
  <2>3. QED
    BY <2>1, <2>2 DEF TakeOut, hostVars
<1>1. /\ UNCHANGED <<usbCurrentTok, usbDeviceAddr, acked, reply>>
      /\ Dispatching => Undispatched /\ ~Undispatched'
      /\ ~Dispatching => UNCHANGED usbNewDeviceAddr /\ (Undispatched' <=> Undispatched)
      /\ ~ProcessOut => (OutWaits' <=> OutWaits)
      /\ Undispatched /\ pc \notin {"tx", "toggle", "copy", "arm", "line"} =>
            ~Undispatched' \/ pc' \notin {"tx", "toggle", "copy", "arm", "line"}
  BY <1>0, DeviceFacts DEF Quiet
<1>2. HostType'
  BY <1>0, TagFacts DEF HostType, TakeOut
<1>3. TokenInv'
  BY <1>0, <1>1 DEF TokenInv, Stage
<1>4. CtlInv'
  BY <1>0, <1>1 DEF CtlInv, Stage, NextPid
<1>5. AddrInv'
  <2>1. CASE ~Dispatching
    BY <1>0, <1>1, <2>1 DEF AddrInv, SettingAddress, Stage
  <2>2. CASE Dispatching
    <3> PICK m \in Message : SetupDispatch(m)
      BY <2>2 DEF Dispatching
    <3>1. Undispatched /\ ~Undispatched'
      BY <1>1, <2>2
    <3>2. Message0 = acked /\ reply.req = acked
      <4>1. usbRxLen # 0 /\ IsSetup
        BY <3>1 DEF Undispatched, Pending
      <4>2. QED
        BY <4>1 DEF RxInv, MessageStable
    <3>3. usbNewDeviceAddr' = IF Effect[acked] = "address" THEN NewAddress[acked]
                              ELSE usbNewDeviceAddr
      BY <3>2 DEF SetupDispatch
    <3>4. SettingAddress => ctl.req = acked
      BY <3>2 DEF CtlInv, SettingAddress, Stage, Answered
    <3>5. SettingAddress' <=> SettingAddress
      BY <1>0 DEF SettingAddress, Stage
    <3>6. bus # "seen"
      BY <3>1 DEF AddrInv
    <3>7. bus \notin InReset =>
             usbNewDeviceAddr' = IF SettingAddress THEN NewAddress[ctl.req] ELSE hostAddr
      BY <3>1, <3>3, <3>4 DEF AddrInv, SettingAddress
    <3>8. QED
      BY <1>0, <1>1, <3>1, <3>5, <3>6, <3>7 DEF AddrInv, Stage
  <2>3. QED
    BY <2>1, <2>2
<1>6. OutInv'
  <2>1. CASE ~ProcessOut
    <3>1. UNCHANGED dueTag
      BY <1>0, <2>1 DEF TakeOut
    <3>2. QED
      BY <1>0, <1>1, <2>1, <3>1 DEF OutInv
  <2>2. CASE ProcessOut
    <3>1. /\ pc = "rx" /\ pc' = "free"
          /\ dueTag' = IF usbRxToken \in OutEp THEN OtherTag(dueTag) ELSE dueTag
      BY <1>0, <2>2 DEF TakeOut, ProcessOut
    <3>2. ~OutWaits' /\ (OutWaits <=> usbRxToken \in OutEp)
      BY <3>1 DEF OutWaits, RxInv, RxPcs
    <3>3. QED
      BY <1>0, <1>1, <3>1, <3>2 DEF OutInv
  <2>3. QED
    BY <2>1, <2>2
<1>7. QED
  BY <1>2, <1>3, <1>4, <1>5, <1>6

LEMMA LineResetStep ==
    ASSUME TypeOK, RxInv, HostInv,
           LineReset, bus \in InReset, bus' = (IF bus = "reset" THEN "again" ELSE "seen"),
           UNCHANGED <<disturb, hostAddr, ctl, outTag, dueTag, deaf>>
    PROVE  HostInv'
<1> USE DEF HostInv
<1>1. /\ pc = "line" /\ pc' = "app1"
      /\ usbNewDeviceAddr' = 0 /\ usbDeviceAddr' = 0
      /\ UNCHANGED <<usbRxLen, usbRxToken, si, acked, reply, usbCurrentTok>>
  BY DEF LineReset, rxVars, histVars
<1>2. /\ Undispatched' <=> Undispatched
      /\ OutWaits' <=> OutWaits
  BY <1>1
  DEF Undispatched, Pending, IsSetup, Dispatched, Aborted, InSetup, SetPcs, OutWaits
<1>3. bus' \in {"again", "seen"}
  OBVIOUS
<1>4. HostType' /\ TokenInv' /\ CtlInv'
  BY <1>1, <1>3 DEF HostType, TokenInv, CtlInv, Stage, NextPid, Buses, InReset
<1>5. AddrInv'
  <2>1. hostAddr = 0 /\ ctl.stage \in {"none", "setup"}
    BY DEF AddrInv
  <2>2. bus # "reset" => ~Undispatched
    BY <1>1 DEF AddrInv, InReset
  <2>3. QED
    BY <1>1, <1>2, <2>1, <2>2 DEF AddrInv, Stage, InReset
<1>6. OutInv'
  BY <1>1, <1>2 DEF OutInv
<1>7. QED
  BY <1>4, <1>5, <1>6

-----------------------------------------------------------------------------
BusInv == DriverInv /\ HostInv

LEMMA BusInitInv == BusInit => BusInv
<1> SUFFICES ASSUME BusInit PROVE BusInv
  OBVIOUS
<1>1. TypeOK /\ RxInv
  BY InitRx DEF BusInit
<1>2. BufInv /\ ReplyInv
  BY IdleFacts
  DEF BusInit, Init, BufInv, ReplyInv, Restarted, Aborted, Dispatched, InSetup, SetPcs,
      AtRest, Building, Queued
<1>3. NoTransfer \in [stage : Stages, req : Request, bytes : Nat, pid : Pid]
      /\ NoTransfer.stage = "none"
  BY RequestAssumption DEF NoTransfer, Stages, Pid
<1>4. HostType /\ TokenInv /\ CtlInv
  BY <1>3, BusAssumption, EndpointAssumption
  DEF BusInit, HostType, Buses, TokenInv, CtlInv, Stage, Answered
<1>5. ~Undispatched /\ ~OutWaits
  BY DEF BusInit, Init, Undispatched, Pending, OutWaits
<1>6. AddrInv /\ OutInv
  BY <1>3, <1>5 DEF BusInit, Init, AddrInv, SettingAddress, Stage, InReset, OutInv
<1>7. QED
  BY <1>1, <1>2, <1>4, <1>6 DEF BusInv, DriverInv, HostInv

LEMMA BusStep == BusInv /\ [BusNext]_busVars => BusInv'
<1> SUFFICES ASSUME BusInv, [BusNext]_busVars PROVE BusInv'
  OBVIOUS
<1>0. TypeOK /\ RxInv /\ BufInv /\ ReplyInv /\ DriverInv /\ HostInv
  BY DEF BusInv, DriverInv
<1>1. [Next]_vars
  BY <1>0, StepIsDriver DEF HostInv
<1>2. DriverInv'
  BY <1>0, <1>1, TypeStep, RxStep, BufStep, ReplyStep DEF DriverInv
<1>h. SUFFICES HostInv'
  BY <1>2 DEF BusInv
<1>3. CASE Transfer
  BY <1>0, <1>3, TokenSteps, SetupDataStep, ReadStep, StatusOutDataStep, StatusInStep DEF Transfer
<1>4. CASE HostAck \/ OutToken \/ OutMessage
  BY <1>0, <1>4, AckStep, TokenSteps, OutMessageStep
<1>5. CASE \E ep \in InEp : PollInterrupt(ep)
  BY <1>0, <1>5, PollStep
<1>6. CASE Abort \/ Reset \/ ResetEnd \/ FlashBegin \/ FlashEnd \/ \E r \in Request : Start(r)
  BY <1>0, <1>6, HostOnlyStep
<1>7. CASE DeviceStep
  <2>1. CASE (Undisturbed /\ UNCHANGED hostVars) \/ TakeOut
    BY <1>0, <2>1, MainLoopStep
  <2>2. CASE FlashEnd
    BY <2>2, <1>6
  <2>3. CASE Line
    BY <1>0, <2>3, MainLoopStep, LineResetStep DEF Line
  <2>4. QED
    BY <1>7, <2>1, <2>2, <2>3 DEF DeviceStep
<1>8. CASE UNCHANGED busVars
  <2>1. UNCHANGED vars /\ UNCHANGED hostVars
    BY <1>8 DEF busVars
  <2>2. Calm /\ UNCHANGED <<usbDeviceAddr, reply, usbCurrentTok>>
    BY <2>1 DEF Calm, vars, rxVars, addrVars, histVars
  <2>3. /\ Undispatched' <=> Undispatched
        /\ OutWaits' <=> OutWaits
        /\ UNCHANGED <<acked, usbNewDeviceAddr, pc>>
    BY <2>2, CalmFacts DEF Calm
  <2>4. QED
    BY <1>0, <2>1, <2>2, <2>3
    DEF HostInv, hostVars, HostType, TokenInv, CtlInv, AddrInv, OutInv, SettingAddress, Stage,
        NextPid
<1>9. QED
  BY <1>3, <1>4, <1>5, <1>6, <1>7, <1>8 DEF BusNext

LEMMA BusInvariance == BusSpec => []BusInv
BY BusInitInv, BusStep, PTL DEF BusSpec

\* A conforming host is one of the environments of UsbDriver: what holds of the
\* driver whatever arrives holds of it on this bus.
THEOREM BusIsDriver == BusSpec => Spec
<1>1. BusInit => Init
  BY DEF BusInit
<1>2. BusInv /\ [BusNext]_busVars => [Next]_vars
  BY StepIsDriver DEF BusInv, HostInv
<1>3. QED
  BY <1>1, <1>2, BusInvariance, PTL DEF BusSpec, Spec

\* Outside a bus reset host and device use one address: the device takes a new
\* one over with the status stage of its SET_ADDRESS, not before and not later,
\* whatever is polled, aborted or reset around it.
THEOREM AddressesAgree == BusSpec => []AddressAgreement
<1>1. BusInv => AddressAgreement
  BY DEF BusInv, HostInv, AddrInv, AddressAgreement
<1>2. QED
  BY <1>1, BusInvariance, PTL

\* Every OUT message the device acknowledged reaches the firmware, once and in
\* the order sent, although the device is deaf while it programs the flash.
THEOREM OutDeliveredOnce == BusSpec => []OutExactlyOnce
<1>1. BusInv => OutExactlyOnce
  <2> SUFFICES ASSUME BusInv PROVE OutExactlyOnce
    OBVIOUS
  <2>1. usbRxLen # 0 => Message0 = acked
    BY DEF BusInv, DriverInv, RxInv, MessageStable
  <2>2. OutInv
    BY DEF BusInv, HostInv
  <2>3. QED
    BY <2>1, <2>2 DEF OutInv, OutWaits, OutExactlyOnce
<1>2. QED
  BY <1>1, BusInvariance, PTL

\* The status stage of a transfer is answered for that transfer, after its
\* request was processed, never by what an earlier one left behind.
THEOREM StatusIsItsOwn == BusSpec => []StatusIsForThisTransfer
<1>1. BusInv => StatusIsForThisTransfer
  <2> SUFFICES ASSUME BusInv, Stage("statusIn"), CanSend(usbTxLen)
               PROVE  /\ usbTxBuf.req = ctl.req /\ usbTxBuf.pid = "DATA1"
                      /\ usbTxLen = 4
                      /\ usbMsgPtr.req = ctl.req
    BY DEF StatusIsForThisTransfer
  <2>1. /\ Left >= 0 /\ usbTxLen = 4 + Chunk
        /\ usbTxBuf.req = reply.req /\ usbTxBuf.pid = NextPid
        /\ usbMsgPtr.req = reply.req
    BY SendFacts DEF BusInv, DriverInv
  <2>2. reply.req = ctl.req /\ reply.sent = 0 /\ WLength[ctl.req] = 0
    BY DEF BusInv, HostInv, CtlInv, Stage, Answered
  <2>3. ctl.req \in Request
    BY DEF BusInv, HostInv, HostType
  <2>4. NextPid = "DATA1"
    BY <2>2 DEF NextPid
  <2>5. ReplyLen[ctl.req] \in 0 .. 254
    BY <2>3, RequestAssumption
  <2>6. Total(ctl.req) = 0
    BY <2>2, <2>5 DEF Total, Smaller
  <2>7. Chunk = 0
    BY <2>2, <2>6 DEF Chunk, Left, Smaller, MaxPacket
  <2>8. QED
    BY <2>1, <2>2, <2>4, <2>7
<1>2. QED
  BY <1>1, BusInvariance, PTL

\* The bytes of a control read reach the host in order, all of them, with the
\* PIDs it expects, whatever was aborted before.
THEOREM ReadsExact == BusSpec => []ReadsAreExact
<1>1. BusInv => ReadsAreExact
  <2> SUFFICES ASSUME BusInv PROVE ReadsAreExact
    OBVIOUS
  <2>1. CtlInv
    BY DEF BusInv, HostInv
  <2>2. ASSUME Stage("in"), CanSend(usbTxLen)
        PROVE  /\ usbTxBuf.req = ctl.req
               /\ usbTxBuf.pos = ctl.bytes
               /\ usbTxBuf.pid = ctl.pid
    <3>1. /\ usbTxBuf.req = reply.req
          /\ usbTxBuf.pos = MaxPacket * reply.sent
          /\ usbTxBuf.pid = NextPid
      BY <2>2, SendFacts DEF BusInv, DriverInv
    <3>2. QED
      BY <2>1, <2>2, <3>1 DEF CtlInv, Stage, Answered
  <2>3. QED
    BY <2>1, <2>2 DEF CtlInv, ReadsAreExact
<1>2. QED
  BY <1>1, BusInvariance, PTL
=============================================================================
