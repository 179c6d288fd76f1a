---------------------------- MODULE SerialBridge ----------------------------
(***************************************************************************)
(* main() and the requests of the LDDK firmware that are not about memory: *)
(* the serial line bridged to endpoint 2, and the LED, echo and register   *)
(* requests.  The interrupt routine is that of UsbDriver, seen from above: *)
(* it keeps one message for usbPoll() and one packet for endpoint 2.  Time *)
(* passes in byte times of the serial line (1.04 ms at 9600 baud): a pass  *)
(* of the main loop that does not wait takes less than half of one, and    *)
(* the host polls endpoint 2 no more than once in POLL_TICKS.              *)
(***************************************************************************)
EXTENDS Naturals, Sequences

CONSTANTS
    SER_BUF,      \* sizeof ser_buf
    FIFO,         \* bytes the receiver of the USART holds
    POLL_TICKS,   \* byte times between two polls of endpoint 2, at least
    EEP_TICKS,    \* byte times that writing a message to EEPROM takes
    Banner,       \* "Dev Drv Kit v2.1\r\n"
    Texts,        \* messages the host writes to endpoint 2; 0 is the zero byte
    Requests,     \* vendor requests the host makes
    USE_CLCD,
    MaxArrivals, MaxMessages, MaxPresses    \* bounds

\* What the CRC leaves behind a message in the receive buffer.
CRC == <<251, 252>>

ASSUME BridgeAssumption ==
    /\ SER_BUF \in 1..8 /\ FIFO \in Nat \ {0} /\ EEP_TICKS \in Nat \ {0}
    /\ POLL_TICKS \in Nat \ {0, 1} /\ USE_CLCD \in BOOLEAN
    /\ Banner \in Seq(1..255) /\ \A t \in Texts : t \in Seq(0..255) /\ Len(t) <= 8
    /\ MaxArrivals \in Nat /\ MaxMessages \in Nat /\ MaxPresses \in Nat

\* wIndex names a register and a direction, wValue is cast to a byte.
ASSUME RequestAssumption ==
    /\ \A rq \in Requests : rq.bRequest = "SET_LED_STATUS" => rq.value \in BOOLEAN
    /\ \A rq \in Requests :
           rq.bRequest = "SET_REGISTER" => rq.dir \in BOOLEAN /\ rq.value \subseteq 0..7

\* A register is the set of its bits that are 1.
Ports == {"A", "B", "C", "D"}

MASK_PORT == [A |-> {}, B |-> IF USE_CLCD THEN {0, 1, 2, 4, 7} ELSE {2, 4, 7},
              C |-> {}, D |-> IF USE_CLCD THEN 2..7 ELSE {2, 3}]
MASK_PIN == [MASK_PORT EXCEPT !["B"] = @ \ {2, 4}]
LED_BIT == 7
Switches == {2, 4}      \* BT_BIT, DL_BIT

VARIABLES
    at,           \* where the main loop is
    txLeft, back, \* usart_tx(): characters to send, and where it returns to
    eep,          \* byte times until the message is in EEPROM
    ser_buf,      \* ser_buf[0 .. ser_data_cnt - 1]
    rxMsg,        \* message the interrupt routine has for usbPoll()
    tx3,          \* packet waiting on endpoint 2, <<>> when there is none
    ddr, port,    \* DDRx, PORTx
    dataBuffer,   \* reply to the last request
    usart,        \* RXEN and TXEN
    rxq, udr, shift,    \* USART: received bytes, transmit buffer, transmit shift register
    caught,       \* times the loop has looked at the receiver since the last byte time
    polled,       \* byte times until the host polls endpoint 2 again
    arrived, got, \* history: number of bytes received, those the host has
    due,          \* history: bytes that have still to appear on the line
    led,          \* history: what the host has set the LED to
    messages, presses

loopVars == <<at, txLeft, back, eep, ser_buf>>
usbVars == <<rxMsg, tx3>>
pinVars == <<ddr, port, dataBuffer, led>>
usartVars == <<usart, rxq, udr, shift>>
bridgeVars == <<at, txLeft, back, eep, ser_buf, rxMsg, tx3, ddr, port, dataBuffer, usart, rxq, udr,
                shift, caught, polled, arrived, got, due, led, messages, presses>>

None == [kind |-> "none"]
Text(t) == [kind |-> "serial", text |-> t]
Memory == [kind |-> "memory"]
Setup(rq) == [kind |-> "setup", rq |-> rq]

\* After main() has set up the board: the LED on, the switches pulled up, the
\* serial line open.
Init ==
    /\ at = "usbPoll" /\ txLeft = <<>> /\ back = "button" /\ eep = 0 /\ ser_buf = <<>>
    /\ rxMsg = None /\ tx3 = <<>>
    /\ ddr = [p \in Ports |-> IF p = "B" THEN {LED_BIT} ELSE {}]
    /\ port = [p \in Ports |-> IF p = "B" THEN {LED_BIT} \cup Switches ELSE {}]
    /\ dataBuffer = <<>> /\ led = TRUE
    /\ usart = TRUE /\ rxq = <<>> /\ udr = <<>> /\ shift = <<>>
    /\ caught = 0 /\ polled = 0 /\ arrived = 0 /\ got = <<>> /\ due = <<>> /\ messages = 0 /\ presses = 0

-----------------------------------------------------------------------------
(* usbFunctionSetup() *)

\* (wValue & ~MASK) | (reg & MASK)
Merge(old, value, mask) == (value \ mask) \cup (old \cap mask)

\* usart_disable(): the bytes received are gone; those handed to the transmitter
\* before it is disabled still leave, one left in UDR waits for usart_enable().
UsartOff == usart' = FALSE /\ rxq' = <<>> /\ UNCHANGED <<udr, shift>>
UsartOn == /\ usart' = TRUE /\ UNCHANGED rxq
           /\ IF shift = <<>> THEN shift' = udr /\ udr' = <<>> ELSE UNCHANGED <<udr, shift>>

SetDirection_Backward(p, value) ==    \* mutant: the serial line is switched on for the pins in use
    /\ ddr' = [ddr EXCEPT ![p] = Merge(@, value, MASK_PORT[p])]
    /\ CASE p # "D" -> UNCHANGED usartVars
         [] p = "D" /\ (value \ MASK_PORT[p]) \cap {0} # {} -> UsartOff
         [] OTHER -> UsartOn

SetDirection(p, value) ==
    /\ ddr' = [ddr EXCEPT ![p] = Merge(@, value, MASK_PORT[p])]
    /\ CASE p # "D" -> UNCHANGED usartVars
         [] p = "D" /\ (value \ MASK_PORT[p]) \cap {0, 1} # {} -> UsartOff
         [] OTHER -> UsartOn

\* The levels an input pin may have are the world's; an output has PORTx's.
Pin(p, level) == (port[p] \cap ddr[p]) \cup (level \ ddr[p])

SetRegister(rq) ==
    CASE rq.reg \in {"A", "B", "C", "D"} /\ rq.dir ->
           SetDirection(rq.reg, rq.value) /\ UNCHANGED port
      [] rq.reg \in {"A", "B", "C", "D"} /\ ~rq.dir ->
           port' = [port EXCEPT ![rq.reg] = Merge(@, rq.value, MASK_PORT[rq.reg])]
             /\ UNCHANGED <<ddr, usart, rxq, udr, shift>>
      [] OTHER -> UNCHANGED <<ddr, port, usart, rxq, udr, shift>>

GetRegister(rq) ==
    dataBuffer' = CASE rq.reg = "reserved" -> <<{}>>
                    [] rq.reg \in Ports /\ rq.dir -> <<ddr[rq.reg] \ MASK_PIN[rq.reg]>>
                    [] rq.reg \in Ports /\ ~rq.dir -> <<Pin(rq.reg, rq.value) \ MASK_PIN[rq.reg]>>
                    [] OTHER -> <<0..7>>

usbFunctionSetup(rq) ==
    /\ CASE rq.bRequest = "ECHO" -> dataBuffer' = rq.data
         [] rq.bRequest = "GET_LED_STATUS" -> dataBuffer' = <<port["B"] \cap {LED_BIT}>>
         [] rq.bRequest = "GET_REGISTER" -> GetRegister(rq)
         [] OTHER -> UNCHANGED dataBuffer
    /\ CASE rq.bRequest = "SET_LED_STATUS" ->
              /\ port' = [port EXCEPT !["B"] = IF rq.value THEN @ \cup {LED_BIT} ELSE @ \ {LED_BIT}]
              /\ led' = rq.value /\ UNCHANGED <<ddr, usart, rxq, udr, shift>>
         [] rq.bRequest = "SET_REGISTER" -> SetRegister(rq) /\ UNCHANGED led
         [] OTHER -> UNCHANGED <<ddr, port, led, usart, rxq, udr, shift>>

-----------------------------------------------------------------------------
(* usbFunctionWriteOut(), endpoint 2, and usart_tx() *)

\* The characters up to the first zero.
CutAtZero(s) == LET zeros == {i \in DOMAIN s : s[i] = 0}
                IN IF zeros = {} THEN s ELSE SubSeq(s, 1, (CHOOSE i \in zeros : \A j \in zeros : i <= j) - 1)

\* data[len] = 0 ends the message where its CRC began.
Terminated_Not(text) == text \o CRC    \* mutant: data[len] = 0 is missing

Terminated(text) == [text \o CRC EXCEPT ![Len(text) + 1] = 0]

UsartTx(text, next) ==
    /\ txLeft' = text /\ back' = next /\ at' = IF text = <<>> THEN next ELSE "tx"

WriteSerial ==
    /\ at = "usbPoll" /\ rxMsg.kind = "serial"
    /\ UsartTx(CutAtZero(Terminated(rxMsg.text)), "button")
    /\ due' = due \o CutAtZero(rxMsg.text) /\ rxMsg' = None
    /\ UNCHANGED <<eep, ser_buf, tx3, pinVars, usartVars, caught, polled, arrived, got, messages, presses>>

WriteMemory ==
    /\ at = "usbPoll" /\ rxMsg.kind = "memory"
    /\ at' = "eeprom" /\ eep' = EEP_TICKS /\ rxMsg' = None
    /\ UNCHANGED <<txLeft, back, ser_buf, tx3, pinVars, usartVars, caught, polled, arrived, got, due, messages, presses>>

Request ==
    /\ at = "usbPoll" /\ rxMsg.kind = "setup"
    /\ usbFunctionSetup(rxMsg.rq) /\ rxMsg' = None /\ at' = "button"
    /\ UNCHANGED <<txLeft, back, eep, ser_buf, tx3, caught, polled, arrived, got, due, messages, presses>>

NothingToPoll ==
    /\ at = "usbPoll" /\ rxMsg = None /\ at' = "button"
    /\ UNCHANGED <<txLeft, back, eep, ser_buf, usbVars, pinVars, usartVars, caught, polled, arrived, got, due, messages, presses>>

ByteTx_NoAdvance ==    \* mutant: while (*s) usart_byte_tx(*s), without s++
    /\ at = "tx" /\ txLeft # <<>> /\ udr = <<>>
    /\ IF usart /\ shift = <<>>
       THEN shift' = <<Head(txLeft)>> /\ udr' = udr
       ELSE udr' = <<Head(txLeft)>> /\ shift' = shift
    /\ UNCHANGED <<at, txLeft, back, eep, ser_buf, usbVars, pinVars, usart, rxq, caught, polled, arrived, got, due, messages, presses>>

\* usart_byte_tx(): an empty buffer takes the character; with an idle, enabled
\* transmitter it is empty again at once.
ByteTx ==
    /\ at = "tx" /\ txLeft # <<>> /\ udr = <<>>
    /\ IF usart /\ shift = <<>>
       THEN shift' = <<Head(txLeft)>> /\ udr' = udr
       ELSE udr' = <<Head(txLeft)>> /\ shift' = shift
    /\ txLeft' = Tail(txLeft) /\ at' = IF Tail(txLeft) = <<>> THEN back ELSE at
    /\ UNCHANGED <<back, eep, ser_buf, usbVars, pinVars, usart, rxq, caught, polled, arrived, got, due, messages, presses>>

EepromWritten ==
    /\ at = "eeprom" /\ eep = 0 /\ at' = "button"
    /\ UNCHANGED <<txLeft, back, eep, ser_buf, usbVars, pinVars, usartVars, caught, polled, arrived, got, due, messages, presses>>

-----------------------------------------------------------------------------
(* The rest of the main loop. *)

\* The button is pressed or not; the last press is sent as long as it lasts.
Button ==
    /\ at = "button"
    /\ \/ at' = "serial" /\ UNCHANGED <<txLeft, back, due, presses>>
       \/ /\ presses < MaxPresses /\ presses' = presses + 1
          /\ UsartTx(Banner, "serial") /\ due' = due \o Banner
    /\ UNCHANGED <<eep, ser_buf, usbVars, pinVars, usartVars, caught, polled, arrived, got, messages>>

\* while (usart_byte_available() && (ser_data_cnt < 8))
Drained == LET room == SER_BUF - Len(ser_buf) IN IF Len(rxq) < room THEN Len(rxq) ELSE room

SerialRx ==
    /\ at = "serial" /\ at' = "endpoint3" /\ caught' = IF caught = 2 THEN 2 ELSE caught + 1
    /\ ser_buf' = ser_buf \o SubSeq(rxq, 1, Drained)
    /\ rxq' = SubSeq(rxq, Drained + 1, Len(rxq))
    /\ UNCHANGED <<txLeft, back, eep, usbVars, pinVars, usart, udr, shift, polled, arrived, got, due, messages, presses>>

SetInterrupt3_Keep ==    \* mutant: ser_data_cnt is not reset
    /\ at = "endpoint3" /\ at' = "usbPoll"
    /\ IF tx3 = <<>> THEN tx3' = ser_buf /\ ser_buf' = ser_buf ELSE UNCHANGED <<tx3, ser_buf>>
    /\ UNCHANGED <<txLeft, back, eep, rxMsg, pinVars, usartVars, caught, polled, arrived, got, due, messages, presses>>

SetInterrupt3 ==
    /\ at = "endpoint3" /\ at' = "usbPoll"
    /\ IF tx3 = <<>> THEN tx3' = ser_buf /\ ser_buf' = <<>> ELSE UNCHANGED <<tx3, ser_buf>>
    /\ UNCHANGED <<txLeft, back, eep, rxMsg, pinVars, usartVars, caught, polled, arrived, got, due, messages, presses>>

MainLoop == \/ NothingToPoll \/ WriteSerial \/ WriteMemory \/ Request \/ ByteTx \/ EepromWritten
            \/ Button \/ SerialRx \/ SetInterrupt3

-----------------------------------------------------------------------------
(* The host, the line and its clock. *)

HostWrites ==
    /\ rxMsg = None /\ messages < MaxMessages /\ messages' = messages + 1
    /\ \/ \E t \in Texts : rxMsg' = Text(t)
       \/ rxMsg' = Memory
       \/ \E rq \in Requests : rxMsg' = Setup(rq)
    /\ UNCHANGED <<loopVars, tx3, pinVars, usartVars, caught, polled, arrived, got, due, presses>>

HostPolls ==
    /\ tx3 # <<>> /\ polled = 0 /\ polled' = POLL_TICKS /\ got' = got \o tx3 /\ tx3' = <<>>
    /\ UNCHANGED <<loopVars, rxMsg, pinVars, usartVars, caught, arrived, due, messages, presses>>

Waiting == at = "eeprom" \/ (at = "tx" /\ udr # <<>>)

\* A byte comes in, at most one in a byte time.
Receive ==
    \/ arrived' = arrived /\ rxq' = rxq
    \/ /\ arrived < MaxArrivals /\ arrived' = arrived + 1
       /\ rxq' = CASE ~usart -> rxq
                   [] usart /\ Len(rxq) < FIFO -> Append(rxq, arrived')
                   [] OTHER -> [rxq EXCEPT ![FIFO] = arrived']

Less(n) == IF n = 0 THEN 0 ELSE n - 1

\* A character that is being sent leaves; the next one is taken from UDR, by a
\* disabled transmitter too as long as it was sending.
ByteTime ==
    /\ caught = 2 \/ Waiting
    /\ caught' = 0 /\ eep' = Less(eep) /\ polled' = Less(polled)
    /\ IF shift = <<>> THEN UNCHANGED <<shift, udr, due>>
       ELSE /\ shift' = udr /\ udr' = <<>>
            /\ due' = IF due # <<>> /\ Head(due) = Head(shift) THEN Tail(due) ELSE due
    /\ Receive
    /\ UNCHANGED <<at, txLeft, back, ser_buf, usbVars, pinVars, usart, got, messages, presses>>

Next == MainLoop \/ HostWrites \/ HostPolls \/ ByteTime

Spec == Init /\ [][Next]_bridgeVars

FairSpec == Spec /\ WF_bridgeVars(MainLoop) /\ WF_bridgeVars(ByteTime) /\ WF_bridgeVars(HostPolls)

-----------------------------------------------------------------------------
\* usart_byte_tx() waits for a transmitter that is switched off.
Hung == at = "tx" /\ ~usart /\ shift = <<>> /\ udr # <<>>

\* The characters of the messages and of the banner appear on the line in order,
\* once, and nothing else does: not the CRC behind a message, not the message before.
OutInOrder == shift \o udr \o txLeft = due

\* No pin is asked to do two things: a request never makes a USB line an output,
\* takes the switches' pull-ups or the LED away, or drives RXD or TXD while the
\* serial line is on; the LED shows what it was last set to.
PinsOwned ==
    /\ ddr["D"] \cap {2, 3} = {} /\ port["D"] \cap {2, 3} = {}
    /\ ddr["B"] \cap (Switches \cup {LED_BIT}) = {LED_BIT} /\ Switches \subseteq port["B"]
    /\ (LED_BIT \in port["B"]) = led
    /\ usart = (ddr["D"] \cap {0, 1} = {})

Busy == at \in {"tx", "eeprom"} \/ ~usart

Channel == INSTANCE ByteChannel WITH
    Capacity <- SER_BUF + FIFO, MaxPacket <- SER_BUF, busy <- Busy,
    inTransit <- tx3 \o ser_buf \o rxq

\* The bytes of the serial line reach the host as ByteChannel says.
ImplementsByteChannel == Channel!Spec

\* A message the host has written is taken, or the firmware hangs in usart_tx()
\* because the serial line was switched off (main.c:262-269) and a text or the
\* button's banner has to be sent: then the watchdog ends it.
MessageTaken == (rxMsg # None) ~> (rxMsg = None \/ Hung)

=============================================================================
