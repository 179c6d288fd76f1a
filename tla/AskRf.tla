------------------------------- MODULE AskRf -------------------------------
(***************************************************************************)
(* ask_rf_ind_rx_tx.c: a transmitter and a receiver, one bit every         *)
(* millisecond, with the calibration, DEBUG 1 and the packets of the       *)
(* source.  The receiver reports on its serial line from inside the timer  *)
(* interrupt: a character takes a millisecond at 9600 baud, the USART      *)
(* holds two, and for what does not fit the routine waits.  Of the         *)
(* interrupts that fall due meanwhile one stays pending, the other bits    *)
(* are not seen.                                                           *)
(***************************************************************************)
EXTENDS Integers, Sequences, Folds, Functions

CONSTANTS
    CharsPerTick,     \* characters the serial line takes in a millisecond
    MaxFlips, MaxPackets    \* bounds

VARIABLES
    \* transmitter
    txCali, ready, ind, tx_ind, clk_i,
    pin,            \* level of PC1, and of the receiver's PC0
    \* receiver
    cali, rx_ind, data_in,
    is_synced, sync_triggered, inside_pkt, pkt_len, pkt_recv_len,
    chars,          \* characters in the USART
    missing,        \* bits that will go unseen
    \* history
    shown,          \* bytes of Payload reported since "L: "; -1: others, or more
    clean,          \* this packet: began with the receiver hunting, no bit flipped
    flips, packets

txVars == <<txCali, ready, ind, tx_ind, clk_i, pin>>
rxVars == <<cali, rx_ind, data_in, is_synced, sync_triggered, inside_pkt, pkt_len, pkt_recv_len,
            chars, missing, shown>>
vars == <<txVars, rxVars, clean, flips, packets>>

CALI_DATA == 236    \* 0xEC
PKT_SYNC == 170    \* 0xAA
PKT_DUMMY == 60    \* 0x3C
PKT_START == 190    \* 0xBE
PKT_END == 237    \* 0xED
PKT_DATA_SIZE == 16

\* snd: "09", "123456789" and zeros up to the end of data[].
stream == <<PKT_SYNC, PKT_SYNC, PKT_DUMMY, PKT_START, 48, 57>> \o [i \in 1..9 |-> 48 + i]
            \o [i \in 1..(PKT_DATA_SIZE - 9) |-> 0] \o <<PKT_END, PKT_DUMMY>>
PKT_SIZE == Len(stream)

Bit(b, i) == (b \div (2^i)) % 2
ASCII_TO_NUM(a) == IF a <= 57 THEN a - 48 ELSE a - 55

\* pkt_len |= n.  A negative operand makes it negative, and only that is looked at.
Or(len, n) ==
    IF len < 0 \/ n < 0 THEN -1
    ELSE FoldFunction(+, 0, [i \in 0..11 |-> IF Bit(len, i) = 1 \/ Bit(n, i) = 1 THEN 2^i ELSE 0])

\* What the packet says: its length in two hexadecimal digits, then the data.
Payload == SubSeq(stream, 7, 6 + 16 * ASCII_TO_NUM(stream[5]) + ASCII_TO_NUM(stream[6]))

Init ==
    /\ txCali = 0 /\ ready = 0 /\ ind = 0 /\ tx_ind = 7 /\ clk_i = 7 /\ pin = 0
    /\ cali = 0 /\ rx_ind = 7 /\ data_in = 0
    /\ is_synced = 0 /\ sync_triggered = 0 /\ inside_pkt = 0 /\ pkt_len = 0 /\ pkt_recv_len = 0
    /\ chars = 0 /\ missing = 0
    /\ shown = 0 /\ clean = FALSE /\ flips = 0 /\ packets = 0

-----------------------------------------------------------------------------
(* The transmitter: send_data(), once a tick. *)

MidPacket == ready = 1 /\ clk_i = 7

SendBit ==
    /\ MidPacket
    /\ pin' = Bit(stream[ind + 1], tx_ind)
    /\ tx_ind' = IF tx_ind = 0 THEN 7 ELSE tx_ind - 1
    /\ ind' = IF tx_ind = 0 THEN (ind + 1) % PKT_SIZE ELSE ind
    /\ ready' = IF tx_ind = 0 /\ ind = PKT_SIZE - 1 THEN 0 ELSE ready
    /\ UNCHANGED <<txCali, clk_i>>

\* The pin keeps the last level once the calibration is over.
SendClock ==
    /\ ~MidPacket
    /\ pin' = IF txCali = 0 THEN Bit(CALI_DATA, clk_i) ELSE pin
    /\ clk_i' = IF clk_i = 0 THEN 7 ELSE clk_i - 1
    /\ UNCHANGED <<txCali, ready, ind, tx_ind>>

-----------------------------------------------------------------------------
(* The receiver: recv_data(), in every tick it sees, with what it prints. *)

Shifted(bit) == ((2 * data_in) + bit) % 256

\* Characters in the USART a tick later.
Drained == IF chars > CharsPerTick THEN chars - CharsPerTick ELSE 0

\* Ticks the routine waits for room, one of which stays pending.
Report(n) ==
    LET over == Drained + n - 2
        wait == (over + CharsPerTick - 1) \div CharsPerTick
    IN chars' = Drained + n /\ missing' = IF over > 0 THEN wait - 1 ELSE 0

Silent == chars' = Drained /\ missing' = missing

Unseen ==
    /\ missing > 0 /\ missing' = missing - 1 /\ chars' = Drained
    /\ UNCHANGED <<cali, rx_ind, data_in, is_synced, sync_triggered, inside_pkt, pkt_len,
                   pkt_recv_len, shown>>

NextByte == data_in' = 0 /\ rx_ind' = 7
Framing == <<is_synced, sync_triggered>>
Packet == <<inside_pkt, pkt_len, pkt_recv_len, shown>>

Calibrate(bit) ==
    /\ cali = 0
    /\ data_in' = Shifted(bit)
    /\ IF data_in' = CALI_DATA THEN cali' = 1 /\ Report(22) ELSE cali' = cali /\ Report(5)
    /\ UNCHANGED <<rx_ind, Framing, Packet>>

Shift(bit) ==
    /\ cali = 1 /\ rx_ind # 0
    /\ rx_ind' = rx_ind - 1 /\ data_in' = Shifted(bit) /\ Silent
    /\ UNCHANGED <<cali, Framing, Packet>>

Due == cali = 1 /\ rx_ind = 0

Hunt(bit) ==
    /\ Due /\ is_synced = 0 /\ sync_triggered = 0
    /\ data_in' = Shifted(bit)
    /\ IF data_in' = PKT_SYNC THEN sync_triggered' = 1 /\ rx_ind' = 1 /\ Report(3)
                              ELSE sync_triggered' = 0 /\ rx_ind' = 0 /\ Silent
    /\ UNCHANGED <<cali, is_synced, Packet>>

\* Two bits at a time, until the two of PKT_DUMMY come.
Sync(bit) ==
    LET d == Shifted(bit) IN
    /\ Due /\ is_synced = 0 /\ sync_triggered = 1
    /\ \/ /\ d = PKT_SYNC /\ data_in' = d /\ rx_ind' = 1 /\ Report(1) /\ UNCHANGED Framing
       \/ /\ d = ((PKT_SYNC * 4) + (PKT_DUMMY \div 64)) % 256
          /\ data_in' = d /\ rx_ind' = 5 /\ Report(1) /\ UNCHANGED Framing
       \/ /\ d = PKT_DUMMY /\ NextByte /\ Report(1) /\ is_synced' = 1 /\ UNCHANGED sync_triggered
       \/ /\ d \notin {PKT_SYNC, ((PKT_SYNC * 4) + (PKT_DUMMY \div 64)) % 256, PKT_DUMMY}
          /\ NextByte /\ Report(5) /\ sync_triggered' = 0 /\ UNCHANGED is_synced
    /\ UNCHANGED <<cali, Packet>>

ByteDue == Due /\ is_synced = 1 /\ NextByte /\ cali' = cali
Hunting == is_synced = 0 /\ sync_triggered = 0
Unsync == is_synced' = 0 /\ sync_triggered' = 0

Start(bit) ==
    /\ inside_pkt = 0 /\ ByteDue
    /\ IF Shifted(bit) = PKT_START THEN inside_pkt' = 1 /\ UNCHANGED Framing /\ Report(1)
                                   ELSE inside_pkt' = 0 /\ Unsync /\ Report(5)
    /\ UNCHANGED <<pkt_len, pkt_recv_len, shown>>

Len1(bit) ==
    /\ inside_pkt = 1 /\ ByteDue
    /\ inside_pkt' = 2 /\ pkt_len' = 16 * ASCII_TO_NUM(Shifted(bit)) /\ shown' = 0 /\ Report(7)
    /\ UNCHANGED <<Framing, pkt_recv_len>>

Len2(bit) ==
    /\ inside_pkt = 2 /\ ByteDue
    /\ inside_pkt' = 3 /\ pkt_len' = Or(pkt_len, ASCII_TO_NUM(Shifted(bit)))
    /\ pkt_recv_len' = 0 /\ Report(11)
    /\ UNCHANGED <<Framing, shown>>

DataByte(bit) ==
    /\ inside_pkt = 3 /\ ByteDue /\ pkt_recv_len < pkt_len
    /\ pkt_recv_len' = pkt_recv_len + 1 /\ Report(3)
    /\ shown' = IF shown \in 0..(Len(Payload) - 1) /\ Shifted(bit) = Payload[shown + 1]
                THEN shown + 1 ELSE -1
    /\ UNCHANGED <<Framing, inside_pkt, pkt_len>>

Filler_Uncounted(bit) ==    \* mutant: the fill bytes are not counted
    /\ inside_pkt = 3 /\ ByteDue /\ pkt_recv_len >= pkt_len /\ pkt_recv_len < PKT_DATA_SIZE
    /\ Report(2)
    /\ UNCHANGED <<Framing, inside_pkt, pkt_len, pkt_recv_len, shown>>

Filler(bit) ==
    /\ inside_pkt = 3 /\ ByteDue /\ pkt_recv_len >= pkt_len /\ pkt_recv_len < PKT_DATA_SIZE
    /\ pkt_recv_len' = pkt_recv_len + 1 /\ Report(2)
    /\ UNCHANGED <<Framing, inside_pkt, pkt_len, shown>>

End(bit) ==
    /\ inside_pkt = 3 /\ ByteDue /\ pkt_recv_len >= pkt_len /\ pkt_recv_len >= PKT_DATA_SIZE
    /\ inside_pkt' = 0 /\ Unsync
    /\ Report(IF Shifted(bit) = PKT_END THEN 3 ELSE 32)
    /\ UNCHANGED <<pkt_len, pkt_recv_len, shown>>

Receive(bit) ==
    \/ Unseen
    \/ /\ missing = 0
       /\ \/ Calibrate(bit) \/ Shift(bit) \/ Hunt(bit) \/ Sync(bit) \/ Start(bit) \/ Len1(bit)
          \/ Len2(bit) \/ DataByte(bit) \/ Filler(bit) \/ End(bit)

-----------------------------------------------------------------------------
Tick(flip) ==
    /\ SendBit \/ SendClock
    /\ flips' = flips + flip
    /\ Receive((pin' + flip) % 2)
    /\ clean' = /\ flip = 0
                /\ IF MidPacket /\ ind = 0 /\ tx_ind = 7 THEN cali = 1 /\ Hunting /\ rx_ind = 0 /\ missing = 0
                   ELSE clean
    /\ UNCHANGED packets

\* The transmitter's button: the first press ends the calibration.
Calibrated ==
    /\ txCali = 0 /\ txCali' = 1
    /\ UNCHANGED <<ready, ind, tx_ind, clk_i, pin, rxVars, clean, flips, packets>>

\* Held for 20 ms, it sends the packet.
Ready ==
    /\ txCali = 1 /\ packets < MaxPackets
    /\ packets' = packets + 1 /\ ready' = 1
    /\ UNCHANGED <<txCali, ind, tx_ind, clk_i, pin, rxVars, clean, flips>>

Program == Tick(0)

Next == Program \/ (flips < MaxFlips /\ Tick(1)) \/ Calibrated \/ Ready

-----------------------------------------------------------------------------
\* "All packetized data" is displayed: of a packet that finds the receiver hunting,
\* with no bit disturbed on the air, every byte of the payload.
PacketReceived == (clean /\ ind = 0 /\ tx_ind = 7) => shown = Len(Payload)
=============================================================================
