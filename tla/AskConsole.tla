----------------------------- MODULE AskConsole -----------------------------
(***************************************************************************)
(* ask_rf_demo2.c, with CALI and PROMISCUS as in the source, on two        *)
(* boards that hear each other: each sends a calibration byte until it     *)
(* has heard one itself, then the lines typed on its console.  A bit takes *)
(* ten timer interrupts of a millisecond.  What the timer routine prints   *)
(* goes out at a character a millisecond; the USART holds two, for the     *)
(* others the routine waits, and of the interrupts that fall due meanwhile *)
(* one stays pending.                                                      *)
(***************************************************************************)
EXTENDS Integers, Sequences

CONSTANTS
    DataSize,     \* size of data_out
    Text,         \* what is typed on the first console
    Builds,       \* [timerFirst, before]: whether TIMER0_COMP goes before USART_RXC (on the
                  \* ATmega32, not on the ATmega16), and the byte that is four before data_out
    Starts        \* [clk, ms]: the bit the first board is at when the second is switched on,
                  \* and the time until that one's first bit

Boards == {1, 2}
Other(b) == 3 - b

VARIABLES
    con,          \* the boards
    build,        \* fixed
    keys

vars == <<con, build, keys>>

CALI_DATA == 236    \* 0xEC
PKT_START == 190    \* 0xBE
PKT_DUMMY == 191    \* 0xBF
PKT_END == 237    \* 0xED
DEF_DATA == {0, 255}

NUM_TO_ASCII(n) == IF n < 10 THEN 48 + n ELSE 55 + n
Bit(byte, i) == (byte \div (2^i)) % 2

Message(b) == SubSeq(con[b].data_out, 1, con[b].data_len)

\* Two bytes before the length, two after the data.  The first would be PKT_DUMMY too
\* but for a missing "else": its index is -4, so data_out[-4] is sent.
Stream(text) == <<build.before, PKT_START, NUM_TO_ASCII(Len(text) \div 16), NUM_TO_ASCII(Len(text) % 16)>>
                   \o text \o <<PKT_END, PKT_DUMMY>>

Fresh ==
    [due |-> 0,                                \* ms to the next bit
     cali |-> 0, ready |-> 0, data_out |-> [i \in 1..DataSize |-> 0], data_len |-> 0,
     typed |-> 0,                                            \* ind of the receive routine
     udr |-> 0,                                              \* character not read yet
     rx_ind |-> 7, data_in |-> 0,
     ind |-> -4, tx_ind |-> 7, clk_i |-> 7, data |-> 0, pin |-> 0,
     line |-> <<>>, air |-> <<>>,                            \* history: handed over, on the air
     inStep |-> TRUE]                                        \* the last byte taken was one that was sent

\* The first board has been on for a while when the second is switched on.
Init ==
    /\ \E s \in Starts :
           con = <<[Fresh EXCEPT !.clk_i = s.clk, !.due = 10], [Fresh EXCEPT !.due = s.ms]>>
    /\ build \in Builds /\ keys = 0

-----------------------------------------------------------------------------
(* The timer routine, every tenth time: recv_data(). *)

\* Ten interrupts after printing n characters, the first of them the pending one.
Period(n) == IF n > 2 THEN n + 7 ELSE 10

Shifted(b) == ((2 * con[b].data_in) + con[Other(b)].pin) % 256

\* That the other board has just sent the last bit of a byte.
AtByteEnd(b) == con[b].clk_i = 7 /\ con[b].tx_ind = 7

recv_data(b) ==
    LET c == con[b]  d == Shifted(b)
        Byte == [c EXCEPT !.data_in = 0, !.rx_ind = 7, !.inStep = AtByteEnd(Other(b)),
                          !.due = Period(IF d \in DEF_DATA \union {CALI_DATA} THEN 0 ELSE 10)]
    IN CASE c.cali = 0 /\ d = CALI_DATA -> [c EXCEPT !.data_in = d, !.cali = 1, !.due = Period(22)]
         [] c.cali = 0 /\ d # CALI_DATA -> [c EXCEPT !.data_in = d, !.due = Period(0)]
         [] c.cali = 1 /\ c.rx_ind > 0 ->
                [c EXCEPT !.data_in = d, !.rx_ind = @ - 1, !.due = Period(0)]
         [] OTHER -> Byte

(* send_data(), after it. *)

Current(c) == IF c.tx_ind = 7 THEN Stream(SubSeq(c.data_out, 1, c.data_len))[c.ind + 5] ELSE c.data

OnAir(c, bit) ==
    IF c.tx_ind = 7 THEN Append(c.air, bit)
    ELSE [c.air EXCEPT ![Len(c.air)] = (2 * @) + bit]

SendBit(c) ==
    LET bit == Bit(Current(c), c.tx_ind)
        d == [c EXCEPT !.data = Current(c), !.pin = bit, !.air = OnAir(c, bit)]
    IN IF c.tx_ind > 0 THEN [d EXCEPT !.tx_ind = @ - 1]
       ELSE IF c.ind = c.data_len + 1 THEN [d EXCEPT !.tx_ind = 7, !.ind = -4, !.ready = 0]
       ELSE [d EXCEPT !.tx_ind = 7, !.ind = @ + 1]

SendClock(c) ==
    [c EXCEPT !.pin = IF c.cali = 0 THEN Bit(CALI_DATA, c.clk_i) ELSE @,
              !.clk_i = IF @ = 0 THEN 7 ELSE @ - 1]

send_data(c) == IF c.ready = 1 /\ c.clk_i = 7 THEN SendBit(c) ELSE SendClock(c)

Starved(c) == ~build.timerFirst /\ c.udr # 0 /\ c.ready = 1

Next10(b) ==
    LET c == con[b] IN
    /\ ~Starved(c)
    /\ \A o \in Boards : ~Starved(con[o]) => c.due <= con[o].due
    /\ con' = [o \in Boards |-> IF o = b THEN send_data(recv_data(b))
                                ELSE [con[o] EXCEPT !.due = IF @ > c.due THEN @ - c.due ELSE 0]]
    /\ UNCHANGED <<build, keys>>

-----------------------------------------------------------------------------
(* The receive interrupt.  With ready set it returns at once, and the character that *)
(* it does not read calls it again. *)

\* The terminator of a full line goes behind data_out, to ready or to data_len, which
\* are both set after it.
EndLine(c) ==
    IF c.typed = 0 THEN c
    ELSE [c EXCEPT !.data_len = c.typed, !.ready = 1, !.typed = 0,
                   !.line = SubSeq(c.data_out, 1, c.typed), !.air = <<>>]

AddChar(c) ==
    IF c.typed < DataSize THEN [c EXCEPT !.data_out[c.typed + 1] = c.udr, !.typed = @ + 1] ELSE c

UsartRxc_Always(b) ==    \* mutant: ready is not looked at
    LET c == con[b] IN
    /\ c.udr # 0
    /\ con' = [con EXCEPT ![b] = [(IF c.udr = 10 THEN EndLine(c) ELSE AddChar(c)) EXCEPT !.udr = 0]]
    /\ UNCHANGED <<build, keys>>

UsartRxc(b) ==
    LET c == con[b] IN
    /\ c.udr # 0 /\ c.ready = 0
    /\ con' = [con EXCEPT ![b] = [(IF c.udr = 10 THEN EndLine(c) ELSE AddChar(c)) EXCEPT !.udr = 0]]
    /\ UNCHANGED <<build, keys>>

-----------------------------------------------------------------------------
(* The user. *)

\* The user types after the prompt "C>".
Type ==
    /\ keys < Len(Text) /\ (keys = 0 => con[1].cali = 1) /\ con[1].udr = 0
    /\ con' = [con EXCEPT ![1].udr = Text[keys + 1]] /\ keys' = keys + 1
    /\ UNCHANGED build

Program == \E b \in Boards : Next10(b) \/ UsartRxc(b)
Next == Program \/ Type

-----------------------------------------------------------------------------
\* The packet on the air is that of the line handed over, whatever is typed meanwhile.
SentAsTyped ==
    \A b \in Boards :
        LET c == con[b]
            complete == IF c.tx_ind = 7 THEN c.air ELSE SubSeq(c.air, 1, Len(c.air) - 1)
        IN IF c.ready = 1 THEN complete = SubSeq(Stream(c.line), 1, Len(complete))
           ELSE c.line # <<>> => complete = Stream(c.line)

Sent == build.timerFirst => \A b \in Boards : con[b].ready = 0

\* "calibration is done to sync w/ the byte start": a byte taken is one that was sent.
CalibratedInStep == \A b \in Boards : con[b].inStep
=============================================================================
