------------------------------- MODULE RtcBus -------------------------------
(***************************************************************************)
(* twi.c and rtc.c as the master of a two-wire bus with a DS1307: one      *)
(* action per status the code waits for.  The DS1307 is external: its      *)
(* register pointer, and the time registers it copies at every START so    *)
(* that a transfer reads one instant.  An acknowledge may be lost, with    *)
(* the byte or without; the DS1307 is the only slave and there is no other *)
(* master, so while it sends nothing is acknowledged but by the code.      *)
(***************************************************************************)
EXTENDS Integers, Sequences

CONSTANTS
    MaxFaults    \* bound: acknowledges that get lost

VARIABLES
    xfer,      \* the call: bytes to send, bytes to receive, stage, bytes done
    rtc_reg,   \* the bytes received: rtc_reg[], not initialised
    ret,       \* what the last call returned
    chip,      \* DS1307: registers 0..7
    latch,     \* DS1307: its time registers at the last START
    slave,     \* DS1307: direction ("none", "pointer", "in", "out") and register pointer
    faults

busVars == <<xfer, rtc_reg, ret, chip, latch, slave, faults>>

Byte == 0..255
TimeRegs == 0..6
Control == 7

Bcd(n) == ((n \div 10) * 16) + (n % 10)
FromBcd(b) == (10 * (b \div 16)) + (b % 16)

\* The seven arguments of rtc_set() and the registers they are written to.
Fields == {"s", "m", "h", "dy", "d", "mo", "y"}
Reg == [s |-> 0, m |-> 1, h |-> 2, dy |-> 3, d |-> 4, mo |-> 5, y |-> 6]

Encoded(t) == [r \in TimeRegs |->
    LET f == CHOOSE g \in Fields : Reg[g] = r IN IF f = "dy" THEN t.dy ELSE Bcd(t[f])]

Decoded(reg) == [f \in Fields |->
    CASE f = "dy" -> reg[3]
      [] f = "s"  -> FromBcd(reg[0] % 128)
      [] OTHER    -> FromBcd(reg[Reg[f]])]

Halted(reg) == reg[0] >= 128

\* The calls of rtc.c.
Idle == [tx |-> <<>>, rx |-> 0, at |-> "idle", i |-> 0]
Call(tx, rx) ==
    xfer' = [tx |-> tx, rx |-> rx, at |-> "start", i |-> 0] /\ UNCHANGED <<rtc_reg, ret, chip, latch, slave, faults>>

rtc_set(t) == Call(<<0>> \o [i \in 1..7 |-> Encoded(t)[i - 1]], 0)
rtc_get == Call(<<0>>, 7)
rtc_set_sq_wave(f) == Call(<<Control, 16 + f>>, 0)

Stage(s) == xfer.at = s
Goto(s) == xfer' = [xfer EXCEPT !.at = s, !.i = 0]

-----------------------------------------------------------------------------
BusInit(Contents) ==
    /\ xfer = Idle /\ rtc_reg = [i \in TimeRegs |-> 0] /\ ret = 0
    /\ chip \in Contents /\ latch = [r \in TimeRegs |-> chip[r]]
    /\ slave = [dir |-> "none", ptr |-> 0] /\ faults = 0

Latch == latch' = [r \in TimeRegs |-> chip[r]]

\* STOP, and the call returns.
Finish(r) == xfer' = Idle /\ ret' = r /\ slave' = [slave EXCEPT !.dir = "none"]

\* The DS1307 takes a byte: the first is the register the next ones go to.
Taken(b) ==
    IF slave.dir = "pointer"
    THEN slave' = [dir |-> "in", ptr |-> b] /\ chip' = chip
    ELSE slave' = [slave EXCEPT !.ptr = @ + 1] /\ chip' = [chip EXCEPT ![slave.ptr] = b]

SendStart ==
    /\ Stage("start") /\ slave.dir = "none"
    /\ Latch /\ Goto("sla_w")
    /\ UNCHANGED <<rtc_reg, ret, chip, slave, faults>>

SendRestart ==
    /\ Stage("restart")
    /\ Latch /\ Goto("sla_r") /\ slave' = [slave EXCEPT !.dir = "none"]
    /\ UNCHANGED <<rtc_reg, ret, chip, faults>>

SendAddress ==
    /\ Stage("sla_w") \/ Stage("sla_r")
    /\ IF Stage("sla_w") THEN Goto("tx") /\ slave' = [slave EXCEPT !.dir = "pointer"]
                         ELSE Goto("rx") /\ slave' = [slave EXCEPT !.dir = "out"]
    /\ UNCHANGED <<rtc_reg, ret, chip, latch, faults>>

SendData ==
    /\ Stage("tx") /\ xfer.i < Len(xfer.tx)
    /\ Taken(xfer.tx[xfer.i + 1])
    /\ xfer' = [xfer EXCEPT !.i = @ + 1]
    /\ UNCHANGED <<rtc_reg, ret, latch, faults>>

\* All sent: the transfer turns round, or is over.
Sent ==
    /\ Stage("tx") /\ xfer.i = Len(xfer.tx)
    /\ IF xfer.rx > 0 THEN Goto("restart") /\ UNCHANGED <<ret, slave>> ELSE Finish(0)
    /\ UNCHANGED <<rtc_reg, chip, latch, faults>>

\* The last byte is not acknowledged, and with that the DS1307 lets go of the line.
RecvData ==
    /\ Stage("rx")
    /\ rtc_reg' = [rtc_reg EXCEPT ![xfer.i] = IF slave.ptr \in TimeRegs THEN latch[slave.ptr]
                                            ELSE chip[slave.ptr]]
    /\ IF xfer.i + 1 < xfer.rx
       THEN xfer' = [xfer EXCEPT !.i = @ + 1] /\ slave' = [slave EXCEPT !.ptr = @ + 1] /\ ret' = ret
       ELSE Finish(0)
    /\ UNCHANGED <<chip, latch, faults>>

\* An address or a byte finds no acknowledge: QUIT_TWI_OP.
NoAck_Lost ==    \* mutant: returns success
    /\ faults < MaxFaults /\ faults' = faults + 1
    /\ Stage("sla_w") \/ Stage("sla_r") \/ (Stage("tx") /\ xfer.i < Len(xfer.tx))
    /\ Finish(0) /\ UNCHANGED <<rtc_reg, chip, latch>>

NoAck ==
    /\ faults < MaxFaults /\ faults' = faults + 1
    /\ Stage("sla_w") \/ Stage("sla_r") \/ (Stage("tx") /\ xfer.i < Len(xfer.tx))
    /\ Finish(-1)
    /\ chip' \in {chip} \cup (IF Stage("tx") /\ slave.dir = "in"
                              THEN {[chip EXCEPT ![slave.ptr] = xfer.tx[xfer.i + 1]]} ELSE {})
    /\ UNCHANGED <<rtc_reg, latch>>

Twi == SendStart \/ SendRestart \/ SendAddress \/ SendData \/ Sent \/ RecvData \/ NoAck

-----------------------------------------------------------------------------
(* External: the DS1307's second.  It starts anew when a transfer writes the   *)
(* seconds, so none ends before the transfer does.                              *)

DaysIn(t) == CASE t.mo \in {4, 6, 9, 11} -> 30
               [] t.mo = 2 -> (IF t.y % 4 = 0 THEN 29 ELSE 28)
               [] OTHER -> 31

NextSecond(t) ==
    LET hour == t.s = 59 /\ t.m = 59
        day == hour /\ t.h = 23
        month == day /\ t.d >= DaysIn(t)
        year == month /\ t.mo = 12
    IN
    [s |-> (t.s + 1) % 60,
     m |-> IF t.s = 59 THEN (t.m + 1) % 60 ELSE t.m,
     h |-> IF hour THEN (t.h + 1) % 24 ELSE t.h,
     dy |-> IF day THEN (t.dy % 7) + 1 ELSE t.dy,
     d |-> IF month THEN 1 ELSE IF day THEN t.d + 1 ELSE t.d,
     mo |-> IF year THEN 1 ELSE IF month THEN t.mo + 1 ELSE t.mo,
     y |-> IF year THEN (t.y + 1) % 100 ELSE t.y]

Second ==
    /\ ~Halted(chip) /\ slave.dir # "in"
    /\ chip' = [r \in DOMAIN chip |-> IF r \in TimeRegs THEN Encoded(NextSecond(Decoded(chip)))[r]
                                      ELSE chip[r]]
    /\ UNCHANGED <<xfer, rtc_reg, ret, latch, slave, faults>>
=============================================================================
