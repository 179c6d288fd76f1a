------------------------------ MODULE IrRemote ------------------------------
(***************************************************************************)
(* ir_remote.c: the main loop posts bursts, carrier on or off for a number *)
(* of cycles, through one slot; the timer's interrupt, twice a cycle,      *)
(* takes the next one when the last has run out and switches the carrier.  *)
(***************************************************************************)
EXTENDS Integers, Sequences

CONSTANTS
    Header, One, Zero,    \* burst pairs, <<cycles on, cycles off>>: the source's, scaled down
    Trail,                \* cycles on
    LoopDelay,            \* 20 ms, in half cycles
    MaxCodes              \* bound

VARIABLES
    pc,               \* "loop", "post" (a set_carrier_*_cycles() call), "delay"
    next,             \* the call of send_samsung_ir_code() that is next
    delay,
    not_processed, cycles_to_load, carrier_state_to_load,
    half_cycle, cycles, carrier_state,    \* the interrupt routine's own
    carrier,          \* OC2 is connected to the pin
    wave,             \* history: bursts of this code on the air, <<state, cycles>>
    late,             \* an interrupt has come since the main loop could go on
    codes

slot == <<not_processed, cycles_to_load, carrier_state_to_load>>
isr == <<half_cycle, cycles, carrier_state, carrier>>
vars == <<pc, next, delay, slot, isr, wave, late, codes>>

on == 1
off == 0
silence == 2    \* off, and no burst asked for

-----------------------------------------------------------------------------
Bit(word, i) == (word \div (2^i)) % 2

Pre == 57568    \* 0xE0E0
POWER == 16575    \* 0x40BF
WordBits == 16
Uint16 == 65536

burst_pair(p) == <<<<on, p[1]>>, <<off, p[2]>>>>

\* LSB to be sent out first.
DataBits(word) ==
    [i \in 1..(2 * WordBits) |->
        burst_pair(IF Bit(word, (i - 1) \div 2) = 1 THEN One ELSE Zero)[((i - 1) % 2) + 1]]

\* The set_carrier_*_cycles() calls of one key code, in order.
IrCode == burst_pair(Header) \o DataBits(Pre) \o DataBits(POWER) \o <<<<on, Trail>>>>

Init ==
    /\ pc = "loop" /\ next = 1 /\ delay = 0
    /\ not_processed = 0 /\ cycles_to_load = 0 /\ carrier_state_to_load = off
    /\ half_cycle = 0 /\ cycles = 0 /\ carrier_state = off /\ carrier = off
    /\ wave = <<>> /\ late = FALSE /\ codes = 0

\* A step of the main loop, which then has to wait for the interrupt or not.
Blocked == (pc = "delay" /\ delay > 0) \/ (pc = "post" /\ not_processed = 1)

\* BUTTON is down.
Pressed ==
    /\ pc = "loop" /\ codes < MaxCodes /\ codes' = codes + 1
    /\ pc' = "post" /\ next' = 1 /\ late' = FALSE
    /\ UNCHANGED <<delay, slot, isr, wave>>

NotPressed ==
    /\ pc = "loop" /\ pc' = "delay" /\ delay' = LoopDelay /\ late' = FALSE
    /\ UNCHANGED <<next, slot, isr, wave, codes>>

\* while (not_processed) ...; the two values, which are not volatile.
Post ==
    /\ pc = "post" /\ not_processed = 0
    /\ cycles_to_load' = IrCode[next][2] /\ carrier_state_to_load' = IrCode[next][1]
    /\ pc' = "flag"
    /\ UNCHANGED <<next, delay, not_processed, isr, wave, late, codes>>

Flag ==
    /\ pc = "flag" /\ not_processed' = 1 /\ late' = FALSE
    /\ IF next < Len(IrCode) THEN pc' = "post" /\ next' = next + 1 /\ delay' = delay
                             ELSE pc' = "delay" /\ next' = next /\ delay' = LoopDelay
    /\ UNCHANGED <<cycles_to_load, carrier_state_to_load, isr, wave, codes>>

Wake ==
    /\ pc = "delay" /\ delay = 0 /\ pc' = "loop" /\ late' = FALSE
    /\ UNCHANGED <<next, delay, slot, isr, wave, codes>>

-----------------------------------------------------------------------------
(* TIMER2_COMP_vect.  RECHECK_WAIT_DELAY and the routine itself are together   *)
(* shorter than a cycle: one interrupt may come before the main loop sees that *)
(* it can go on, not two.                                                       *)

Interrupt ==
    /\ Blocked \/ ~late
    /\ late' = ~Blocked
    /\ half_cycle' = 1 - half_cycle
    /\ delay' = IF Blocked /\ pc = "delay" THEN delay - 1 ELSE delay
    /\ UNCHANGED <<pc, next, codes>>

MidCycle ==
    /\ half_cycle = 0 /\ Interrupt
    /\ UNCHANGED <<slot, cycles, carrier_state, carrier, wave>>

Complete == Len(wave) = Len(IrCode)

Continue ==
    /\ half_cycle = 1 /\ cycles > 0 /\ Interrupt
    /\ cycles' = cycles - 1
    /\ wave' = [wave EXCEPT ![Len(wave)] = <<@[1], @[2] + 1>>]
    /\ UNCHANGED <<slot, carrier_state, carrier>>

Load_NoCount ==    \* mutant: the first cycle of a burst is not counted
    /\ half_cycle = 1 /\ cycles = 0 /\ not_processed = 1 /\ Interrupt
    /\ cycles' = cycles_to_load /\ carrier_state' = carrier_state_to_load
    /\ carrier' = carrier_state_to_load /\ not_processed' = 0
    /\ wave' = Append(IF Complete THEN <<>> ELSE wave, <<carrier_state_to_load, 1>>)
    /\ UNCHANGED <<cycles_to_load, carrier_state_to_load>>

Load ==
    /\ half_cycle = 1 /\ cycles = 0 /\ not_processed = 1 /\ Interrupt
    /\ cycles' = (cycles_to_load - 1) % Uint16 /\ carrier_state' = carrier_state_to_load
    /\ carrier' = carrier_state_to_load /\ not_processed' = 0
    /\ wave' = Append(IF Complete THEN <<>> ELSE wave, <<carrier_state_to_load, 1>>)
    /\ UNCHANGED <<cycles_to_load, carrier_state_to_load>>

\* Nothing else to do: silence, which belongs behind a code and not into it.
SwitchOff ==
    /\ half_cycle = 1 /\ cycles = 0 /\ not_processed = 0 /\ Interrupt
    /\ carrier' = off
    /\ wave' = IF wave = <<>> \/ Complete THEN wave ELSE Append(wave, <<silence, 0>>)
    /\ UNCHANGED <<slot, cycles, carrier_state>>

Program == Pressed \/ NotPressed \/ Post \/ Flag \/ Wake

Next == Program \/ MidCycle \/ Continue \/ Load \/ SwitchOff

-----------------------------------------------------------------------------
\* On the air is the key code, burst by burst, every one as many cycles as asked
\* for and none lost, doubled or followed by a gap, although the main loop and the
\* interrupt share one slot and a cycle is all the time there is to fill it.
BurstsInOrder ==
    LET asked == IrCode
        sent == IF Len(wave) = Len(asked) /\ carrier = off THEN Len(wave) ELSE Len(wave) - 1
    IN
    /\ Len(wave) <= Len(asked)
    /\ \A i \in 1..sent : wave[i] = asked[i]
    /\ wave # <<>> => LET l == Len(wave) IN wave[l][1] = asked[l][1] /\ wave[l][2] <= asked[l][2]
    /\ cycles > 0 => carrier = wave[Len(wave)][1]
=============================================================================
