----------------------------- MODULE Waveforms -----------------------------
(***************************************************************************)
(* waveforms.c: a timer interrupt every 100 us puts out four square waves  *)
(* and the next amplitude of a sine wave, of which only the first quarter  *)
(* is tabulated and walked up and down.                                    *)
(***************************************************************************)
EXTENDS Integers, Sequences

CONSTANTS
    sine,             \* the table, from 0 to 90 degrees
    AMPLIFICATION,
    CYCLE             \* interrupts of a square wave: 10 with ONE_KHZ, else 100

DC_OFF == 127
period == <<1, 2, 5, 8>>

VARIABLES
    hus_cnt, cycle,
    index,           \* i
    OCR2, square,    \* duty of the PWM; PA0 to PA3
    time             \* history: interrupts, modulo the periods of all waves

vars == <<hus_cnt, cycle, index, OCR2, square, time>>

Quarter == Len(sine) - 1
Ticks == 4 * Quarter * CYCLE

set_amplitude_centred(a) == OCR2' = (DC_OFF + a) % 256

Init ==
    /\ hus_cnt = 0 /\ cycle = 0 /\ index = 0
    /\ OCR2 = 0 /\ square = <<0, 0, 0, 0>> /\ time = 0

generate_square_waves == square' = [k \in 1..4 |-> IF hus_cnt < period[k] THEN 1 ELSE 0]

\* Up in the even quarters, down in the odd ones; above the centre in the first two.
Walk(top) ==
    IF index = top THEN cycle' = (cycle + 1) % 4 /\ index' = IF top = 0 THEN index + 1 ELSE index - 1
    ELSE cycle' = cycle /\ index' = IF top = 0 THEN index - 1 ELSE index + 1

generate_amp_based_symmetric_wave ==
    /\ Walk(IF cycle % 2 = 0 THEN Quarter ELSE 0)
    /\ set_amplitude_centred(AMPLIFICATION * (IF cycle < 2 THEN sine[index + 1] ELSE -sine[index + 1]))

Timer ==
    /\ generate_square_waves /\ generate_amp_based_symmetric_wave
    /\ hus_cnt' = (hus_cnt + 1) % CYCLE /\ time' = (time + 1) % Ticks

Next == Timer

-----------------------------------------------------------------------------
\* The wave after n interrupts, by the quarter of its period and the place in it.
SineAt(n) ==
    LET q == (n \div Quarter) % 4  k == n % Quarter
    IN CASE q = 0 -> sine[k + 1]
         [] q = 1 -> sine[Quarter - k + 1]
         [] q = 2 -> -sine[k + 1]
         [] OTHER -> -sine[Quarter - k + 1]

\* What the last interrupt put out: at the turns of the walk no sample of the sine is
\* left out or repeated, and the square waves keep in step with it.
WavesInShape ==
    (OCR2 # 0) =>
        LET n == (time + Ticks - 1) % Ticks IN
        /\ OCR2 = DC_OFF + (AMPLIFICATION * SineAt(n))
        /\ \A k \in 1..4 : (square[k] = 1) = (n % CYCLE < period[k])
=============================================================================
