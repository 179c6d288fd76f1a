------------------------------ MODULE LedCube ------------------------------
(***************************************************************************)
(* led_cube.c with INT_BASED: the timer interrupt draws one layer of the   *)
(* 4x4x4 cube after the other while the main program sets and resets its   *)
(* coordinates.                                                            *)
(***************************************************************************)
EXTENDS Integers, Sequences

CONSTANTS
    program,     \* the calls of the main program, from the clear_cube() before its loop
    MaxTicks     \* bound: a longer delay is taken for this many interrupts

VARIABLES
    at,           \* the main program's next call
    ticks,        \* interrupts still to come in its delay
    cube_zy,      \* coordinates <<x, y, z>> that are set
    z_cur,
    draw,         \* where the interrupt routine is
    row,          \* the shift registers: Q1 to Q8 of the first, then of the second
    port_z, oe,
    \* history
    lit,          \* what was last seen of each layer
    calm          \* layers drawn since cube_zy changed, up to 4

vars == <<at, ticks, cube_zy, z_cur, draw, row, port_z, oe, lit, calm>>

N == 0..3
z_mask == <<1, 2, 64, 128>>

-----------------------------------------------------------------------------
(* The main program. *)

Call == program[at]

Init ==
    /\ at = 1 /\ ticks = 0 /\ cube_zy = {}
    /\ z_cur = 0 /\ draw = "idle" /\ row = [i \in 1..16 |-> 0] /\ port_z = 0 /\ oe = 0
    /\ lit = [z \in N |-> {}] /\ calm = 0

\* An interrupt every 1.088 ms.
Interrupts(ms) == IF ms - 1 > MaxTicks THEN MaxTicks ELSE ms - 1

\* The first call of the loop comes after clear_cube().
Advance == at' = IF at = Len(program) THEN 2 ELSE at + 1

Change(cube) ==
    /\ cube_zy' = cube /\ calm' = IF cube = cube_zy THEN calm ELSE 0
    /\ Advance /\ UNCHANGED ticks

Delay ==
    /\ Call[1] \in {"wait", "pause"}
    /\ ticks' = Interrupts(Call[2]) /\ Advance /\ UNCHANGED <<cube_zy, calm>>

Main ==
    /\ draw = "idle" /\ ticks = 0
    /\ \/ Call[1] = "set" /\ Change(cube_zy \union {Call[2]})
       \/ Call[1] = "reset" /\ Change(cube_zy \ {Call[2]})
       \/ Call[1] = "clear" /\ Change({})
       \/ Call[1] = "rand" /\ \E c \in N \X N \X N : Change(cube_zy \union {c})
       \/ Delay
    /\ UNCHANGED <<z_cur, draw, row, port_z, oe, lit>>

-----------------------------------------------------------------------------
(* The interrupt routine. *)

\* Sixteen bits shifted in, y and x from 3 down to 0: the last ends in Q1.
Bits == [i \in 1..16 |-> IF <<3 - ((i - 1) % 4), 3 - ((i - 1) \div 4), z_cur>> \in cube_zy THEN 1 ELSE 0]

Shifted(register, bits) ==
    [i \in 1..16 |-> IF i <= Len(bits) THEN bits[Len(bits) + 1 - i] ELSE register[i - Len(bits)]]

\* The wiring: Q1 is (0, 0), Q2 (1, 0), and so on; one pin of PORTC for each layer; dark with OE low.
Seen(registers, port) ==
    [z \in N |-> IF (port \div z_mask[z + 1]) % 2 = 1
                 THEN {c \in N \X N : registers[1 + c[1] + (4 * c[2])] = 1} ELSE lit[z]]

Interrupt ==
    /\ draw = "idle" /\ draw' = "shift" /\ oe' = 0
    /\ UNCHANGED <<at, ticks, cube_zy, z_cur, row, port_z, lit, calm>>

Shift ==
    /\ draw = "shift" /\ draw' = "show" /\ row' = Shifted(row, Bits)
    /\ lit' = IF oe = 1 THEN Seen(row', port_z) ELSE lit
    /\ UNCHANGED <<at, ticks, cube_zy, z_cur, port_z, oe, calm>>

NextLayer_Short == IF z_cur = 2 THEN 0 ELSE z_cur + 1    \* mutant: the last layer is left out
NextLayer == IF z_cur = 3 THEN 0 ELSE z_cur + 1

Show ==
    /\ draw = "show" /\ draw' = "idle"
    /\ port_z' = z_mask[z_cur + 1] /\ oe' = 1 /\ lit' = Seen(row, port_z')
    /\ z_cur' = NextLayer
    /\ ticks' = IF ticks = 0 THEN 0 ELSE ticks - 1
    /\ calm' = IF calm = 4 THEN 4 ELSE calm + 1
    /\ UNCHANGED <<at, cube_zy, row>>

Next == Main \/ Interrupt \/ Shift \/ Show

-----------------------------------------------------------------------------
\* Four interrupts after the last change each layer has been seen with the coordinates
\* that are set, at the places they are wired to.
CubeShown == calm = 4 => \A z \in N : lit[z] = {<<c[1], c[2]>> : c \in {d \in cube_zy : d[3] = z}}

\* Between two figures, and before the first, no LED stays on.
DarkBetween ==
    ((at = 2 \/ (at > 2 /\ program[at - 1][1] = "pause")) /\ ticks = 0 /\ draw = "idle") =>
        \A z \in N : lit[z] = {}
=============================================================================
