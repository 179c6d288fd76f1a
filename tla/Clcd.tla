-------------------------------- MODULE Clcd --------------------------------
(***************************************************************************)
(* clcd.c with CLCD_FOUR_BIT and CLCD_AUTO_POS, and the HD44780 that it    *)
(* drives (external).  A call is a tuple; it takes the steps that Ops      *)
(* lists, between any two of which an interrupt routine may make calls of  *)
(* its own.  Of the display only what decides how it reads the next        *)
(* nibble is kept, not the characters.                                     *)
(***************************************************************************)
EXTENDS Integers, Sequences

VARIABLES
    rs, en, bus,    \* PB1, PB0 and PD4-7
    clcd_pos,
    panel             \* [dl, half, lines, on, busy]: width of its interface, first nibble
                    \* of a byte or -1, lines, display on, ms until the next command

pins == <<rs, en, bus>>

\* A display that has just got its supply; its ports and position after a reset.
PowerOn == [dl |-> 8, half |-> -1, lines |-> 1, on |-> FALSE, busy |-> 0]
PortsReset == rs' = 0 /\ en' = 0 /\ bus' = 0 /\ clcd_pos' = 0

-----------------------------------------------------------------------------
(* The calls. *)

Cmd(c) == <<"cmd", c>>
Data(d) == <<"data", d>>
MoveTo(p) == <<"move", IF p > 31 THEN 0 ELSE p>>
Cls == <<"cls">>
PrintString(s) == [i \in 1..Len(s) |-> Data(s[i])]

\* 0x33 and 0x32 bring the display into step, in whatever state it is.
clcd_init_Short == <<Cmd(50), Cmd(40), Cmd(12), Cmd(6), Cls>>    \* mutant: no 0x33
clcd_init == <<Cmd(51), Cmd(50), Cmd(40), Cmd(12), Cmd(6), Cls>>    \* 0x33, 0x32, 0x28, 0x0C, 0x06

ddram_addr(p) == 128 + (IF p < 16 THEN p ELSE 64 + p - 16)

Nibble(type, n) == <<<<"rs", type>>, <<"bus", n>>, <<"up">>, <<"down">>>>
clcd_wr(type, val) == Nibble(type, val \div 16) \o Nibble(type, val % 16)

Ops(call) ==
    CASE call[1] = "cmd" -> clcd_wr(0, call[2])
      [] call[1] = "data" -> clcd_wr(1, call[2]) \o <<<<"load">>, <<"store">>>>
      [] call[1] = "move" -> <<<<"pos", call[2]>>>> \o clcd_wr(0, ddram_addr(call[2]))
      [] call[1] = "cls" -> clcd_wr(0, 1) \o <<<<"pos", 0>>, <<"delay">>>>
      [] OTHER -> <<call>>

\* Where the program, or its interrupt routine, is: the calls to make, the step of
\* the first of them, and a register.
At(calls) == [todo |-> calls, step |-> 1, reg |-> 0]
Op(c) == Ops(Head(c.todo))[c.step]
InCall(c) == c.todo # <<>> /\ c.step > 1

\* At the end of a line the position of the next one is sent.
After(c) ==
    LET next == IF c.step < Len(Ops(Head(c.todo))) THEN [c EXCEPT !.step = @ + 1]
                                                   ELSE At(Tail(c.todo))
    IN CASE Op(c)[1] = "load" -> [next EXCEPT !.reg = clcd_pos]
         [] Op(c)[1] = "store" /\ c.reg + 1 \in {16, 32} -> At(<<MoveTo(c.reg + 1)>> \o Tail(c.todo))
         [] OTHER -> next

-----------------------------------------------------------------------------
(* The HD44780. *)

\* Clear and home take 1.52 ms, the others less than the driver's delay.
Command(l, b) ==
    CASE b \in 32..63 -> [l EXCEPT !.dl = IF b \div 16 = 3 THEN 8 ELSE 4,
                                   !.lines = IF (b \div 8) % 2 = 1 THEN 2 ELSE 1]
      [] b \in 8..15 -> [l EXCEPT !.on = ((b \div 4) % 2 = 1)]
      [] b \in 1..3 -> [l EXCEPT !.busy = 2]
      [] OTHER -> l

\* The four pins that are not connected are read as ones.
Latched(l, type, n) ==
    CASE l.busy > 0 -> l
      [] l.busy = 0 /\ l.dl = 4 /\ l.half = -1 -> [l EXCEPT !.half = n]
      [] OTHER ->
           LET b == IF l.dl = 8 THEN (n * 16) + 15 ELSE (l.half * 16) + n
               m == [l EXCEPT !.half = -1]
           IN IF type = 0 THEN Command(m, b) ELSE m

OneMs(l) == [l EXCEPT !.busy = IF @ = 0 THEN 0 ELSE @ - 1]

InPhase == panel.dl = 4 /\ panel.half = -1 /\ panel.lines = 2 /\ panel.on

-----------------------------------------------------------------------------
\* What a step does to the port, the position and the display, which takes the nibble
\* when PB0 falls; the driver waits 1 ms after that.
Effect(o) ==
    /\ rs' = IF o[1] = "rs" THEN o[2] ELSE rs
    /\ bus' = IF o[1] = "bus" THEN o[2] ELSE bus
    /\ en' = CASE o[1] = "up" -> 1 [] o[1] = "down" -> 0 [] OTHER -> en
    /\ panel' = CASE o[1] = "down" -> OneMs(IF en = 1 THEN Latched(panel, rs, bus) ELSE panel)
                [] o[1] = "delay" -> OneMs(panel)
                [] OTHER -> panel

Position(c) ==
    clcd_pos' = CASE Op(c)[1] = "pos" -> Op(c)[2]
                  [] Op(c)[1] = "store" -> (c.reg + 1) % 256
                  [] OTHER -> clcd_pos

Step(c) == Effect(Op(c)) /\ Position(c)
=============================================================================
