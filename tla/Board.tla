-------------------------------- MODULE Board --------------------------------
(***************************************************************************)
(* The development board with one of its applications burnt in: the        *)
(* programmer demo, the clock, the infrared remote, the packet radio, the  *)
(* radio console, the pager, the flash command line, the LED cube, the     *)
(* wave generator or the menu; the radio ones on two boards.  An           *)
(* application has the processor for itself, so the state of the others is *)
(* the constant "off".                                                     *)
(***************************************************************************)
EXTENDS TargetChip, CubeFigures

CONSTANTS
    Apps,         \* the applications to look at
    code, OldFlash, OldEep, StuckFlash, StuckEep, MaxRestarts, MaxBounces,
    Rtc0, MaxFaults, MaxPresses, MaxSeconds,
    Header, One, Zero, Trail, LoopDelay, MaxCodes,
    CharsPerTick, MaxFlips, MaxPackets,
    LastLetter, Duniya, Sending, Received, Error, MaxLetters, MaxLost, MaxResets,
    DataSize, Text, Builds, Starts,
    Lines,
    MaxTicks,
    sine, AMPLIFICATION, CYCLE,
    Length

ASSUME BoardAssumption ==
    /\ Apps \subseteq {"demo", "clock", "remote", "radio", "pager", "console", "flash", "cube", "wave",
                "menu"}
    /\ code \in Seq(Word) /\ code # <<>> /\ Len(code) <= SPM_SZ_WORDS
    /\ OldFlash \in [0..(SPM_SZ_WORDS - 1) -> Word] /\ OldEep \in [0..(EepBytes - 1) -> Byte]
    /\ \A c \in Rtc0 : DOMAIN c = 0..7 /\ \A r \in 0..7 : c[r] \in Byte
    /\ \A p \in {Header, One, Zero} : p \in (Word \ {0}) \X (Word \ {0})
    /\ Trail \in Word \ {0} /\ LoopDelay \in Nat /\ CharsPerTick \in Nat \ {0}
    /\ Lines \subseteq Seq(Byte)
    /\ LastLetter \in 65..90 /\ MaxLetters \in 0..26
    /\ Duniya \in Seq(Byte) /\ Sending \in Seq(Byte) /\ Received \in Seq(Byte) /\ Error \in Seq(Byte)
    /\ DataSize \in 1..255 /\ Text \in Seq(Byte \ {0}) /\ \A b \in Builds : b.before \in Byte

\* A delay of the cube takes a frame at least; the sine's table starts at 0 degrees and its
\* peak fits under DC_OFF.
ASSUME FigureAssumption ==
    /\ {Speeds, Pixels, Rings, Waves} \subseteq Nat /\ MaxTicks \in Nat /\ MaxTicks >= 4
    /\ sine \in Seq(Nat) /\ Len(sine) > 1 /\ sine[1] = 0 /\ AMPLIFICATION \in Nat /\ CYCLE \in Nat \ {0}
    /\ \A i \in 1..Len(sine) : AMPLIFICATION * sine[i] <= 127

VARIABLES
    app,
    pc,                                                               \* of all but the radio
    after, waddr, addr, ts_pressed, mem, bench, eraseMsg, pgmMsg,     \* demo
    finger, pressed, bounces, restarts,
    cur_mode, cur_set_mode, is_halted, t, lcd, presses, seconds,      \* clock
    xfer, rtc_reg, ret, chip, latch, slave, faults,
    next, delay, not_processed, cycles_to_load, carrier_state_to_load,    \* remote
    half_cycle, cycles, carrier_state, carrier, wave, late, codes,
    txCali, ready, ind, tx_ind, clk_i, pin,                           \* radio
    cali, rx_ind, data_in, is_synced, sync_triggered, inside_pkt, pkt_len, pkt_recv_len,
    chars, missing, shown, clean, flips, packets,
    rs, en, bus, clcd_pos, panel,                                     \* pager
    main, isr, out, got, fifo, peer, received, torn, lost, resets,
    con, build, keys,                                                 \* console
    step, str, val, page, reboots,                                    \* flash
    at, ticks, cube_zy, z_cur, draw, row, port_z, oe, lit, calm,      \* cube
    hus_cnt, cycle, index, OCR2, square, time,                        \* wave
    menu_mode, fruit_i, day_i, cell, shift, poll                      \* menu

demoVars == <<after, waddr, addr, ts_pressed, mem, bench, eraseMsg, pgmMsg, finger, pressed, bounces,
              restarts>>
clockVars == <<cur_mode, cur_set_mode, is_halted, t, lcd, presses, seconds,
               xfer, rtc_reg, ret, chip, latch, slave, faults>>
remoteVars == <<next, delay, not_processed, cycles_to_load, carrier_state_to_load,
                half_cycle, cycles, carrier_state, carrier, wave, late, codes>>
radioVars == <<txCali, ready, ind, tx_ind, clk_i, pin, cali, rx_ind, data_in, is_synced,
               sync_triggered, inside_pkt, pkt_len, pkt_recv_len, chars, missing, shown, clean, flips,
               packets>>
pagerVars == <<rs, en, bus, clcd_pos, panel, main, isr, out, got, fifo, peer, received, torn, lost,
               resets>>
consoleVars == <<con, build, keys>>
flashVars == <<step, str, val, page, reboots>>
cubeVars == <<at, ticks, cube_zy, z_cur, draw, row, port_z, oe, lit, calm>>
waveVars == <<hus_cnt, cycle, index, OCR2, square, time>>
menuVars == <<menu_mode, fruit_i, day_i, cell, shift, poll>>
classic == <<demoVars, clockVars, remoteVars, radioVars>>
small == <<flashVars, cubeVars, waveVars, menuVars>>
vars == <<app, pc, classic, pagerVars, consoleVars, small>>

D == INSTANCE PgmerDemo
C == INSTANCE Clock
I == INSTANCE IrRemote
R == INSTANCE AskRf
P == INSTANCE RfSerial WITH MaxPackets <- MaxLetters
X == INSTANCE AskConsole
F == INSTANCE FlashCli WITH MaxResets <- MaxRestarts
L == INSTANCE LedCube
W == INSTANCE Waveforms
M == INSTANCE Menu WITH cur_mode <- menu_mode

\* The DS1307 holds a date and a time.
ASSUME RtcAssumption ==
    \A c \in Rtc0 : DOMAIN c = 0..7 /\ \A f \in C!Fields : C!Decoded(c)[f] \in C!First[f]..C!Last[f]

\* Each label and the value after it fit in a line of the display.
ASSUME MenuAssumption ==
    /\ DOMAIN Length = {"label", "fruit", "day"} /\ \A k \in DOMAIN Length : Length[k] \in Seq(Nat)
    /\ Len(Length["label"]) = 3 /\ Length["fruit"] # <<>> /\ Length["day"] # <<>>
    /\ \A l \in {1, 3} : \A v \in 1..Len(Length["fruit"]) :
           Length["label"][l] + Length["fruit"][v] <= 16
    /\ \A l \in {2, 3} : \A v \in 1..Len(Length["day"]) :
           Length["label"][l] + Length["day"][v] <= 16

Off(v) == v = "off"

-----------------------------------------------------------------------------
DemoOff ==
    /\ Off(after) /\ Off(waddr) /\ Off(addr) /\ Off(ts_pressed) /\ Off(mem) /\ Off(bench)
    /\ Off(eraseMsg) /\ Off(pgmMsg) /\ Off(finger) /\ Off(pressed) /\ Off(bounces) /\ Off(restarts)

ClockOff ==
    /\ Off(cur_mode) /\ Off(cur_set_mode) /\ Off(is_halted) /\ Off(t) /\ Off(lcd) /\ Off(presses)
    /\ Off(seconds) /\ Off(xfer) /\ Off(rtc_reg) /\ Off(ret) /\ Off(chip) /\ Off(latch) /\ Off(slave)
    /\ Off(faults)

RemoteOff ==
    /\ Off(next) /\ Off(delay) /\ Off(not_processed) /\ Off(cycles_to_load)
    /\ Off(carrier_state_to_load) /\ Off(half_cycle) /\ Off(cycles) /\ Off(carrier_state)
    /\ Off(carrier) /\ Off(wave) /\ Off(late) /\ Off(codes)

RadioOff ==
    /\ Off(txCali) /\ Off(ready) /\ Off(ind) /\ Off(tx_ind) /\ Off(clk_i) /\ Off(pin) /\ Off(cali)
    /\ Off(rx_ind) /\ Off(data_in) /\ Off(is_synced) /\ Off(sync_triggered) /\ Off(inside_pkt)
    /\ Off(pkt_len) /\ Off(pkt_recv_len) /\ Off(chars) /\ Off(missing) /\ Off(shown) /\ Off(clean)
    /\ Off(flips) /\ Off(packets)

PagerOff ==
    /\ Off(rs) /\ Off(en) /\ Off(bus) /\ Off(clcd_pos) /\ Off(panel) /\ Off(main) /\ Off(isr)
    /\ Off(out) /\ Off(got) /\ Off(fifo) /\ Off(peer) /\ Off(received) /\ Off(torn) /\ Off(lost)
    /\ Off(resets)

ConsoleOff == Off(con) /\ Off(build) /\ Off(keys)

FlashOff == Off(step) /\ Off(str) /\ Off(val) /\ Off(page) /\ Off(reboots)

CubeOff ==
    /\ Off(at) /\ Off(ticks) /\ Off(cube_zy) /\ Off(z_cur) /\ Off(draw) /\ Off(row)
    /\ Off(port_z) /\ Off(oe) /\ Off(lit) /\ Off(calm)

WaveOff == Off(hus_cnt) /\ Off(cycle) /\ Off(index) /\ Off(OCR2) /\ Off(square) /\ Off(time)

MenuOff == Off(menu_mode) /\ Off(fruit_i) /\ Off(day_i) /\ Off(cell) /\ Off(shift) /\ Off(poll)

Init ==
    /\ app \in Apps
    /\ IF app = "demo" THEN D!Init ELSE DemoOff
    /\ IF app = "clock" THEN C!Init ELSE ClockOff
    /\ IF app = "remote" THEN I!Init ELSE RemoteOff
    /\ IF app = "radio" THEN R!Init ELSE RadioOff
    /\ IF app = "pager" THEN P!Init ELSE PagerOff
    /\ IF app = "console" THEN X!Init ELSE ConsoleOff
    /\ IF app = "flash" THEN F!Init ELSE FlashOff
    /\ IF app = "cube" THEN L!Init ELSE CubeOff
    /\ IF app = "wave" THEN W!Init ELSE WaveOff
    /\ IF app = "menu" THEN M!Init ELSE MenuOff
    /\ app \notin {"demo", "clock", "remote"} => Off(pc)

Modern == UNCHANGED <<pagerVars, consoleVars, small>>

Demo(A) == app = "demo" /\ A /\ UNCHANGED <<app, clockVars, remoteVars, radioVars>> /\ Modern
Clock(A) == app = "clock" /\ A /\ UNCHANGED <<app, demoVars, remoteVars, radioVars>> /\ Modern
Remote(A) == app = "remote" /\ A /\ UNCHANGED <<app, demoVars, clockVars, radioVars>> /\ Modern
Radio(A) == app = "radio" /\ A /\ UNCHANGED <<app, pc, demoVars, clockVars, remoteVars>> /\ Modern
Pager(A) == app = "pager" /\ A /\ UNCHANGED <<app, pc, classic, consoleVars, small>>
Console(A) == app = "console" /\ A /\ UNCHANGED <<app, pc, classic, pagerVars, small>>
Flash(A) ==
    /\ app = "flash" /\ A
    /\ UNCHANGED <<app, pc, classic, pagerVars, consoleVars, cubeVars, waveVars, menuVars>>
Cube(A) ==
    /\ app = "cube" /\ A
    /\ UNCHANGED <<app, pc, classic, pagerVars, consoleVars, flashVars, waveVars, menuVars>>
Wave(A) ==
    /\ app = "wave" /\ A
    /\ UNCHANGED <<app, pc, classic, pagerVars, consoleVars, flashVars, cubeVars, menuVars>>
Menu(A) ==
    /\ app = "menu" /\ A
    /\ UNCHANGED <<app, pc, classic, pagerVars, consoleVars, flashVars, cubeVars, waveVars>>

Next ==
    \/ Demo(D!Next) \/ Clock(C!Next) \/ Remote(I!Next) \/ Radio(R!Next) \/ Pager(P!Next)
    \/ Console(X!Next) \/ Flash(F!Next) \/ Cube(L!Next) \/ Wave(W!Next) \/ Menu(M!Next)

\* The timer interrupts of the radio and of the console go on, and are served.
FairSpec == Init /\ [][Next]_vars /\ WF_vars(Radio(R!Program)) /\ WF_vars(Console(X!Program))

-----------------------------------------------------------------------------
\* What the programmer demo reports is true of the target, cells that have stopped
\* working and sessions cut short included.
ReportsAreTrue == app = "demo" => D!ReportsAreTrue

\* Cells that work are programmed right, in every session: no page written twice
\* without an erase between, none with words of another page or session.
GoodCellsProgrammed == app = "demo" => D!GoodCellsProgrammed

\* The clock shows one instant of the DS1307, and what it reports as set is set; no
\* value leaves the range its display and its table of days have, at any wrap, nor
\* after a write to the DS1307 that stopped half way.
RtcAgrees == app = "clock" => C!RtcAgrees /\ C!FieldsInRange

\* The remote sends its bursts in order, each as long as asked, without a gap.
BurstsInOrder == app = "remote" => I!BurstsInOrder

\* A letter that the pager shows as received was sent, whichever bytes were lost, and
\* its display finds back into step after any reset, except in the middle of a 0.
PageIsTrue == app = "pager" => P!OnlySentIsShown /\ P!DisplayInPhase

\* The packet of the console on the air is the line handed over, whatever is typed meanwhile.
SentAsTyped == app = "console" => X!SentAsTyped

\* A complete command leaves the number typed in the block of flash.
PageAsTyped == app = "flash" => F!PageAsTyped

\* Four interrupts after the last change the cube shows the coordinates that are set,
\* and none stays on between two figures; the walk through the quarter of the sine
\* repeats and leaves out nothing; a screen of the menu is that of its mode and values,
\* with nothing left of another.
OutputInShape ==
    /\ app = "cube" => L!CubeShown /\ L!DarkBetween
    /\ app = "wave" => W!WavesInShape
    /\ app = "menu" => M!ScreenTrue

\* Whatever was received, the radio comes back to looking for a packet; whatever was
\* typed, the console's transmitter becomes free for the next line.
Recovered ==
    /\ (app = "radio" /\ cali = 1) => R!Hunting
    /\ app = "console" => X!Sent
RadiosRecover == []<>Recovered

\* An undisturbed packet that finds the receiver hunting is shown, every byte.
PacketReceived == app = "radio" => R!PacketReceived
=============================================================================
