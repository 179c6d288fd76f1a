------------------------------ MODULE PgmerDemo ------------------------------
(***************************************************************************)
(* The program of jtag_pgmer_demo.c (and, but for the driver's name, of    *)
(* serial_pgmer_demo.c and parallel_pgmer_demo.c): a press of the switch   *)
(* erases the target, checks the erase, programs code[], checks it and     *)
(* reports both.  The driver's functions are those that JtagPgmer,         *)
(* SerialPgmer and ParallelPgmer show to do what TargetChip promises.      *)
(***************************************************************************)
EXTENDS TargetChip

CONSTANTS
    code,          \* code[]: the words to program
    OldFlash, OldEep,    \* what the target may hold before
    StuckFlash, StuckEep,    \* sets of cells that may have stopped working
    MaxRestarts, MaxBounces    \* bounds

CODE_SZ_WORDS == Len(code)
EEP_SZ == EepBytes \div 2      \* ((E2END + 1) >> 1)

VARIABLES
    pc,
    after,         \* where read_switch() returns to
    waddr, addr,
    ts_pressed,
    mem,           \* the target's memories
    bench,         \* fixed: cells that do not change any more, and USE_CLCD, with
                   \* which a result waits for the switch
    eraseMsg, pgmMsg,    \* last report: "none", "Okay", "Fail"
    finger,        \* the user holds the switch down
    pressed,       \* level of the switch
    bounces,       \* times the contact may still jump before it settles
    restarts

switchVars == <<finger, pressed, bounces>>
vars == <<pc, after, waddr, addr, ts_pressed, mem, bench, eraseMsg, pgmMsg,
          finger, pressed, bounces, restarts>>

\* A cell that is stuck keeps its value whatever is done to the memory.
Worn(m) == [m EXCEPT !.flash = [i \in DOMAIN @ |-> IF i \in bench.flash THEN mem.flash[i] ELSE @[i]],
                     !.eep = [i \in DOMAIN @ |-> IF i \in bench.eep THEN mem.eep[i] ELSE @[i]]]

PageEnd == (waddr % SPM_PS_WORDS) = SPM_PS_WORDS - 1

Padded == ((CODE_SZ_WORDS + SPM_PS_WORDS - 1) \div SPM_PS_WORDS) * SPM_PS_WORDS

-----------------------------------------------------------------------------
\* With the display, a reading is shown until the switch has been pressed.
Display == [p \in {"sign", "first lock", "first fuse", "cali", "fuse", "lock"} |->
                CASE p = "sign" -> "first lock"
                  [] p = "first lock" -> "first fuse"
                  [] p = "first fuse" -> "cali"
                  [] p = "cali" -> "loop"
                  [] p = "fuse" -> "lock"
                  [] p = "lock" -> "end"]

Start == IF bench.clcd THEN "sign" ELSE "loop"

Init ==
    /\ bench \in [flash : StuckFlash, eep : StuckEep, clcd : BOOLEAN]
    /\ pc = Start /\ after = "loop" /\ waddr = 0 /\ addr = 0 /\ ts_pressed = 1
    /\ mem = [Factory EXCEPT !.flash = OldFlash, !.eep = OldEep]
    /\ eraseMsg = "none" /\ pgmMsg = "none"
    /\ finger = FALSE /\ pressed = FALSE /\ bounces = 0 /\ restarts = 0

\* Erasing and programming take longer than the contact may bounce.
Settle == bounces' = 0 /\ pressed' = finger /\ UNCHANGED finger

\* One pass of the main loop; 1 ms later the next.
Executing ==
    /\ pc = "loop" /\ ts_pressed = 1 /\ ~pressed
    /\ ts_pressed' = 0
    /\ UNCHANGED <<pc, after, waddr, addr, mem, bench, eraseMsg, pgmMsg, switchVars, restarts>>

StartSession ==
    /\ pc = "loop" /\ ts_pressed = 0 /\ pressed
    /\ pc' = "erase" /\ eraseMsg' = "none" /\ pgmMsg' = "none"
    /\ UNCHANGED <<after, waddr, addr, ts_pressed, mem, bench, finger, pressed, bounces, restarts>>

EraseChip_None ==    \* mutant: the chip is not erased
    /\ pc = "erase" /\ mem' = mem /\ waddr' = 0 /\ addr' = 0 /\ pc' = "erase_ok"
    /\ Settle /\ UNCHANGED <<after, ts_pressed, bench, eraseMsg, pgmMsg, restarts>>

EraseChip ==
    /\ pc = "erase"
    /\ mem' = Worn(Erased(mem)) /\ waddr' = 0 /\ addr' = 0 /\ pc' = "erase_ok"
    /\ Settle /\ UNCHANGED <<after, ts_pressed, bench, eraseMsg, pgmMsg, restarts>>

\* debug_print_wait(): with the display, the program waits for the switch.
Report(next) == IF bench.clcd THEN pc' = "press" /\ after' = next ELSE pc' = next /\ after' = after

EraseOkFlash ==
    /\ pc = "erase_ok" /\ waddr < SPM_SZ_WORDS
    /\ IF mem.flash[waddr] = BlankWord
       THEN waddr' = waddr + 1 /\ UNCHANGED <<pc, after, eraseMsg>>
       ELSE waddr' = 0 /\ eraseMsg' = "Fail" /\ Report("pgm_mem")
    /\ UNCHANGED <<addr, ts_pressed, mem, bench, pgmMsg, switchVars, restarts>>

EraseOkEep ==
    /\ pc = "erase_ok" /\ waddr = SPM_SZ_WORDS
    /\ IF addr < EEP_SZ /\ mem.eep[addr] = 255
       THEN addr' = addr + 1 /\ UNCHANGED <<pc, after, waddr, eraseMsg>>
       ELSE /\ waddr' = 0 /\ addr' = addr
            /\ eraseMsg' = IF addr = EEP_SZ THEN "Okay" ELSE "Fail"
            /\ Report("pgm_mem")
    /\ UNCHANGED <<ts_pressed, mem, bench, pgmMsg, switchVars, restarts>>

\* pgm_mem(): code[] and then 0xFFFF up to the end of its last page.
LoadWord ==
    /\ pc = "pgm_mem" /\ waddr < Padded
    /\ mem' = PageLoaded(mem, waddr, IF waddr < CODE_SZ_WORDS THEN code[waddr + 1] ELSE BlankWord)
    /\ IF PageEnd THEN pc' = "write_page" /\ waddr' = waddr ELSE pc' = pc /\ waddr' = waddr + 1
    /\ UNCHANGED <<after, addr, ts_pressed, bench, eraseMsg, pgmMsg, switchVars, restarts>>

WritePage ==
    /\ pc = "write_page"
    /\ mem' = Worn(PageWritten(mem, waddr)) /\ waddr' = waddr + 1 /\ pc' = "pgm_mem"
    /\ UNCHANGED <<after, addr, ts_pressed, bench, eraseMsg, pgmMsg, switchVars, restarts>>

Programmed ==
    /\ pc = "pgm_mem" /\ waddr = Padded
    /\ waddr' = 0 /\ pc' = "pgm_ok"
    /\ Settle /\ UNCHANGED <<after, addr, ts_pressed, mem, bench, eraseMsg, pgmMsg, restarts>>

PgmOk_Short ==    \* mutant: the last word is not compared
    /\ pc = "pgm_ok"
    /\ IF waddr < CODE_SZ_WORDS - 1 /\ mem.flash[waddr] = code[waddr + 1]
       THEN waddr' = waddr + 1 /\ UNCHANGED <<pc, after, pgmMsg>>
       ELSE /\ waddr' = waddr
            /\ pgmMsg' = IF waddr = CODE_SZ_WORDS - 1 THEN "Okay" ELSE "Fail"
            /\ Report(IF bench.clcd THEN "fuse" ELSE "end")
    /\ UNCHANGED <<addr, ts_pressed, mem, bench, eraseMsg, switchVars, restarts>>

PgmOk ==
    /\ pc = "pgm_ok"
    /\ IF waddr < CODE_SZ_WORDS /\ mem.flash[waddr] = code[waddr + 1]
       THEN waddr' = waddr + 1 /\ UNCHANGED <<pc, after, pgmMsg>>
       ELSE /\ waddr' = waddr
            /\ pgmMsg' = IF waddr = CODE_SZ_WORDS THEN "Okay" ELSE "Fail"
            /\ Report(IF bench.clcd THEN "fuse" ELSE "end")
    /\ UNCHANGED <<addr, ts_pressed, mem, bench, eraseMsg, switchVars, restarts>>

EndSession ==
    /\ pc = "end" /\ pc' = "loop" /\ ts_pressed' = 1
    /\ UNCHANGED <<after, waddr, addr, mem, bench, eraseMsg, pgmMsg, switchVars, restarts>>

ShowValue ==
    /\ pc \in DOMAIN Display
    /\ pc' = "press" /\ after' = Display[pc]
    /\ UNCHANGED <<waddr, addr, ts_pressed, mem, bench, eraseMsg, pgmMsg, switchVars, restarts>>

\* read_switch(): pressed, 20 ms, released, 20 ms; the contact has settled by then.
AwaitPress ==
    /\ pc = "press" /\ pressed
    /\ pc' = "release" /\ bounces' = 0 /\ pressed' = finger 
    /\ UNCHANGED <<after, waddr, addr, ts_pressed, mem, bench, eraseMsg, pgmMsg, finger, restarts>>

AwaitRelease ==
    /\ pc = "release" /\ ~pressed
    /\ pc' = after /\ bounces' = 0 /\ pressed' = finger
    /\ UNCHANGED <<after, waddr, addr, ts_pressed, mem, bench, eraseMsg, pgmMsg, finger, restarts>>

-----------------------------------------------------------------------------
(* The user, the contact and the power supply. *)

Finger ==
    /\ bounces = 0 /\ finger' = ~finger /\ pressed' = finger' /\ bounces' = MaxBounces
    /\ UNCHANGED <<pc, after, waddr, addr, ts_pressed, mem, bench, eraseMsg, pgmMsg, restarts>>

\* The contact opens or closes once more within the debouncing period.
Bounce ==
    /\ bounces > 0 /\ bounces' = bounces - 1
    /\ pressed' = IF bounces = 1 THEN finger ELSE ~pressed
    /\ UNCHANGED <<pc, after, waddr, addr, ts_pressed, mem, bench, eraseMsg, pgmMsg, finger, restarts>>

Restart ==
    /\ restarts < MaxRestarts /\ restarts' = restarts + 1
    /\ pc' = Start /\ after' = "loop" /\ waddr' = 0 /\ addr' = 0 /\ ts_pressed' = 1
    /\ eraseMsg' = "none" /\ pgmMsg' = "none"
    /\ UNCHANGED <<mem, bench, switchVars>>

Program == Executing \/ StartSession \/ EraseChip \/ EraseOkFlash \/ EraseOkEep \/ LoadWord
             \/ WritePage \/ Programmed \/ PgmOk \/ EndSession \/ ShowValue \/ AwaitPress \/ AwaitRelease

Next == Program \/ Finger \/ Bounce \/ Restart

-----------------------------------------------------------------------------
Image == [i \in 0..(CODE_SZ_WORDS - 1) |-> code[i + 1]]

\* The reports are about the target: "Program: Okay" exactly when its flash holds
\* code[], though the demo goes on after "Erase: Fail"; "Erase: Okay" when nothing
\* was left in the flash, nor in the half of the EEPROM that erase_ok() reads.
ReportsAreTrue ==
    /\ pgmMsg # "none" =>
           (pgmMsg = "Okay") = (\A i \in DOMAIN Image : mem.flash[i] = Image[i])
    /\ (pc = "pgm_mem" /\ waddr = 0 /\ eraseMsg = "Okay") =>
           /\ \A i \in 0..(SPM_SZ_WORDS - 1) : mem.flash[i] = BlankWord
           /\ \A i \in 0..(EEP_SZ - 1) : mem.eep[i] = 255

\* Working cells are programmed right, in every session, after any number of
\* interrupted ones: no page is written twice without an erase between, none
\* with words of another page or of the session before.
GoodCellsProgrammed ==
    pgmMsg # "none" =>
        \A i \in 0..(SPM_SZ_WORDS - 1) \ bench.flash :
            mem.flash[i] = IF i \in DOMAIN Image THEN Image[i] ELSE BlankWord
=============================================================================
