---------------------------- MODULE ParallelPgmer ----------------------------
(***************************************************************************)
(* Examples/parallel_programmer.c: every function of the parallel          *)
(* programmer as the list of writes to its control pins and data port that *)
(* it performs, against the programming engine of the target.              *)
(***************************************************************************)
EXTENDS TargetChip, SequencesExt

CONSTANTS
    Scripts,      \* sequences of calls an application makes, each from setup on
    MaxRestarts   \* bound: how often the programmer itself restarts

VARIABLES
    calls, call,    \* calls still to make, call in progress
    todo,           \* pin steps the call has still to perform
    ret,            \* what the call has read so far
    pins,           \* PGMW1 and PGMW2: OEb, BS1, BS2, XA1 XA0
    port,           \* DATA_CTL and DATA_OUT
    restarts,
    prog,           \* target: +12V on its reset pin
    chip,           \* target: memories and programming engine
    want            \* history: the memories the calls made so far should have left

vars == <<calls, call, todo, ret, pins, port, restarts, prog, chip, want>>

-----------------------------------------------------------------------------
(* The functions of parallel_programmer.c as sequences of steps on the pins. *)

set_action(action) == <<<<"xa", action>>>>

set_byte_low == <<<<"bs1", 0>>>>
set_byte_high == <<<<"bs1", 1>>>>

\* Both drive BS1: PGMW1 &= ~BS1, PGMW1 |= BS1.
reset_bs2 == <<<<"bs1", 0>>>>
set_bs2 == <<<<"bs1", 1>>>>

data_out(data) == <<<<"out", data>>>>
xtal1_pulse == <<<<"xtal1", 0>>>>
wrb_pulse == <<<<"wrb", 0>>>>
pagel_pulse == <<<<"pagel", 0>>>>
output_enable == <<<<"oeb", 0>>>>
output_disable == <<<<"oeb", 1>>>>
data_in == <<<<"in", 1>>>>              \* *x = data_in()
data_in_high == <<<<"in high", 256>>>>  \* word |= data_in() << 8
data_in_first == <<<<"in first", 0>>>>  \* a result listed before the ones already read

load_generic(action, high, data) ==
    set_action(action) \o (IF high = 1 THEN set_byte_high ELSE set_byte_low)
      \o data_out(data) \o xtal1_pulse

load_command(cmd) == load_generic(2, 0, cmd)
load_address_low_byte(addr) == load_generic(0, 0, addr)
load_address_high_byte(addr) == load_generic(0, 1, addr)
load_data_low_byte(data) == load_generic(1, 0, data)
load_data_high_byte(data) == load_generic(1, 1, data)

latch_data_NoPulse == set_byte_high    \* mutant: PAGEL is not pulsed

latch_data == set_byte_high \o pagel_pulse

WaitBusy == <<<<"wait", 0>>>>           \* while (poll_busy());

program_page == set_byte_low \o wrb_pulse \o WaitBusy

erase_chip == load_command(128) \o wrb_pulse \o WaitBusy

write_fuse(efuse, fuse_word) ==
    load_command(64)
      \o load_data_low_byte(Low(fuse_word)) \o set_byte_low \o reset_bs2 \o wrb_pulse \o WaitBusy
      \o load_data_low_byte(High(fuse_word)) \o set_byte_high \o reset_bs2 \o wrb_pulse \o WaitBusy
      \o set_byte_low
      \o load_data_low_byte(efuse) \o set_byte_low \o set_bs2 \o wrb_pulse \o WaitBusy
      \o reset_bs2

write_lock(lock) ==
    load_command(32) \o load_data_low_byte(lock) \o set_byte_low \o reset_bs2
      \o wrb_pulse \o WaitBusy

\* power_up_seq(), then the user applies +5V and +12V and presses the switch.
setup_parallel_programming ==
    <<<<"power", 0>>, <<"switch", 0>>>> \o erase_chip \o write_fuse(0, 39392)    \* 0x99E0

\* The +12V is not removed: RESETb only becomes an output again.
reset_parallel_programming == <<<<"execute", 1>>>>

SigByte(a) == load_address_low_byte(a) \o output_enable \o set_byte_low \o data_in
                \o output_disable

read_sign == load_command(8) \o SigByte(0) \o SigByte(1) \o SigByte(2)

read_cali == load_command(8) \o load_address_low_byte(0) \o output_enable \o set_byte_high
               \o data_in \o output_disable

read_lock == load_command(4) \o output_enable \o reset_bs2 \o set_byte_high \o data_in
               \o output_disable

\* Low, high and extended fuse, in this order; listed extended, high, low.
read_fuse == load_command(4) \o output_enable
               \o reset_bs2 \o set_byte_low \o data_in_first
               \o set_bs2 \o set_byte_high \o data_in_first
               \o set_bs2 \o set_byte_low \o data_in_first \o output_disable

read_eeprom(a) == load_command(3) \o load_address_high_byte(High(a))
                    \o load_address_low_byte(Low(a)) \o output_enable \o set_byte_low
                    \o data_in \o output_disable

read_pgm_mem_word(a) == load_command(2) \o load_address_high_byte(High(a))
                          \o load_address_low_byte(Low(a)) \o output_enable
                          \o set_byte_low \o data_in \o set_byte_high \o data_in_high
                          \o output_disable

initiate_eep_mem_write == load_command(17)
initiate_pgm_mem_write == load_command(16)
shutdown_pgm_mem_write == load_command(0)

load_eep_mem_byte(a, b) == load_address_low_byte(Low(a)) \o load_data_low_byte(b) \o latch_data

load_pgm_mem_word(a, w) == load_address_low_byte(Low(a)) \o load_data_low_byte(Low(w))
                             \o load_data_high_byte(High(w)) \o latch_data

write_mem_page(a) == load_address_high_byte(High(a)) \o program_page

Body(c) ==
    CASE c.fn = "setup_parallel_programming" -> setup_parallel_programming
      [] c.fn = "reset_parallel_programming" -> reset_parallel_programming
      [] c.fn = "read_sign"              -> read_sign
      [] c.fn = "read_cali"              -> read_cali
      [] c.fn = "read_lock"              -> read_lock
      [] c.fn = "read_fuse"              -> read_fuse
      [] c.fn = "write_lock"             -> write_lock(c.v)
      [] c.fn = "write_fuse"             -> write_fuse(c.v \div 65536, c.v % 65536)
      [] c.fn = "erase_chip"             -> erase_chip
      [] c.fn = "read_eeprom"            -> read_eeprom(c.a)
      [] c.fn = "read_pgm_mem_word"      -> read_pgm_mem_word(c.a)
      [] c.fn = "initiate_eep_mem_write" -> initiate_eep_mem_write
      [] c.fn = "initiate_pgm_mem_write" -> initiate_pgm_mem_write
      [] c.fn = "shutdown_pgm_mem_write" -> shutdown_pgm_mem_write
      [] c.fn = "load_eep_mem_byte"      -> load_eep_mem_byte(c.a, c.v)
      [] c.fn = "load_pgm_mem_word"      -> load_pgm_mem_word(c.a, c.v)
      [] c.fn = "write_eep_mem_page"     -> write_mem_page(c.a)
      [] c.fn = "write_pgm_mem_page"     -> write_mem_page(c.a)

-----------------------------------------------------------------------------
PinsLow == [oeb |-> 1, bs1 |-> 0, bs2 |-> 0, xa |-> 0, resetb |-> 0]

Init ==
    /\ calls \in Scripts /\ call = NoCall /\ todo = <<>> /\ ret = <<>>
    /\ pins = [PinsLow EXCEPT !.oeb = 0] /\ port = [out |-> FALSE, data |-> 0]
    /\ restarts = 0 /\ prog = FALSE
    /\ chip = [Chip EXCEPT !.mem.flash = [i \in DOMAIN @ |-> 0]] /\ want = chip.mem

CallNext ==
    /\ call = NoCall /\ calls # <<>>
    /\ call' = Head(calls) /\ calls' = Tail(calls)
    /\ todo' = Body(Head(calls)) /\ ret' = <<>>
    /\ UNCHANGED <<pins, port, restarts, prog, chip, want>>

Return ==
    /\ call # NoCall /\ todo = <<>>
    /\ want' = IF call.fn = "setup_parallel_programming" THEN chip.mem
               ELSE Promised(call, want, TRUE)
    /\ call' = NoCall
    /\ UNCHANGED <<calls, todo, ret, pins, port, restarts, prog, chip>>

step == Head(todo)[1]
value == Head(todo)[2]

\* A level: nothing happens in the target until a pulse or a read.
SetPins ==
    /\ todo # <<>>
    /\ \/ step = "xa"    /\ pins' = [pins EXCEPT !.xa = value] /\ port' = port
       \/ step = "bs1"   /\ pins' = [pins EXCEPT !.bs1 = value] /\ port' = port
       \/ step = "oeb"   /\ pins' = [pins EXCEPT !.oeb = value] /\ port' = port
       \/ step = "out"   /\ port' = [out |-> TRUE, data |-> value] /\ pins' = pins
       \/ step = "power" /\ pins' = PinsLow /\ port' = port
       \/ step = "execute" /\ pins' = [pins EXCEPT !.resetb = 1] /\ port' = port
    /\ todo' = Tail(todo)
    /\ UNCHANGED <<calls, call, ret, restarts, prog, chip, want>>

Bus == IF port.out THEN port.data ELSE 255

Pulse ==
    /\ todo # <<>>
    /\ \/ step = "xtal1" /\ chip' = IF prog THEN Load(chip, pins.xa, pins.bs1, Bus) ELSE chip
       \/ step = "pagel" /\ chip' = IF prog THEN Latch(chip) ELSE chip
       \/ step = "wrb"   /\ chip' = IF prog THEN Strobe(chip, pins.bs2, pins.bs1) ELSE chip
    /\ todo' = Tail(todo)
    /\ UNCHANGED <<calls, call, ret, pins, port, restarts, prog, want>>

\* data_in(): the port becomes an input and is read.
DataIn ==
    /\ todo # <<>> /\ step \in {"in", "in high", "in first"}
    /\ port' = [port EXCEPT !.out = FALSE]
    /\ LET byte == IF pins.oeb = 0 THEN Output(chip, pins.bs2, pins.bs1) ELSE 255
       IN ret' = CASE step = "in"       -> Append(ret, byte)
                   [] step = "in high"  -> [ret EXCEPT ![Len(ret)] = @ + (byte * value)]
                   [] step = "in first" -> <<byte>> \o ret
    /\ todo' = Tail(todo)
    /\ UNCHANGED <<calls, call, pins, restarts, prog, chip, want>>

\* while (poll_busy()): RDY/BSYb is high again.
Wait ==
    /\ todo # <<>> /\ step = "wait" /\ ~chip.busy /\ todo' = Tail(todo)
    /\ UNCHANGED <<calls, call, ret, pins, port, restarts, prog, chip, want>>

\* read_switch(): the user has applied +12V before pressing it.
Switch ==
    /\ todo # <<>> /\ step = "switch"
    /\ prog' = TRUE /\ chip' = [chip EXCEPT !.eng = Engine] /\ todo' = Tail(todo)
    /\ UNCHANGED <<calls, call, ret, pins, port, restarts, want>>

Ready ==
    /\ chip.busy /\ chip' = [chip EXCEPT !.busy = FALSE]
    /\ UNCHANGED <<calls, call, todo, ret, pins, port, restarts, prog, want>>

\* The programmer restarts in the middle of anything; the target keeps its state.
Restart ==
    /\ restarts < MaxRestarts /\ restarts' = restarts + 1
    /\ calls' \in Scripts /\ call' = NoCall /\ todo' = <<>> /\ ret' = <<>>
    /\ port' = [port EXCEPT !.out = FALSE] /\ prog' = FALSE
    /\ chip' = [chip EXCEPT !.busy = FALSE] /\ want' = chip.mem
    /\ UNCHANGED pins

Done == calls = <<>> /\ call = NoCall /\ UNCHANGED vars

Program == CallNext \/ Return \/ SetPins \/ Pulse \/ DataIn \/ Wait \/ Switch

Next == Program \/ Ready \/ Restart \/ Done

Spec == Init /\ [][Next]_vars

-----------------------------------------------------------------------------
\* Between two calls flash, EEPROM, page buffers and lock byte are what the calls
\* promised: every level was set up before the pulse that uses it.  The fuses are
\* FusesTakeEffect's: set_bs2() and reset_bs2() drive BS1.
CallsTakeEffect ==
    call = NoCall =>
        \A f \in {"flash", "page", "eep", "eepPage", "lock"} : chip.mem[f] = want[f]

\* Between two calls the three fuse bytes are what the calls promised, which takes
\* BS2 for the extended fuse, on the pin of its own that the file's header names.
FusesTakeEffect ==
    call = NoCall => \A f \in {"lfuse", "hfuse", "efuse"} : chip.mem[f] = want[f]

\* A reading function, read_fuse() apart, returns what the target holds.
AnswersAreTrue ==
    (call # NoCall /\ todo = <<>> /\ call.fn # "read_fuse") => ret = Answer(call, want, TRUE)

\* No pulse reaches the engine while an erase or a write is in progress.
NeverWhileBusy == ~chip.early

\* A byte is loaded only while the programmer drives the data port, and read only
\* while the target does: data_in() left the port an input for the next load.
LoadsDriven == (todo # <<>> /\ step = "xtal1") => port.out /\ pins.oeb = 1
=============================================================================
