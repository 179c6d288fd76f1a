------------------------------ MODULE JtagPgmer ------------------------------
(***************************************************************************)
(* Examples/jtag_programmer.c: every function of the JTAG programmer, down *)
(* to the pins it drives, against the TAP controller and the programming   *)
(* engine of the target.  A function is the list of pin steps it performs; *)
(* the target answers every TCK pulse.                                     *)
(***************************************************************************)
EXTENDS TargetChip, SequencesExt

CONSTANTS
    Scripts,      \* sequences of calls an application makes, each from setup on
    Recovery,     \* the ones it makes when the programmer has restarted
    MaxRestarts   \* bound: how often the programmer itself restarts

VARIABLES
    calls,      \* calls the application has still to make
    call,       \* the call in progress
    todo,       \* pin steps the call has still to perform
    ret,        \* what the call has read so far
    rd,         \* read_data: the bits of TDO since it was set to 0
    pins,       \* PGMW: RESETb, TMS, TDI
    restarts,   \* restarts so far
    tap, ir, sr,    \* target: TAP state, instruction, shift register (next bit out first)
    rst, prog,      \* target: AVR reset register, programming enabled
    chip,           \* target: memories and programming engine
    want            \* history: the memories the calls made so far should have left

vars == <<calls, call, todo, ret, rd, pins, restarts, tap, ir, sr, rst, prog, chip, want>>

\* The hexadecimal constants of the source.
H == [x0300 |-> 768, x0700 |-> 1792, x1300 |-> 4864, x13C0 |-> 5056, x1700 |-> 5888,
      x2300 |-> 8960, x2302 |-> 8962, x2303 |-> 8963, x2304 |-> 8964, x2308 |-> 8968,
      x2310 |-> 8976, x2311 |-> 8977, x2320 |-> 8992, x2340 |-> 9024, x2380 |-> 9088,
      x3100 |-> 12544, x3180 |-> 12672, x3200 |-> 12800, x3300 |-> 13056,
      x3380 |-> 13184, x3500 |-> 13568, x3600 |-> 13824, x3700 |-> 14080,
      x3E00 |-> 15872, x3F00 |-> 16128, x7700 |-> 30464, xA370 |-> 41840]

-----------------------------------------------------------------------------
(* The target: IEEE 1149.1 controller and the AVR programming instructions. *)

TapStates == {"TLR", "RTI", "SelDR", "CapDR", "ShDR", "Ex1DR", "PauDR", "Ex2DR", "UpdDR",
              "SelIR", "CapIR", "ShIR", "Ex1IR", "PauIR", "Ex2IR", "UpdIR"}

\* The state after a rising edge of TCK, with TMS 0 and with TMS 1.
TapNext == [
    TLR   |-> <<"RTI", "TLR">>,     RTI   |-> <<"RTI", "SelDR">>,
    SelDR |-> <<"CapDR", "SelIR">>, CapDR |-> <<"ShDR", "Ex1DR">>,
    ShDR  |-> <<"ShDR", "Ex1DR">>,  Ex1DR |-> <<"PauDR", "UpdDR">>,
    PauDR |-> <<"PauDR", "Ex2DR">>, Ex2DR |-> <<"ShDR", "UpdDR">>,
    UpdDR |-> <<"RTI", "SelDR">>,
    SelIR |-> <<"CapIR", "TLR">>,   CapIR |-> <<"ShIR", "Ex1IR">>,
    ShIR  |-> <<"ShIR", "Ex1IR">>,  Ex1IR |-> <<"PauIR", "UpdIR">>,
    PauIR |-> <<"PauIR", "Ex2IR">>, Ex2IR |-> <<"ShIR", "UpdIR">>,
    UpdIR |-> <<"RTI", "SelDR">>]

Bits(n, w) == [i \in 1..w |-> Bit(n, i - 1)]
\* Of at most 16 bits.
Number(bits) ==
    LET b(i) == IF i <= Len(bits) THEN bits[i] ELSE 0
        n(i) == b(i) + 2 * b(i + 1) + 4 * b(i + 2) + 8 * b(i + 3)
    IN n(1) + 16 * n(5) + 256 * n(9) + 4096 * n(13)

aji_prog_enable == 4
aji_prog_commands == 5
aji_avr_reset == 12

\* The data register of an instruction, as Capture-DR loads it.
Captured == CASE ir = aji_prog_commands ->
                    Bits((IF chip.busy THEN 0 ELSE 512) + chip.out, 15)
              [] ir = aji_prog_enable   -> Bits(0, 16)
              [] OTHER                  -> Bits(0, 1)

\* A programming command drives the engine's signals: PAGEL, XA1 XA0, BS2, BS1, WR, OE, data.
Command(c, w) ==
    LET loaded  == Load(c, (w \div 4096) % 4, Bit(w, 10), Low(w))
        latched == IF Bit(w, 14) = 1 THEN Latch(loaded) ELSE loaded
        written == IF Bit(w, 9) = 0 THEN Strobe(latched, Bit(w, 11), Bit(w, 10)) ELSE latched
    IN IF Bit(w, 8) = 0 THEN [written EXCEPT !.out = Output(written, Bit(w, 11), Bit(w, 10))]
       ELSE written

\* One clock(): the update takes effect on the falling edge of TCK, capture,
\* shift and the change of state on the rising edge.
TargetClock(tms, tdi) ==
    /\ ir' = CASE tap = "UpdIR" -> Number(sr) [] tap = "TLR" -> 1 [] OTHER -> ir
    /\ rst' = IF tap = "UpdDR" /\ ir = aji_avr_reset THEN sr[1] ELSE rst
    /\ prog' = IF tap = "UpdDR" /\ ir = aji_prog_enable
               THEN rst = 1 /\ Number(sr) = H.xA370 ELSE prog
    /\ chip' = IF tap = "UpdDR" /\ ir = aji_prog_commands /\ prog
               THEN Command(chip, Number(sr)) ELSE chip
    /\ sr' = CASE tap = "CapIR" -> <<1, 0, 0, 0>>
               [] tap = "CapDR" -> Captured
               [] tap \in {"ShIR", "ShDR"} -> Append(Tail(sr), tdi)
               [] OTHER -> sr
    /\ tap' = TapNext[tap][tms + 1]

Tdo == IF tap \in {"ShIR", "ShDR"} THEN sr[1] ELSE 1

-----------------------------------------------------------------------------
(* The functions of jtag_programmer.c as sequences of steps on the pins. *)

tms_one == <<"tms", 1>>
tms_zero == <<"tms", 0>>

run_test_idle_state_Four ==    \* mutant: one TMS = 1 too few
    <<tms_one, tms_one, tms_one, tms_one, tms_zero>>

run_test_idle_state == <<tms_one, tms_one, tms_one, tms_one, tms_one, tms_zero>>

\* Bits go out least significant first; TMS rises with the last one.
Shift(value, size) ==
    [i \in 1..size |-> <<IF i = size THEN "last" ELSE "tdi", Bit(value, i - 1)>>]

_load_instruction(instr) ==
    <<<<"zero", 0>>, tms_one, tms_one, tms_zero, tms_zero>> \o Shift(instr, 4) \o <<tms_one>>

_load_data(data, size) ==
    <<<<"zero", 0>>, tms_one, tms_zero, tms_zero>> \o Shift(data, size) \o <<tms_one>>

load_data(data, size) == _load_data(data, size) \o <<tms_zero>>

load_instruction_n_data(instr, data, size) == _load_instruction(instr) \o load_data(data, size)

program_cmd(cmd) == load_instruction_n_data(aji_prog_commands, cmd, 15)

load_cmd(cmd) == load_data(cmd, 15)

\* Only the last command returns to Run-Test/Idle.
load_cmd2(c, d) == _load_data(c, 15) \o load_cmd(d)
load_cmd3(c, d, e) == _load_data(c, 15) \o load_cmd2(d, e)
load_cmd4(c, d, e, f) == _load_data(c, 15) \o load_cmd3(d, e, f)

program_cmd2(c, d) == program_cmd(c) \o load_cmd(d)
program_cmd4(c, d, e, f) == program_cmd(c) \o load_cmd3(d, e, f)

WaitBusy(cmd) == load_cmd(cmd) \o <<<<"test", cmd>>>>    \* while (poll_busy(cmd));

Keep == <<<<"keep", 256>>>>               \* the uint8_t a read returns
KeepHigh == <<<<"high", 256>>>>           \* word |= (... & 0xFF) << 8

_avr_reset(enable) == _load_instruction(aji_avr_reset) \o _load_data(enable, 1)

setup_jtag_programming ==
    <<<<"power", 0>>, <<"reset", 1>>, <<"reset", 0>>>> \o run_test_idle_state
      \o _avr_reset(1) \o load_instruction_n_data(aji_prog_enable, H.xA370, 16)

reset_jtag_programming ==
    program_cmd2(H.x2300, H.x3300)
      \o load_instruction_n_data(aji_prog_enable, 0, 16) \o _avr_reset(0) \o <<tms_zero>>
      \o run_test_idle_state \o <<<<"reset", 1>>>>

HighAddr(a) == H.x0700 + (High(a) % 256)
LowAddr(a) == H.x0300 + Low(a)
LoadAddress(a) == load_cmd2(HighAddr(a), LowAddr(a))

SigByte(a) == load_cmd(H.x0300 + a) \o load_cmd2(H.x3200, H.x3300) \o Keep

read_sign == program_cmd(H.x2308) \o SigByte(0) \o SigByte(1) \o SigByte(2)

read_cali == program_cmd(H.x2308) \o load_cmd(H.x0300) \o load_cmd2(H.x3600, H.x3700) \o Keep

read_lock == program_cmd(H.x2304) \o load_cmd2(H.x3600, H.x3700) \o Keep

read_fuse == program_cmd(H.x2304) \o <<<<"const", 0>>>>
               \o load_cmd2(H.x3E00, H.x3F00) \o Keep \o load_cmd2(H.x3200, H.x3300) \o Keep

write_lock(lock) == program_cmd(H.x2320) \o load_cmd(H.x13C0 + (lock % 64))
                      \o load_cmd4(H.x3300, H.x3100, H.x3300, H.x3300) \o WaitBusy(H.x3300)

write_fuse(w) == program_cmd(H.x2340)
                   \o load_cmd(H.x1300 + (High(w) % 256))
                   \o load_cmd4(H.x3700, H.x3500, H.x3700, H.x3700) \o WaitBusy(H.x3700)
                   \o load_cmd(H.x1300 + Low(w))
                   \o load_cmd4(H.x3300, H.x3100, H.x3300, H.x3300) \o WaitBusy(H.x3300)

erase_chip == program_cmd4(H.x2380, H.x3180, H.x3380, H.x3380) \o WaitBusy(H.x3380)

read_eeprom(a) == program_cmd(H.x2303) \o LoadAddress(a)
                    \o load_cmd3(H.x3300, H.x3200, H.x3300) \o Keep

read_pgm_mem_word_OneScan(a) ==    \* mutant: takes the answer of the scan before
    program_cmd(H.x2302) \o LoadAddress(a)
      \o load_cmd(H.x3200) \o Keep \o load_cmd(H.x3600) \o KeepHigh

read_pgm_mem_word(a) == program_cmd(H.x2302) \o LoadAddress(a)
                          \o load_cmd2(H.x3200, H.x3600) \o Keep \o load_cmd(H.x3700) \o KeepHigh

LatchData == load_cmd3(H.x3700, H.x7700, H.x3700)

load_eep_mem_byte(a, b) == load_cmd(HighAddr(a)) \o load_cmd(LowAddr(a))
                             \o load_cmd(H.x1300 + b) \o LatchData

load_pgm_mem_word(a, w) == load_cmd(HighAddr(a)) \o load_cmd(LowAddr(a))
                             \o load_cmd(H.x1300 + Low(w)) \o load_cmd(H.x1700 + High(w)) \o LatchData

write_eep_mem_page == load_cmd4(H.x3300, H.x3100, H.x3300, H.x3300) \o WaitBusy(H.x3300)

write_pgm_mem_page == load_cmd4(H.x3700, H.x3500, H.x3700, H.x3700) \o WaitBusy(H.x3700)

Body(c) ==
    CASE c.fn = "setup_jtag_programming" -> setup_jtag_programming
      [] c.fn = "reset_jtag_programming" -> reset_jtag_programming
      [] c.fn = "read_sign"              -> read_sign
      [] c.fn = "read_cali"              -> read_cali
      [] c.fn = "read_lock"              -> read_lock
      [] c.fn = "read_fuse"              -> read_fuse
      [] c.fn = "write_lock"             -> write_lock(c.v)
      [] c.fn = "write_fuse"             -> write_fuse(c.v)
      [] c.fn = "erase_chip"             -> erase_chip
      [] c.fn = "read_eeprom"            -> read_eeprom(c.a)
      [] c.fn = "read_pgm_mem_word"      -> read_pgm_mem_word(c.a)
      [] c.fn = "initiate_eep_mem_write" -> program_cmd(H.x2311)
      [] c.fn = "initiate_pgm_mem_write" -> program_cmd(H.x2310)
      [] c.fn = "load_eep_mem_byte"      -> load_eep_mem_byte(c.a, c.v)
      [] c.fn = "load_pgm_mem_word"      -> load_pgm_mem_word(c.a, c.v)
      [] c.fn = "write_eep_mem_page"     -> write_eep_mem_page
      [] c.fn = "write_pgm_mem_page"     -> write_pgm_mem_page

-----------------------------------------------------------------------------
Init ==
    /\ calls \in Scripts /\ call = NoCall
    /\ todo = <<>> /\ ret = <<>> /\ rd = <<>>
    /\ pins = [resetb |-> 0, tms |-> 0, tdi |-> 0] /\ restarts = 0
    /\ tap \in TapStates /\ ir = 1 /\ sr = <<0>>
    /\ rst = 0 /\ prog = FALSE
    /\ chip = Chip /\ want = chip.mem

CallNext ==
    /\ call = NoCall /\ calls # <<>>
    /\ call' = Head(calls) /\ calls' = Tail(calls)
    /\ todo' = Body(Head(calls)) /\ ret' = <<>>
    /\ UNCHANGED <<rd, pins, restarts, tap, ir, sr, rst, prog, chip, want>>

Return ==
    /\ call # NoCall /\ todo = <<>>
    /\ want' = IF call.fn = "setup_jtag_programming" THEN chip.mem
               ELSE Promised(call, want, FALSE)
    /\ call' = NoCall
    /\ UNCHANGED <<calls, todo, ret, rd, pins, restarts, tap, ir, sr, rst, prog, chip>>

step == Head(todo)[1]
value == Head(todo)[2]

\* clock() with the pins as the step leaves them.
ClockStep ==
    /\ todo # <<>> /\ step \in {"tms", "tdi", "last"}
    /\ pins' = CASE step = "tms"  -> [pins EXCEPT !.tms = value]
                 [] step = "tdi"  -> [pins EXCEPT !.tdi = value]
                 [] step = "last" -> [pins EXCEPT !.tms = 1, !.tdi = value]
    /\ rd' = IF step = "tms" THEN rd ELSE Append(rd, Tdo)
    /\ TargetClock(pins'.tms, pins'.tdi)
    /\ todo' = Tail(todo)
    /\ UNCHANGED <<calls, call, ret, restarts, want>>

ResetPin ==
    /\ todo # <<>> /\ step \in {"power", "reset"}
    /\ pins' = IF step = "power" THEN [pins EXCEPT !.tms = 1, !.resetb = 0]
               ELSE [pins EXCEPT !.resetb = value]
    /\ todo' = Tail(todo)
    /\ UNCHANGED <<calls, call, ret, rd, restarts, tap, ir, sr, rst, prog, chip, want>>

\* The steps between the clocks: what becomes of the bits that were read.
Compute ==
    /\ todo # <<>>
    /\ \/ step = "zero"  /\ rd' = <<>> /\ ret' = ret /\ todo' = Tail(todo)
       \/ step = "keep"  /\ rd' = rd /\ ret' = Append(ret, Number(rd) % value) /\ todo' = Tail(todo)
       \/ step = "high"  /\ rd' = rd /\ todo' = Tail(todo)
                         /\ ret' = [ret EXCEPT ![Len(ret)] = @ + ((Number(rd) % 256) * value)]
       \/ step = "const" /\ rd' = rd /\ ret' = Append(ret, value) /\ todo' = Tail(todo)
       \/ step = "test"  /\ rd' = rd /\ ret' = ret
                         /\ todo' = IF Bit(Number(rd), 9) = 1 THEN Tail(todo)
                                    ELSE load_cmd(value) \o todo
    /\ UNCHANGED <<calls, call, pins, restarts, tap, ir, sr, rst, prog, chip, want>>

\* The target finishes an erase or a write.
Ready ==
    /\ chip.busy /\ chip' = [chip EXCEPT !.busy = FALSE]
    /\ UNCHANGED <<calls, call, todo, ret, rd, pins, restarts, tap, ir, sr, rst, prog, want>>

\* The programmer loses power in the middle of anything; the target keeps its
\* own.  The switch is pressed again long after a write has finished.
Restart ==
    /\ restarts < MaxRestarts /\ restarts' = restarts + 1
    /\ calls' \in Recovery /\ call' = NoCall /\ todo' = <<>> /\ ret' = <<>> /\ rd' = <<>>
    /\ pins' = [resetb |-> 0, tms |-> 0, tdi |-> 0]
    /\ chip' = [chip EXCEPT !.busy = FALSE] /\ want' = chip.mem
    /\ UNCHANGED <<tap, ir, sr, rst, prog>>

Done == calls = <<>> /\ call = NoCall /\ UNCHANGED vars

Program == CallNext \/ Return \/ ClockStep \/ ResetPin \/ Compute

Next == Program \/ Ready \/ Restart \/ Done

Spec == Init /\ [][Next]_vars

-----------------------------------------------------------------------------
\* Between two calls the target's memories are what the calls promised: the bits
\* shifted through the TAP added up to those commands and to no other.
CallsTakeEffect == (call = NoCall /\ prog) => chip.mem = want

\* A reading function returns what the target holds, nothing shifted by a bit or
\* by a command.
AnswersAreTrue == (call # NoCall /\ todo = <<>>) => ret = Answer(call, want, FALSE)

\* "Assuming start state of Run-Test/Idle or eq (i.e. Update-IR or Update-DR)":
\* every scan but those that follow a loss of power starts there.
ScansStartWhereAssumed ==
    (todo # <<>> /\ step = "zero") => tap \in {"RTI", "UpdIR", "UpdDR"}

\* No command reaches the engine while an erase or a write is in progress: a poll
\* that read the wrong bit or the bits of another scan would let one through.
NeverWhileBusy == ~chip.early

\* reset_jtag_programming() really hands the target back: out of programming
\* mode and out of both resets, or its code would never run.
TargetRuns == (call.fn = "reset_jtag_programming" /\ todo = <<>>)
              => ~prog /\ rst = 0 /\ pins.resetb = 1 /\ tap = "RTI"
=============================================================================
