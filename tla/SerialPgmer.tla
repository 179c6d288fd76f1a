----------------------------- MODULE SerialPgmer -----------------------------
(***************************************************************************)
(* Examples/serial_programmer.c: every function of the serial programmer,  *)
(* bit by bit on SCK, MOSI and MISO, against a target that takes four-byte *)
(* instructions.  MISO is read after the falling edge of SCK; the model    *)
(* assumes, as the code does, that the target has not moved on by then.    *)
(***************************************************************************)
EXTENDS TargetChip, SequencesExt

CONSTANTS
    Scripts,     \* sequences of calls an application makes, each from setup on
    MaxNoise     \* bound: edges on SCK that the programmer did not send

VARIABLES
    calls, call,    \* calls still to make, call in progress
    todo,           \* pin steps the call has still to perform
    ret,            \* what the call has read so far
    rd,             \* byte, echo: the bits of MISO since it was set to 0
    pins,           \* PGMW: RESETb and MOSI
    noise,
    rx, out,        \* target: bits of the instruction so far, bits of the byte it sends
    enabled,        \* target: took the Programming Enable instruction
    chip,           \* target: memories
    want            \* history: the memories the calls made so far should have left

vars == <<calls, call, todo, ret, rd, pins, noise, rx, out, enabled, chip, want>>

\* The hexadecimal constants of the source.
H == [x20 |-> 32, x28 |-> 40, x30 |-> 48, x38 |-> 56, x40 |-> 64, x48 |-> 72,
      x4C |-> 76, x4D |-> 77, x50 |-> 80, x53 |-> 83, x58 |-> 88, x80 |-> 128,
      xA0 |-> 160, xA4 |-> 164, xA8 |-> 168, xAC |-> 172, xC0 |-> 192, xC1 |-> 193,
      xC2 |-> 194, xE0 |-> 224, xF0 |-> 240]

-----------------------------------------------------------------------------
(* The target.  Bytes travel most significant bit first. *)

Bits(b) == [i \in 1..8 |-> Bit(b, 8 - i)]
Number(b) ==
    LET n(i) == 8 * b[i] + 4 * b[i + 1] + 2 * b[i + 2] + b[i + 3]
    IN 16 * n(1) + n(5)
ByteOf(bits, k) == Number(SubSeq(bits, 8 * k - 7, 8 * k))

Addr(b) == b[2] * 256 + b[3]

HalfLoaded(m, a, b, high) ==
    PageLoaded(m, a, LET w == m.page[a % SPM_PS_WORDS]
                     IN IF high THEN b * 256 + Low(w) ELSE High(w) * 256 + b)

\* The instruction of four bytes that has just been completed.
Execute(c, b) ==
    LET Write(m) == Guarded(c, [c EXCEPT !.mem = m, !.busy = TRUE])
        Fill(m) == Guarded(c, [c EXCEPT !.mem = m])
    IN CASE b[1] = H.xAC /\ b[2] = H.x80 -> Write(Erased(c.mem))
         [] b[1] = H.xAC /\ b[2] = H.xE0 -> Write([c.mem EXCEPT !.lock = b[4]])
         [] b[1] = H.xAC /\ b[2] = H.xA0 -> Write([c.mem EXCEPT !.lfuse = b[4]])
         [] b[1] = H.xAC /\ b[2] = H.xA8 -> Write([c.mem EXCEPT !.hfuse = b[4]])
         [] b[1] = H.xAC /\ b[2] = H.xA4 -> Write([c.mem EXCEPT !.efuse = b[4]])
         [] b[1] = H.xC0 -> Write([c.mem EXCEPT !.eep[Addr(b) % EepBytes] = b[4]])
         [] b[1] = H.xC1 -> Fill(EepLoaded(c.mem, b[3], b[4]))
         [] b[1] = H.xC2 -> Write(EepWritten(c.mem, Addr(b) % EepBytes))
         [] b[1] = H.x40 -> Fill(HalfLoaded(c.mem, b[3], b[4], FALSE))
         [] b[1] = H.x48 -> Fill(HalfLoaded(c.mem, b[3], b[4], TRUE))
         [] b[1] = H.x4C -> Write(PageWritten(c.mem, Addr(b) % SPM_SZ_WORDS))
         [] OTHER -> c

\* The byte the target sends while it takes the one after bits.
Reply(c, bits) ==
    LET n == Len(bits) \div 8
        b == [k \in 1..n |-> ByteOf(bits, k)]
    IN CASE n = 3 /\ b[1] = H.x30 -> Signature[b[3] % 3]
         [] n = 3 /\ b[1] = H.x38 -> Calibration
         [] n = 3 /\ b[1] = H.x58 -> IF b[2] = 8 THEN c.mem.hfuse ELSE c.mem.lock
         [] n = 3 /\ b[1] = H.x50 -> IF b[2] = 8 THEN c.mem.efuse ELSE c.mem.lfuse
         [] n = 3 /\ b[1] = H.xA0 -> c.mem.eep[Addr(b) % EepBytes]
         [] n = 3 /\ b[1] = H.x20 -> Low(c.mem.flash[Addr(b) % SPM_SZ_WORDS])
         [] n = 3 /\ b[1] = H.x28 -> High(c.mem.flash[Addr(b) % SPM_SZ_WORDS])
         [] n = 3 /\ b[1] = H.xF0 -> IF c.busy THEN 1 ELSE 0
         [] OTHER -> b[n]

\* One pulse on SCK with the given MOSI.
TargetClock(mosi) ==
    LET bits == Append(rx, mosi)
        n    == Len(bits)
        on   == enabled \/ (n = 16 /\ ByteOf(bits, 1) = H.xAC /\ ByteOf(bits, 2) = H.x53)
    IN /\ enabled' = on
       /\ rx' = IF n = 32 THEN <<>> ELSE bits
       /\ chip' = IF n = 32 /\ on THEN Execute(chip, [k \in 1..4 |-> ByteOf(bits, k)])
                  ELSE chip
       /\ out' = IF n % 8 = 0 /\ n < 32 /\ on THEN Bits(Reply(chip, bits)) ELSE
                 IF n % 8 = 0 THEN Bits(255) ELSE Tail(out)

-----------------------------------------------------------------------------
(* The functions of serial_programmer.c as sequences of steps on the pins. *)

write_byte(byte) == <<<<"zero", 0>>>> \o [i \in 1..8 |-> <<"mosi", Bits(byte)[i]>>]

read_byte == <<<<"zero", 0>>>> \o [i \in 1..8 |-> <<"clock", 0>>]

Keep == <<<<"keep", 0>>>>               \* the byte just read is a result
KeepHigh == <<<<"high", 256>>>>         \* word |= ... << 8

read_instruction(b1, b2, b3) ==
    write_byte(b1) \o write_byte(b2) \o write_byte(b3) \o read_byte

write_instruction(b1, b2, b3, b4) ==
    write_byte(b1) \o write_byte(b2) \o write_byte(b3) \o write_byte(b4)

poll_busy == read_instruction(H.xF0, 0, 0)

write_n_complete_instruction_Once(b1, b2, b3, b4) ==    \* mutant: does not wait
    write_instruction(b1, b2, b3, b4)

write_n_complete_instruction(b1, b2, b3, b4) ==
    write_instruction(b1, b2, b3, b4) \o poll_busy \o <<<<"busy", 1>>>>

reset == <<<<"reset", 1>>, <<"reset", 0>>>>

\* Four bytes; the echo of the second is checked after the fourth.
enable_serial_programming_Echo ==    \* mutant: checks the echo of the third byte
    write_byte(H.xAC) \o write_byte(H.x53) \o write_byte(0) \o write_byte(0) \o Keep
      \o <<<<"second", H.x53>>>>

enable_serial_programming ==
    write_byte(H.xAC) \o write_byte(H.x53) \o write_byte(0) \o Keep \o write_byte(0)
      \o <<<<"second", H.x53>>>>

setup_serial_programming == <<<<"reset", 0>>>> \o reset \o enable_serial_programming

read_fuse == read_instruction(H.x50, 8, 0) \o Keep \o read_instruction(H.x58, 8, 0) \o Keep
               \o read_instruction(H.x50, 0, 0) \o Keep

read_sign == read_instruction(H.x30, 0, 0) \o Keep \o read_instruction(H.x30, 0, 1) \o Keep
               \o read_instruction(H.x30, 0, 2) \o Keep

write_fuse(efuse, fuse_word) ==
    write_n_complete_instruction(H.xAC, H.xA0, 0, Low(fuse_word))
      \o write_n_complete_instruction(H.xAC, H.xA8, 0, High(fuse_word))
      \o write_n_complete_instruction(H.xAC, H.xA4, 0, efuse)

read_pgm_mem_word(a) == read_instruction(H.x20, High(a), Low(a)) \o Keep
                          \o read_instruction(H.x28, High(a), Low(a)) \o KeepHigh

load_pgm_mem_word(a, w) ==
    write_n_complete_instruction(H.x40, 0, a % SPM_PS_WORDS, Low(w))
      \o write_n_complete_instruction(H.x48, 0, a % SPM_PS_WORDS, High(w))

Body(c) ==
    CASE c.fn = "setup_serial_programming" -> setup_serial_programming
      [] c.fn = "reset_serial_programming" -> <<<<"reset", 1>>>>
      [] c.fn = "read_sign"          -> read_sign
      [] c.fn = "read_cali"          -> read_instruction(H.x38, 0, 0) \o Keep
      [] c.fn = "read_lock"          -> read_instruction(H.x58, 0, 0) \o Keep
      [] c.fn = "read_fuse"          -> read_fuse
      [] c.fn = "write_lock"         -> write_n_complete_instruction(H.xAC, H.xE0, 0, c.v)
      [] c.fn = "write_fuse"         -> write_fuse(c.v \div 65536, c.v % 65536)
      [] c.fn = "erase_chip"         -> write_n_complete_instruction(H.xAC, H.x80, 0, 0)
      [] c.fn = "read_eeprom"        -> read_instruction(H.xA0, High(c.a), Low(c.a)) \o Keep
      [] c.fn = "read_pgm_mem_word"  -> read_pgm_mem_word(c.a)
      [] c.fn = "write_eeprom"       ->
            write_n_complete_instruction(H.xC0, High(c.a), Low(c.a), c.v)
      [] c.fn = "load_eep_mem_byte"  ->
            write_n_complete_instruction(H.xC1, 0, c.a % E2PAGESIZE, c.v)
      [] c.fn = "write_eep_mem_page" ->
            write_n_complete_instruction(H.xC2, High(c.a), Low(c.a), 0)
      [] c.fn = "load_pgm_mem_word"  -> load_pgm_mem_word(c.a, c.v)
      [] c.fn = "write_pgm_mem_page" ->
            write_n_complete_instruction(H.x4C, High(c.a), Low(c.a), 0)
      [] c.fn = "load_ext_addr"      -> write_n_complete_instruction(H.x4D, 0, c.a, 0)

-----------------------------------------------------------------------------
Init ==
    /\ calls \in Scripts /\ call = NoCall
    /\ todo = <<>> /\ ret = <<>> /\ rd = <<>> /\ noise = 0
    /\ pins = [resetb |-> 0, mosi |-> 0]
    /\ rx = <<>> /\ out = Bits(255) /\ enabled = FALSE
    /\ chip = [Chip EXCEPT !.mem.flash = [i \in DOMAIN @ |-> 0]] /\ want = chip.mem

CallNext ==
    /\ call = NoCall /\ calls # <<>>
    /\ call' = Head(calls) /\ calls' = Tail(calls)
    /\ todo' = Body(Head(calls)) /\ ret' = <<>>
    /\ UNCHANGED <<rd, pins, noise, rx, out, enabled, chip, want>>

Return ==
    /\ call # NoCall /\ todo = <<>>
    /\ want' = Promised(call, want, TRUE) /\ call' = NoCall
    /\ UNCHANGED <<calls, todo, ret, rd, pins, noise, rx, out, enabled, chip>>

step == Head(todo)[1]
value == Head(todo)[2]

\* clock(): SCK up and down, then MISO is read.
ClockStep ==
    /\ todo # <<>> /\ step \in {"mosi", "clock"}
    /\ pins' = IF step = "mosi" THEN [pins EXCEPT !.mosi = value] ELSE pins
    /\ rd' = Append(rd, Head(out))
    /\ TargetClock(pins'.mosi)
    /\ todo' = Tail(todo)
    /\ UNCHANGED <<calls, call, ret, noise, want>>

\* A high RESETb ends programming and starts the target's bit count again.
ResetPin ==
    /\ todo # <<>> /\ step = "reset"
    /\ pins' = [pins EXCEPT !.resetb = value]
    /\ rx' = <<>> /\ out' = Bits(255) /\ enabled' = (enabled /\ value = 0)
    /\ todo' = Tail(todo)
    /\ UNCHANGED <<calls, call, ret, rd, noise, chip, want>>

\* The steps between the clocks: what becomes of the bits that were read.
Compute ==
    /\ todo # <<>>
    /\ \/ step = "zero" /\ rd' = <<>> /\ ret' = ret /\ todo' = Tail(todo)
       \/ step = "keep" /\ rd' = rd /\ ret' = Append(ret, Number(rd)) /\ todo' = Tail(todo)
       \/ step = "high" /\ rd' = rd /\ todo' = Tail(todo)
                        /\ ret' = [ret EXCEPT ![Len(ret)] = @ + (Number(rd) * value)]
       \/ step = "busy" /\ rd' = rd /\ ret' = ret
                        /\ todo' = IF Bit(Number(rd), 0) = 0 THEN Tail(todo)
                                   ELSE poll_busy \o todo
       \/ step = "second" /\ rd' = rd /\ ret' = <<>>
                          /\ todo' = IF ret[1] = value THEN Tail(todo)
                                     ELSE reset \o enable_serial_programming
    /\ UNCHANGED <<calls, call, pins, noise, rx, out, enabled, chip, want>>

Ready ==
    /\ chip.busy /\ chip' = [chip EXCEPT !.busy = FALSE]
    /\ UNCHANGED <<calls, call, todo, ret, rd, pins, noise, rx, out, enabled, want>>

\* The target sees an edge too many before it is enabled.
Noise ==
    /\ noise < MaxNoise /\ noise' = noise + 1
    /\ ~enabled /\ pins.resetb = 0 /\ todo # <<>> /\ call.fn = "setup_serial_programming"
    /\ TargetClock(pins.mosi)
    /\ UNCHANGED <<calls, call, todo, ret, rd, pins, want>>

Done == calls = <<>> /\ call = NoCall /\ UNCHANGED vars

Program == CallNext \/ Return \/ ClockStep \/ ResetPin \/ Compute

Next == Program \/ Ready \/ Noise \/ Done

Spec == Init /\ [][Next]_vars

-----------------------------------------------------------------------------
\* Between two calls the target's memories, fuses and lock byte are what the calls
\* promised, however the enabling went.
CallsTakeEffect == call = NoCall => chip.mem = want

\* A reading function returns what the target holds: no bit of the echo, of the
\* instruction or of the byte before in it.
AnswersAreTrue == (call # NoCall /\ todo = <<>>) => ret = Answer(call, want, TRUE)

\* No instruction but the poll reaches the target while it erases or writes.
NeverWhileBusy == ~chip.early

\* setup_serial_programming() does not return before the target is enabled and in
\* step, whatever it counted before: the echo check catches a lost or extra edge.
SetupInStep ==
    (call.fn = "setup_serial_programming" /\ todo = <<>>) => enabled /\ rx = <<>>
=============================================================================
