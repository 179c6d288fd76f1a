----------------------------- MODULE TargetChip -----------------------------
(***************************************************************************)
(* The AVR that the programmers of Examples/ program: its memories, the    *)
(* programming engine behind its parallel and JTAG interfaces, and what    *)
(* each function of the programmers' common API promises about it.  The    *)
(* chip is not in the repository: its side is taken from the instruction   *)
(* bytes, command words and pin sequences the programmers send.            *)
(***************************************************************************)
EXTENDS Integers, Sequences, FiniteSets, FiniteSetsExt

CONSTANTS
    SPM_SZ_WORDS,   \* words of flash
    SPM_PS_WORDS,   \* words of a flash page
    EepBytes,       \* bytes of EEPROM (E2END + 1)
    E2PAGESIZE,     \* bytes of an EEPROM page
    Signature, Calibration

ASSUME ChipAssumption ==
    /\ {SPM_PS_WORDS, E2PAGESIZE} \subseteq {1, 2, 4, 8, 16, 32, 64, 128, 256}
    /\ SPM_SZ_WORDS \in {n * SPM_PS_WORDS : n \in 1..128}
    /\ EepBytes \in {n * E2PAGESIZE : n \in 1..128}
    /\ Signature \in [0..2 -> 0..255] /\ Calibration \in 0..255

Byte == 0..255
BlankWord == 65535
Word == 0..BlankWord

Bit(n, i) == (n \div 2^i) % 2
Low(w) == w % 256
High(w) == w \div 256

And(v, w) ==
    LET b(i) == Bit(v, i) * Bit(w, i)
        n(i) == b(i) + 2 * b(i + 1) + 4 * b(i + 2) + 8 * b(i + 3)
    IN n(0) + 16 * n(4) + 256 * n(8) + 4096 * n(12)

\* Flash programming only clears bits.
Burn(old, new) == IF new = BlankWord THEN old ELSE
                  IF old = BlankWord THEN new ELSE And(old, new)

Blank(n, v) == [i \in 0..(n - 1) |-> v]

-----------------------------------------------------------------------------
(* The memories, and what each operation does to them. *)

PageOf(a) == (a \div SPM_PS_WORDS) * SPM_PS_WORDS
EepPageOf(a) == (a \div E2PAGESIZE) * E2PAGESIZE

Factory == [flash |-> Blank(SPM_SZ_WORDS, BlankWord), page |-> Blank(SPM_PS_WORDS, BlankWord),
            eep |-> Blank(EepBytes, 255), eepPage |-> <<>>,
            lfuse |-> 225, hfuse |-> 153, efuse |-> 255, lock |-> 255]

Erased(m) == [m EXCEPT !.flash = Blank(SPM_SZ_WORDS, BlankWord),
                       !.eep = Blank(EepBytes, 255), !.lock = 255]

PageLoaded(m, a, w) == [m EXCEPT !.page[a % SPM_PS_WORDS] = w]

PageWritten(m, a) ==
    [m EXCEPT !.flash = [i \in DOMAIN m.flash |->
                            IF PageOf(i) = PageOf(a)
                            THEN Burn(m.flash[i], m.page[i % SPM_PS_WORDS]) ELSE m.flash[i]],
              !.page = Blank(SPM_PS_WORDS, BlankWord)]

\* Only the loaded bytes of an EEPROM page are erased and written.
EepLoaded(m, a, b) ==
    [m EXCEPT !.eepPage = [i \in DOMAIN m.eepPage \cup {a % E2PAGESIZE} |->
                              IF i = a % E2PAGESIZE THEN b ELSE m.eepPage[i]]]

EepWritten(m, a) ==
    [m EXCEPT !.eep = [i \in DOMAIN m.eep |->
                          IF EepPageOf(i) = EepPageOf(a) /\ i % E2PAGESIZE \in DOMAIN m.eepPage
                          THEN m.eepPage[i % E2PAGESIZE] ELSE m.eep[i]],
              !.eepPage = <<>>]

-----------------------------------------------------------------------------
(* The API of jtag_programmer.h, parallel_programmer.h, serial_programmer.h. *)

Call(fn, a, v) == [fn |-> fn, a |-> a, v |-> v]

NoCall == Call("none", 0, 0)

\* The memories after a call that the caller made with m before it.  efuse is
\* the third byte of v; hasE says whether the interface writes it.
Promised(c, m, hasE) ==
    CASE c.fn = "erase_chip"         -> Erased(m)
      [] c.fn = "load_pgm_mem_word"  -> PageLoaded(m, c.a, c.v)
      [] c.fn = "write_pgm_mem_page" -> PageWritten(m, c.a)
      [] c.fn = "load_eep_mem_byte"  -> EepLoaded(m, c.a, c.v)
      [] c.fn = "write_eep_mem_page" -> EepWritten(m, c.a)
      [] c.fn = "write_eeprom"       -> [m EXCEPT !.eep[c.a] = c.v]
      [] c.fn = "write_lock"         -> [m EXCEPT !.lock = c.v]
      [] c.fn = "write_fuse"         -> [m EXCEPT !.lfuse = Low(c.v), !.hfuse = High(c.v) % 256,
                                                  !.efuse = IF hasE THEN c.v \div 65536 ELSE @]
      [] OTHER                       -> m

\* What a reading call has to return.
Answer(c, m, hasE) ==
    CASE c.fn = "read_pgm_mem_word" -> <<m.flash[c.a]>>
      [] c.fn = "read_eeprom"       -> <<m.eep[c.a]>>
      [] c.fn = "read_sign"         -> [i \in 1..3 |-> Signature[i - 1]]
      [] c.fn = "read_lock"         -> <<m.lock>>
      [] c.fn = "read_cali"         -> <<Calibration>>
      [] c.fn = "read_fuse"         -> <<IF hasE THEN m.efuse ELSE 0, m.hfuse, m.lfuse>>
      [] OTHER                      -> <<>>

-----------------------------------------------------------------------------
(* The engine behind the parallel pins and the JTAG commands. *)

Engine == [cmd |-> 0, addrL |-> 0, addrH |-> 0, dataL |-> 0, dataH |-> 0]

Chip == [mem |-> Factory, eng |-> Engine, busy |-> FALSE, early |-> FALSE, out |-> 0]

Address(c) == c.eng.addrH * 256 + c.eng.addrL

Guarded(c, act) == IF c.busy THEN [c EXCEPT !.early = TRUE] ELSE act

\* XA1 XA0: 0 address, 1 data, 2 command, 3 nothing; BS1 selects the byte.
Load(c, xa, bs1, byte) ==
    IF xa = 3 THEN c
    ELSE Guarded(c, [c EXCEPT !.eng =
            CASE xa = 2           -> [@ EXCEPT !.cmd = byte]
              [] xa = 0 /\ bs1 = 0 -> [@ EXCEPT !.addrL = byte]
              [] xa = 0 /\ bs1 = 1 -> [@ EXCEPT !.addrH = byte]
              [] xa = 1 /\ bs1 = 0 -> [@ EXCEPT !.dataL = byte]
              [] xa = 1 /\ bs1 = 1 -> [@ EXCEPT !.dataH = byte]])

Latch(c) ==
    Guarded(c, [c EXCEPT !.mem =
        CASE c.eng.cmd = 16 -> PageLoaded(@, c.eng.addrL, c.eng.dataH * 256 + c.eng.dataL)
          [] c.eng.cmd = 17 -> EepLoaded(@, c.eng.addrL, c.eng.dataL)
          [] OTHER          -> @])

Strobe(c, bs2, bs1) ==
    Guarded(c, [c EXCEPT !.busy = c.eng.cmd \in {16, 17, 32, 64, 128}, !.mem =
        CASE c.eng.cmd = 128                          -> Erased(@)
          [] c.eng.cmd = 16                           -> PageWritten(@, Address(c) % SPM_SZ_WORDS)
          [] c.eng.cmd = 17                           -> EepWritten(@, Address(c) % EepBytes)
          [] c.eng.cmd = 32                           -> [@ EXCEPT !.lock = c.eng.dataL]
          [] c.eng.cmd = 64 /\ bs2 = 0 /\ bs1 = 0     -> [@ EXCEPT !.lfuse = c.eng.dataL]
          [] c.eng.cmd = 64 /\ bs2 = 0 /\ bs1 = 1     -> [@ EXCEPT !.hfuse = c.eng.dataL]
          [] c.eng.cmd = 64 /\ bs2 = 1 /\ bs1 = 0     -> [@ EXCEPT !.efuse = c.eng.dataL]
          [] OTHER                                    -> @])

\* What the chip drives with OE low.
Output(c, bs2, bs1) ==
    CASE c.eng.cmd = 2 /\ bs1 = 0              -> Low(c.mem.flash[Address(c) % SPM_SZ_WORDS])
      [] c.eng.cmd = 2 /\ bs1 = 1              -> High(c.mem.flash[Address(c) % SPM_SZ_WORDS])
      [] c.eng.cmd = 3                         -> c.mem.eep[Address(c) % EepBytes]
      [] c.eng.cmd = 8 /\ bs1 = 0              -> Signature[c.eng.addrL % 3]
      [] c.eng.cmd = 8 /\ bs1 = 1              -> Calibration
      [] c.eng.cmd = 4 /\ bs2 = 0 /\ bs1 = 0   -> c.mem.lfuse
      [] c.eng.cmd = 4 /\ bs2 = 1 /\ bs1 = 1   -> c.mem.hfuse
      [] c.eng.cmd = 4 /\ bs2 = 0 /\ bs1 = 1   -> c.mem.lock
      [] c.eng.cmd = 4 /\ bs2 = 1 /\ bs1 = 0   -> c.mem.efuse
      [] OTHER                                 -> 255
=============================================================================
