----------------------------- MODULE Programmers -----------------------------
(***************************************************************************)
(* The three programmers behind their common API: an application is linked *)
(* with one of them, makes its calls, and the same chip sits at the other  *)
(* end of the cable.  The state of the two drivers that are not linked is  *)
(* the constant "off".                                                     *)
(***************************************************************************)
EXTENDS TargetChip

CONSTANTS
    Sessions,     \* per driver, the sequences of calls an application makes
    Recovery,     \* the sessions after a restart of the JTAG programmer
    MaxRestarts, MaxNoise

-----------------------------------------------------------------------------
(* The API as its header files give it, and the order the library's functions *)
(* rely on: a session begins with setup and ends with reset, the buffer of a  *)
(* memory is loaded behind initiate_, and a page written behind its loads.    *)
(* The serial functions need no such order, their instructions are complete.  *)

Setup == [jtag |-> "setup_jtag_programming", parallel |-> "setup_parallel_programming",
          serial |-> "setup_serial_programming"]
Reset == [jtag |-> "reset_jtag_programming", parallel |-> "reset_parallel_programming",
          serial |-> "reset_serial_programming"]

Common == {"erase_chip", "read_sign", "read_cali", "read_lock", "read_fuse", "write_lock", "write_fuse",
           "read_pgm_mem_word", "load_pgm_mem_word", "write_pgm_mem_page",
           "read_eeprom", "load_eep_mem_byte", "write_eep_mem_page"}
Initiate == {"initiate_pgm_mem_write", "initiate_eep_mem_write"}
Library == [jtag |-> Common \cup Initiate, parallel |-> Common \cup Initiate \cup {"shutdown_pgm_mem_write"},
            serial |-> Common \cup {"write_eeprom", "load_ext_addr"}]

\* The two unused bits of the lock byte are ones.
Proper(c) ==
    /\ c.fn \in {"read_pgm_mem_word", "load_pgm_mem_word", "write_pgm_mem_page"}
          => c.a \in 0..(SPM_SZ_WORDS - 1)
    /\ c.fn \in {"read_eeprom", "load_eep_mem_byte", "write_eep_mem_page", "write_eeprom"}
          => c.a \in 0..(EepBytes - 1)
    /\ c.fn = "load_pgm_mem_word" => c.v \in Word
    /\ c.fn \in {"load_eep_mem_byte", "write_eeprom"} => c.v \in Byte
    /\ c.fn = "write_lock" => c.v \in 192..255
    /\ c.fn = "write_fuse" => c.v \in Nat /\ c.v \div 65536 \in Byte
    /\ c.fn = "load_ext_addr" => c.a \in Byte

Follows(c, d) ==
    /\ d.fn = "load_pgm_mem_word"
          => c.fn \in {"initiate_pgm_mem_write", "load_pgm_mem_word", "write_pgm_mem_page"}
    /\ d.fn = "load_eep_mem_byte"
          => c.fn \in {"initiate_eep_mem_write", "load_eep_mem_byte", "write_eep_mem_page"}
    /\ d.fn = "write_pgm_mem_page" => c.fn = "load_pgm_mem_word" /\ PageOf(c.a) = PageOf(d.a)
    /\ d.fn = "write_eep_mem_page" => c.fn = "load_eep_mem_byte" /\ EepPageOf(c.a) = EepPageOf(d.a)

Orderly(d, s) ==
    /\ s \in Seq([fn : STRING, a : Nat, v : Nat]) /\ Len(s) > 1
    /\ s[1].fn = Setup[d] /\ s[Len(s)].fn = Reset[d]
    /\ \A i \in 2..(Len(s) - 1) : s[i].fn \in Library[d] /\ Proper(s[i])
    /\ d # "serial" => \A i \in 2..Len(s) : Follows(s[i - 1], s[i])

ASSUME SessionsAssumption ==
    /\ DOMAIN Sessions = {"jtag", "parallel", "serial"}
    /\ \A d \in DOMAIN Sessions : \A s \in Sessions[d] : Orderly(d, s)
    /\ Recovery \subseteq Sessions["jtag"]
    /\ MaxRestarts \in Nat /\ MaxNoise \in Nat

VARIABLES
    driver,                           \* the programmer the application is linked with
    calls, call, todo, ret, pins, chip, want,
    restarts, prog, rd,               \* of two of them
    tap, ir, sr, rst,                 \* JTAG only
    port,                             \* parallel only
    noise, rx, out, enabled           \* serial only

vars == <<driver, calls, call, todo, ret, pins, chip, want, restarts, prog, rd,
          tap, ir, sr, rst, port, noise, rx, out, enabled>>

J == INSTANCE JtagPgmer WITH Scripts <- Sessions["jtag"]
P == INSTANCE ParallelPgmer WITH Scripts <- Sessions["parallel"]
S == INSTANCE SerialPgmer WITH Scripts <- Sessions["serial"]

Off(v) == v = "off"

-----------------------------------------------------------------------------
Init ==
    \/ /\ driver = "jtag" /\ J!Init
       /\ Off(port) /\ Off(noise) /\ Off(rx) /\ Off(out) /\ Off(enabled)
    \/ /\ driver = "parallel" /\ P!Init
       /\ Off(rd) /\ Off(tap) /\ Off(ir) /\ Off(sr) /\ Off(rst)
       /\ Off(noise) /\ Off(rx) /\ Off(out) /\ Off(enabled)
    \/ /\ driver = "serial" /\ S!Init
       /\ Off(restarts) /\ Off(prog) /\ Off(tap) /\ Off(ir) /\ Off(sr) /\ Off(rst) /\ Off(port)

\* A step of the linked driver leaves the others' state alone.
Jtag(A) == driver = "jtag" /\ A /\ UNCHANGED <<driver, port, noise, rx, out, enabled>>
Parallel(A) == driver = "parallel" /\ A
               /\ UNCHANGED <<driver, rd, tap, ir, sr, rst, noise, rx, out, enabled>>
Serial(A) == driver = "serial" /\ A
             /\ UNCHANGED <<driver, restarts, prog, tap, ir, sr, rst, port>>

Program == Jtag(J!Program) \/ Parallel(P!Program) \/ Serial(S!Program)

Ready == Jtag(J!Ready) \/ Parallel(P!Ready) \/ Serial(S!Ready)

Next == Jtag(J!Next) \/ Parallel(P!Next) \/ Serial(S!Next)

\* The program runs, and the target finishes what it was told to do.
FairSpec == Init /\ [][Next]_vars /\ WF_vars(Program) /\ WF_vars(Ready)

-----------------------------------------------------------------------------
\* Power lost in the middle of a JTAG scan: five TMS ones lead the TAP through
\* Update-DR, which may take the cut scan as a command and start a write.
CutScan == driver = "jtag" /\ restarts > 0 /\ chip.early

\* Between two calls the target's memories are what the calls promised, in all
\* three drivers: the bits and levels added up to those operations and to no
\* other, whatever the TAP's state, stray edges and restarts before setup were.
\* Left out are the fuses of the parallel driver, whose set_bs2() and reset_bs2()
\* drive BS1: P!FusesTakeEffect, which TLC refutes.
CallsTakeEffect ==
    CASE driver = "jtag"     -> CutScan \/ J!CallsTakeEffect
      [] driver = "parallel" -> P!CallsTakeEffect
      [] driver = "serial"   -> S!CallsTakeEffect

\* A reading function returns what the target holds: no bit of the scan, of the
\* echo or of the command before in it.  Left out is read_fuse() of the parallel
\* driver: it selects its bytes with set_bs2() and reset_bs2(), which drive BS1.
AnswersAreTrue ==
    CASE driver = "jtag"     -> CutScan \/ J!AnswersAreTrue
      [] driver = "parallel" -> P!AnswersAreTrue
      [] driver = "serial"   -> S!AnswersAreTrue

\* The two ends agree on where they are.  JTAG: every scan starts in the TAP
\* state its comment assumes, and the target runs again after the session.
\* Parallel: the port is driven by exactly one side when a byte is taken.
\* Serial: setup returns only when the target counts bits from the same edge.
InStep ==
    CASE driver = "jtag"     -> J!ScansStartWhereAssumed /\ J!TargetRuns
      [] driver = "parallel" -> P!LoadsDriven
      [] driver = "serial"   -> S!SetupInStep

\* No operation reaches the target while it erases or writes: a poll of the
\* wrong bit, or one that reads the scan before, would let one through.
NeverWhileBusy == CutScan \/ ~chip.early

\* Every session ends, whatever state the TAP was in, however long the target is
\* busy, and with stray edges while it is enabled: no poll loop starves.
SessionEnds == <>(calls = <<>> /\ call = NoCall)
=============================================================================
