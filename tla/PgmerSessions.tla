--------------------------- MODULE PgmerSessions ---------------------------
(***************************************************************************)
(* The calls that serial_pgmer_demo.c, parallel_pgmer_demo.c and           *)
(* jtag_pgmer_demo.c make of the programmer they are linked with.  Their   *)
(* comparing loops end at the first word that differs; with a target whose *)
(* cells all work and answers that are true none does, so that a session   *)
(* is the same sequence of calls every time.                               *)
(***************************************************************************)
EXTENDS TargetChip, SequencesExt

CONSTANT code    \* the program to burn

ASSUME CodeAssumption == code \in Seq(Word) /\ code # <<>> /\ Len(code) <= SPM_SZ_WORDS

CODE_SZ_WORDS == Len(code)
EEP_SZ == EepBytes \div 2
Pages == (CODE_SZ_WORDS + SPM_PS_WORDS - 1) \div SPM_PS_WORDS

Fn(fn) == Call(fn, 0, 0)
Reads(fn, n) == [i \in 1..n |-> Call(fn, i - 1, 0)]

erase_ok == Reads("read_pgm_mem_word", SPM_SZ_WORDS) \o Reads("read_eeprom", EEP_SZ)

\* The last page is filled up, and each page written after its last word.
LoadWord(waddr) ==
    <<Call("load_pgm_mem_word", waddr, IF waddr < CODE_SZ_WORDS THEN code[waddr + 1] ELSE BlankWord)>>
      \o IF (waddr + 1) % SPM_PS_WORDS = 0 THEN <<Call("write_pgm_mem_page", waddr, 0)>> ELSE <<>>

pgm_mem == FlattenSeq([i \in 1..(Pages * SPM_PS_WORDS) |-> LoadWord(i - 1)])

parallel_pgm_mem == <<Fn("initiate_pgm_mem_write")>> \o pgm_mem \o <<Fn("shutdown_pgm_mem_write")>>

pgm_ok == Reads("read_pgm_mem_word", CODE_SZ_WORDS)

Displays == <<Fn("read_sign"), Fn("read_lock"), Fn("read_fuse"), Fn("read_cali")>>

-----------------------------------------------------------------------------
\* What is shown before the loop, and what a press of the switch sets off.
serial_start == <<Fn("setup_serial_programming")>> \o Displays \o <<Fn("reset_serial_programming")>>

serial_session ==
    <<Fn("setup_serial_programming"), Fn("erase_chip")>> \o erase_ok \o pgm_mem \o pgm_ok
      \o <<Fn("read_fuse"), Fn("read_lock"), Fn("reset_serial_programming")>>

parallel_start ==
    <<Fn("setup_parallel_programming")>> \o Displays \o <<Fn("reset_parallel_programming")>>

parallel_session ==
    <<Fn("setup_parallel_programming"), Fn("erase_chip")>> \o erase_ok \o parallel_pgm_mem \o pgm_ok
      \o <<Fn("read_fuse"), Fn("read_lock"), Fn("reset_parallel_programming")>>

\* The JTAG library has no shutdown_pgm_mem_write().
jtag_session ==
    <<Fn("setup_jtag_programming"), Fn("erase_chip")>> \o erase_ok
      \o <<Fn("initiate_pgm_mem_write")>> \o pgm_mem \o pgm_ok
      \o <<Fn("read_fuse"), Fn("read_lock"), Fn("reset_jtag_programming")>>
=============================================================================
