--------------------------- MODULE MCProgrammers ---------------------------
(* The demos' sessions and the library functions they do not use, on a flash *)
(* of two pages: EEPROM, fuse and lock writes, with each driver's own calls. *)
EXTENDS Programmers, PgmerSessions

Session(d, body) ==
    <<Fn("setup_" \o d \o "_programming")>> \o body \o <<Fn("reset_" \o d \o "_programming")>>

LoadByte == <<Call("load_eep_mem_byte", 3, 90), Call("write_eep_mem_page", 3, 0)>>

MCSessions == [
    jtag |-> {jtag_session} \union {Session("jtag", s) : s \in {
        <<Fn("read_sign"), Fn("initiate_eep_mem_write")>> \o LoadByte
            \o <<Call("read_eeprom", 3, 0), Fn("read_cali")>>,
        <<Call("write_fuse", 0, \HFF99E1 - \H10), Call("write_lock", 0, 207), Fn("read_fuse"),
          Fn("read_lock")>>,
        <<Call("read_pgm_mem_word", 2, 0)>>}},
    parallel |-> {parallel_start, parallel_session} \union {Session("parallel", s) : s \in {
        <<Fn("read_sign"), Fn("initiate_eep_mem_write")>> \o LoadByte
            \o <<Call("read_eeprom", 3, 0), Call("read_eeprom", 0, 0), Fn("read_cali")>>,
        <<Call("write_fuse", 0, \H0199E1), Call("write_lock", 0, 207), Fn("read_lock"),
          Fn("read_fuse")>>}},
    serial |-> {serial_start, serial_session} \union {Session("serial", s) : s \in {
        LoadByte \o <<Call("write_eeprom", 0, 17), Call("read_eeprom", 3, 0), Fn("load_ext_addr")>>,
        <<Call("write_fuse", 0, \H0199E1), Call("write_lock", 0, 207), Fn("read_fuse"),
          Fn("read_lock")>>}}]

MCRecovery == {Session("jtag", <<Call("read_pgm_mem_word", 2, 0)>>)}
MCCode == <<\H1A05, 0, \H7FFF>>
MCSignature == [i \in 0..2 |-> <<30, 148, 3>>[i + 1]]
=============================================================================
