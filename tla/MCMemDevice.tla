---------------------------- MODULE MCMemDevice ----------------------------
(* A small memory device: pages of 4 bytes, packets of 3 (they straddle a    *)
(* page end at every alignment), a flash window of two pages between four    *)
(* bytes of firmware and four of boot section.                               *)
EXTENDS MemDevice

MCEeprom0 == [a \in 0 .. (EepromSize - 1) |-> "old"]
MCFlash0 == [a \in 0 .. FlashEnd |-> "old"]
MCPayload == {<<"a", "b", "a">>, <<"a">>}

\* fwp_buf_off counts up without bound while the EEPROM is written.
SmallFill == mem_type = "eeprom" => fwp_buf_off <= 3
=============================================================================
