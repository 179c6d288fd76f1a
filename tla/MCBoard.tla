------------------------------ MODULE MCBoard ------------------------------
(* Demo: five words of code on a flash of three pages of four words; one     *)
(* flash word of each kind (code, padding, beyond) and one EEPROM byte may   *)
(* be dead.  Clock: a second before the turn of the century, running or      *)
(* halted.  Remote: the source's bursts in units of 500 cycles.  Cube: one   *)
(* round of each figure.                                                     *)
EXTENDS Board

MCSignature == [i \in 0..2 |-> <<30, 148, 3>>[i + 1]]
MCCode == <<\HC029, 0, \HC042, \H1F, \H2411>>
MCOldFlash == [i \in 0..11 |-> IF i = 7 THEN 65535 ELSE \H9508 + i]
MCOldEep == [i \in 0..3 |-> 85]
MCStuckFlash == {{}, {4}, {6, 7}, {10}}
MCStuckEep == {{}, {0}, {3}}

\* 31.12.2099, 23:59:59; the top bit of the seconds halts the DS1307.
Registers(halt) == [r \in 0..7 |-> <<\H59 + halt, \H59, \H23, 7, \H31, \H12, \H99, 0>>[r + 1]]
MCRtc0 == {Registers(0), Registers(128)}

MCHeader == <<9, 9>>
MCOne == <<1, 3>>
MCZero == <<1, 1>>

\* Pager: 'A' and 'B', with texts short but for one that wraps at the end of the line.
MCDuniya == <<>>
MCSending == <<>>
MCReceived == <<>>
MCError == <<69, 58, 32>>

\* Console: a line one longer than data_out, and another one typed while it is sent.
MCText == <<65, 66, 67, 10, 68, 10>>
MCBuilds == {[timerFirst |-> TRUE, before |-> 0]}
MCStarts == {[clk |-> 0, ms |-> 7], [clk |-> 4, ms |-> 3]}

\* Flash: lines of up to three of "w", " ", "5" and "z", the whole commands, and some others.
MCTyped == {119, 32, 53, 122}
MCLines ==
    UNION {[1..n -> MCTyped] : n \in 0..3}
      \union {<<119, 32, first, second>> : first, second \in MCTyped}
      \union {<<104>>, <<114>>, <<114, 53>>, <<119, 32, 65>>, <<119, 32, 97, 53>>,
              <<119, 32, 32, 53, 53>>, <<119, 32, 53, 53, 53>>}

MCSine == <<0, 3, 6, 8, 9, 10>>

\* The texts of the menu.
MCLength == [label |-> <<7, 5, 7>>, fruit |-> <<5, 6, 9, 5, 6, 4>>, day |-> <<6, 6, 7, 9, 8, 6, 8>>]
=============================================================================
